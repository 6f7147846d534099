----------------------------- MODULE TileProofs ------------------------------
(***************************************************************************)
(* What is proved of the map tiles on a board and the two that write them   *)
(* (TileStore).                                                            *)
(*                                                                         *)
(* That a file that looks like a tile is one (OnlyWholeTiles), for every   *)
(* set of tiles and plans, size of flash, and number of syncs, jobs, lost  *)
(* lines and power cuts, of a board that is Timely.                        *)
(*                                                                         *)
(* The argument: the Mac sends a line of an upload only when no other line *)
(* and no answer is out, since its plan was made from the last answer that *)
(* was (InStep); so an ack it goes on after is of the upload that is open,  *)
(* and when the end of an upload comes, what is open is the tile whose sum *)
(* it has, or nothing is (EndRight). A sync that was interrupted leaves one *)
(* answer behind, which the look for free space has out of the way.        *)
(*                                                                         *)
(* And that each writer keeps what it plans (PlanKept), and that the tiles  *)
(* fit the flash (TileTypeOK): the argument is in the second part. At the    *)
(* end, of the types beside those of the match log's copy, as MCCopies runs  *)
(* the two; its model values play no part in it.                            *)
(***************************************************************************)
EXTENDS MCCopies, LogSyncProofs, SequenceTheorems, WellFoundedInduction, TLAPS

Elems(s) == {s[i] : i \in DOMAIN s}

MacFields == {"state", "planned", "known", "free", "disk", "plan", "send", "delete", "cur", "seq", "sent", "done"}
MacStates == {"idle", "awaitStat", "awaitList", "deleting", "awaitAck", "awaitOk"}

\* What the lines and the records are.
SerialOK ==
  /\ toBoard \in Seq(Elems(toBoard)) /\ toMac \in Seq(Elems(toMac))
  /\ \A i \in DOMAIN toBoard :
       /\ toBoard[i].cmd \in {"stat", "ls", "begin", "data", "end", "rm"}
       /\ toBoard[i].cmd = "begin" => toBoard[i].tile \in Tile
MacOK ==
  /\ DOMAIN mac = MacFields /\ mac.state \in MacStates /\ mac.planned \in BOOLEAN
  /\ mac.plan \subseteq Tile /\ mac.send \subseteq Tile
OpenOK == DOMAIN open = {"tile", "left", "before"}

Outstanding == Len(toBoard) + Len(toMac)
Asks(i) == toBoard[i].cmd \in {"stat", "ls"}

\* A line of an upload is the next the board takes; the end of one has the sum
\* of the tile that is open.
EndRight ==
  /\ \A i \in DOMAIN toBoard : ~Asks(i) => i = 1
  /\ toBoard # <<>> /\ toBoard[1].cmd = "end" /\ IsOpen => toBoard[1].crc = Content(open.tile)

\* What is out while the Mac waits for an answer, and before it sends.
AskedStat ==
  mac.state = "awaitStat" =>
    /\ Outstanding <= 2
    /\ Len(toMac) = 2 => toMac[2].type = "stat"
    /\ Outstanding = 2 /\ toBoard # <<>> => toBoard[Len(toBoard)].cmd = "stat"
AskedList ==
  mac.state = "awaitList" =>
    /\ \A i \in DOMAIN toBoard : Asks(i) /\ (toBoard[i].cmd = "ls" => i = Len(toBoard))
    /\ \A i \in DOMAIN toMac : toMac[i].type \in {"stat", "list"} /\ (toMac[i].type = "list" => i = Len(toMac) /\ toBoard = <<>>)
AskedNothing ==
  /\ mac.planned => mac.state = "idle" /\ Outstanding = 0
  /\ mac.state = "deleting" => Outstanding <= 1
AskedAck ==
  mac.state = "awaitAck" =>
    /\ Outstanding <= 1
    /\ \A i \in DOMAIN toBoard : toBoard[i].cmd \in {"begin", "data"} /\ (toBoard[i].cmd = "begin" => toBoard[i].tile = mac.cur)
    /\ \/ Outstanding = 0 \/ (toBoard # <<>> /\ toBoard[1].cmd = "begin")
       \/ IsOpen => open.tile = mac.cur
AskedOk ==
  mac.state = "awaitOk" =>
    /\ Outstanding <= 1
    /\ \A i \in DOMAIN toBoard : toBoard[i].cmd = "end" /\ toBoard[i].crc = Content(mac.cur) /\ (IsOpen => open.tile = mac.cur)
    /\ \A i \in DOMAIN toMac : toMac[i].type = "ok" => mac.cur \in stored
InStep == AskedStat /\ AskedList /\ AskedNothing /\ AskedAck /\ AskedOk

\* A file is whole but for the upload that is open and what a power cut left.
LooksRight == \A t \in DOMAIN files : Whole(t) \/ (IsOpen /\ t = open.tile) \/ t \in torn

TileInv == SerialOK /\ MacOK /\ OpenOK /\ EndRight /\ InStep /\ LooksRight

-----------------------------------------------------------------------------
LEMMA OfElems == ASSUME NEW S, NEW s \in Seq(S) PROVE s \in Seq(Elems(s)) /\ Len(s) \in Nat /\ DOMAIN s = 1 .. Len(s)
BY DEF Elems

\* A line is appended, and the first is taken.
LEMMA LineAppended ==
  ASSUME NEW s, s \in Seq(Elems(s)), NEW e
  PROVE  /\ Append(s, e) \in Seq(Elems(Append(s, e))) /\ Append(s, e) # <<>>
         /\ Len(s) \in Nat /\ Len(Append(s, e)) = Len(s) + 1 /\ DOMAIN Append(s, e) = 1 .. Len(s) + 1
         /\ \A i \in DOMAIN s : Append(s, e)[i] = s[i]
         /\ Append(s, e)[Len(s) + 1] = e /\ DOMAIN s = 1 .. Len(s)
<1> DEFINE S == Elems(s) \union {e}  a == Append(s, e)
<1>1. s \in Seq(S) OBVIOUS
<1>2. a \in Seq(S) /\ Len(a) = Len(s) + 1 /\ a # <<>> /\ (\A i \in 1 .. Len(s) : a[i] = s[i]) /\ a[Len(s) + 1] = e
  BY <1>1, AppendProperties
<1> HIDE DEF S, a
<1>3. Len(s) \in Nat /\ DOMAIN s = 1 .. Len(s) /\ DOMAIN a = 1 .. Len(a) BY <1>1, <1>2
<1>4. a \in Seq(Elems(a)) BY <1>2, OfElems
<1> QED BY <1>2, <1>3, <1>4 DEF a

LEMMA LineTaken ==
  ASSUME NEW s, s \in Seq(Elems(s)), s # <<>>
  PROVE  /\ Tail(s) \in Seq(Elems(Tail(s))) /\ Head(s) = s[1]
         /\ Len(s) \in Nat \ {0} /\ Len(Tail(s)) = Len(s) - 1 /\ DOMAIN Tail(s) = 1 .. Len(s) - 1
         /\ DOMAIN s = 1 .. Len(s)
         /\ \A i \in DOMAIN Tail(s) : Tail(s)[i] = s[i + 1] /\ i + 1 \in DOMAIN s
<1> DEFINE S == Elems(s)  a == Tail(s)
<1>1. a \in Seq(S) /\ Len(a) = Len(s) - 1 /\ \A i \in 1 .. Len(a) : a[i] = s[i + 1] BY HeadTailProperties
<1>2. Len(s) \in Nat \ {0} /\ DOMAIN s = 1 .. Len(s) /\ Head(s) = s[1] OBVIOUS
<1> HIDE DEF S, a
<1>3. a \in Seq(Elems(a)) /\ DOMAIN a = 1 .. Len(a) BY <1>1, OfElems
<1> QED BY <1>1, <1>2, <1>3 DEF a

\* The first line is replaced.
LEMMA LineReplaced ==
  ASSUME NEW s, s \in Seq(Elems(s)), s # <<>>, NEW e
  PROVE  LET a == <<e>> \o Tail(s) IN
         /\ a \in Seq(Elems(a)) /\ Len(a) = Len(s) /\ DOMAIN a = DOMAIN s
         /\ a[1] = e /\ \A i \in DOMAIN s : i # 1 => a[i] = s[i]
<1> DEFINE S == Elems(s) \union {e}  t == Tail(s)  a == <<e>> \o t
<1>1. t \in Seq(S) /\ Len(t) = Len(s) - 1 /\ (\A i \in 1 .. Len(s) - 1 : t[i] = s[i + 1]) /\ Len(s) \in Nat \ {0} /\ DOMAIN s = 1 .. Len(s)
  BY LineTaken, HeadTailProperties
<1>2. a \in Seq(S) /\ Len(a) = Len(s) /\ DOMAIN a = 1 .. Len(s) BY <1>1
<1>3. a[1] = e /\ \A i \in 1 .. Len(s) : i # 1 => a[i] = s[i]
  <2>1. a[1] = e BY <1>1
  <2>2. ASSUME NEW i \in 1 .. Len(s), i # 1 PROVE a[i] = t[i - 1] BY <1>1, <2>2
  <2>3. ASSUME NEW i \in 1 .. Len(s), i # 1 PROVE t[i - 1] = s[i] BY <1>1, <2>3
  <2> QED BY <2>1, <2>2, <2>3
<1> HIDE DEF S, t, a
<1>4. a \in Seq(Elems(a)) BY <1>2, OfElems
<1> QED BY <1>1, <1>2, <1>3, <1>4 DEF a, t

\* Of any tiles there is a least one.
LEMMA LeastIn ==
  ASSUME NEW S, S \subseteq Nat, S # {}
  PROVE  LeastOf(S) \in S
<1>1. PICK t \in S : \A u \in S : <<u, t>> \notin OpToRel(<, Nat)
  BY NatLessThanWellFounded, WFMin, Zenon
<1>2. \A u \in S : ~(u < t)
  BY <1>1 DEF OpToRel
<1>3. \A u \in S : t <= u
  BY <1>2
<1> QED BY <1>3 DEF LeastOf

\* A plan is of tiles.
LEMMA PlanIs == \A disk, free : PlanOf(disk, free) \subseteq Tile
<1> SUFFICES ASSUME NEW disk, NEW free PROVE PlanOf(disk, free) \subseteq Tile OBVIOUS
<1> DEFINE S == {i \in DOMAIN Circles : Fits(Circles[i], disk, free) \/ i = Len(Circles)}
<1>1. Circles \in Seq(SUBSET Tile) /\ Circles # <<>> BY TileAssumption
<1>2. Len(Circles) \in DOMAIN Circles BY <1>1
<1>3. S \subseteq Nat /\ Len(Circles) \in S BY <1>1, <1>2
<1>4. LeastOf(S) \in DOMAIN Circles
  <2>1. LeastOf(S) \in S BY <1>3, LeastIn
  <2> QED BY <2>1
<1>5. PlanOf(disk, free) = Circles[LeastOf(S)] BY DEF PlanOf
<1> HIDE DEF S
<1> QED BY <1>1, <1>4, <1>5

LEMMA FirstIs == Circles[1] \subseteq Tile
BY TileAssumption

-----------------------------------------------------------------------------
LEMMA TileInitInv == TileInit => TileInv
<1> SUFFICES ASSUME TileInit PROVE TileInv OBVIOUS
<1>1. SerialOK BY DEF TileInit, SerialOK, Elems
<1>2. MacOK /\ OpenOK BY DEF TileInit, MacOK, OpenOK, MacIdle, Closed, MacFields, MacStates
<1>3. mac.state = "idle" /\ mac.planned = FALSE BY DEF TileInit, MacIdle
<1>4. InStep BY <1>3 DEF InStep, AskedStat, AskedList, AskedNothing, AskedAck, AskedOk
<1>5. EndRight BY DEF TileInit, EndRight
<1>6. LooksRight BY DEF TileInit, LooksRight, Whole
<1> QED BY <1>1, <1>2, <1>4, <1>5, <1>6 DEF TileInv

-----------------------------------------------------------------------------
(* What becomes of the files *)

\* What is gone leaves the rest as it is, and so does what is put in.
LEMMA LeftAlone ==
  ASSUME NEW fs, NEW gone, NEW u \in DOMAIN Without(fs, gone)
  PROVE  u \in DOMAIN fs \ gone /\ Without(fs, gone)[u] = fs[u]
BY DEF Without, Restrict

LEMMA PutIn ==
  ASSUME NEW fs, NEW t, NEW body, NEW u \in DOMAIN With(fs, t, body), u # t
  PROVE  u \in DOMAIN fs /\ With(fs, t, body)[u] = fs[u]
BY DEF With

\* The board, beginning an upload.
LEMMA BeginIs ==
  ASSUME LooksRight, NEW t \in Tile, NEW size, Begin(t, size)
  PROVE  LooksRight' /\ OpenOK' /\ open'.tile \in {NoTile, t} /\ \E a : toMac' = Append(toMac, a) /\ a.type \in {"err", "ack"}
<1>1. PICK gone : \E rest :
        /\ rest = Without(Without(files, Superseded), gone)
        /\ \/ files' = rest /\ open' = Closed /\ Say([type |-> "err"]) /\ UNCHANGED torn
           \/ /\ files' = With(rest, t, <<>>) /\ torn' = torn \ {t} /\ Say([type |-> "ack", q |-> 0])
              /\ \E before : open' = [tile |-> t, left |-> size, before |-> before]
  BY DEF Begin
<1> DEFINE rest == Without(Without(files, Superseded), gone)
<1>2. ASSUME NEW u \in DOMAIN rest PROVE rest[u] = Content(u) \/ u \in torn
  <2>1. u \in DOMAIN Without(files, Superseded) /\ rest[u] = Without(files, Superseded)[u] BY LeftAlone, Zenon
  <2>2. u \in DOMAIN files \ Superseded /\ Without(files, Superseded)[u] = files[u] BY <2>1, LeftAlone, Zenon
  <2> QED BY <2>1, <2>2 DEF LooksRight, Whole, Superseded, Stale
<1> HIDE DEF rest
<1>3. CASE files' = rest /\ open' = Closed /\ Say([type |-> "err"]) /\ UNCHANGED torn
  <2>1. LooksRight' BY <1>2, <1>3 DEF LooksRight, Whole, Content
  <2>2. OpenOK' /\ open'.tile = NoTile BY <1>3 DEF OpenOK, Closed
  <2> QED BY <1>3, <2>1, <2>2 DEF Say
<1>4. ASSUME files' = With(rest, t, <<>>), torn' = torn \ {t}, Say([type |-> "ack", q |-> 0]),
             NEW before, open' = [tile |-> t, left |-> size, before |-> before]
      PROVE  LooksRight' /\ OpenOK' /\ open'.tile = t /\ \E a : toMac' = Append(toMac, a) /\ a.type \in {"err", "ack"}
  <2>1. OpenOK' /\ open'.tile = t /\ IsOpen' BY <1>4, TileAssumption DEF OpenOK, IsOpen, Tile
  <2>2. ASSUME NEW u \in DOMAIN files', u # t PROVE files'[u] = Content(u) \/ u \in torn'
    <3>1. u \in DOMAIN With(rest, t, <<>>) /\ files'[u] = With(rest, t, <<>>)[u] BY <1>4, <2>2
    <3>2. u \in DOMAIN rest /\ With(rest, t, <<>>)[u] = rest[u]
      <4>1. u # t BY <2>2
      <4>2. u \in DOMAIN With(rest, t, <<>>) BY <3>1
      <4> QED BY <4>1, <4>2, PutIn
    <3> QED BY <3>1, <3>2, <1>2, <1>4, <2>2
  <2>3. LooksRight' BY <2>1, <2>2 DEF LooksRight, Whole, Content
  <2> QED BY <1>4, <2>1, <2>3 DEF Say
<1> QED BY <1>1, <1>3, <1>4 DEF rest

\* What an upload that failed leaves.
LEMMA DroppedIs ==
  ASSUME LooksRight, Dropped, UNCHANGED torn
  PROVE  LooksRight' /\ OpenOK' /\ open'.tile = NoTile /\ \E a : toMac' = Append(toMac, a) /\ a.type = "err"
<1>1. files' = Without(files, Stale) /\ open' = Closed /\ Say([type |-> "err"]) BY DEF Dropped
<1>2. ASSUME NEW u \in DOMAIN files' PROVE u \in DOMAIN files \ Stale /\ files'[u] = files[u]
  <2>1. u \in DOMAIN Without(files, Stale) /\ files'[u] = Without(files, Stale)[u] BY <1>1, <1>2
  <2>2. u \in DOMAIN files \ Stale /\ Without(files, Stale)[u] = files[u] BY <2>1, LeftAlone
  <2> QED BY <2>1, <2>2
<1>3. LooksRight' BY <1>1, <1>2 DEF LooksRight, Whole, Content, Stale
<1> QED BY <1>1, <1>3 DEF OpenOK, Closed, Say

\* A chunk.
LEMMA DataIs ==
  ASSUME LooksRight, OpenOK, NEW q, NEW chunk, Data(q, chunk)
  PROVE  LooksRight' /\ OpenOK' /\ open'.tile \in {NoTile, open.tile} /\ \E a : toMac' = Append(toMac, a) /\ a.type \in {"err", "ack"}
<1>1. UNCHANGED torn BY DEF Data
<1>2. CASE Say([type |-> "err"]) /\ UNCHANGED <<files, open>>
  BY <1>1, <1>2 DEF LooksRight, Whole, Content, OpenOK, Say, IsOpen
<1>3. CASE Dropped
  BY <1>1, <1>3, DroppedIs
<1>4. CASE /\ IsOpen /\ files' = [files EXCEPT ![open.tile] = Append(@, chunk)]
           /\ open' = [open EXCEPT !.left = @ - 1] /\ Say([type |-> "ack", q |-> q])
  <2>1. open'.tile = open.tile /\ OpenOK' /\ IsOpen' BY <1>4 DEF OpenOK, IsOpen
  <2>2. ASSUME NEW u \in DOMAIN files', u # open.tile PROVE u \in DOMAIN files /\ files'[u] = files[u] BY <1>4, <2>2
  <2>3. LooksRight' BY <1>1, <2>1, <2>2 DEF LooksRight, Whole, Content
  <2> QED BY <1>4, <2>1, <2>3 DEF Say
<1> QED BY <1>2, <1>3, <1>4 DEF Data

\* The end of an upload.
LEMMA EndIs ==
  ASSUME LooksRight, OpenOK, NEW crc, EndFile(crc), IsOpen => crc = Content(open.tile)
  PROVE  /\ LooksRight' /\ OpenOK' /\ open'.tile = NoTile
         /\ \/ toMac' = toMac
            \/ \E a : toMac' = Append(toMac, a) /\ (a.type = "err" \/ (a.type = "ok" /\ IsOpen /\ open.tile \in stored'))
<1>1. UNCHANGED torn BY DEF EndFile
<1>2. CASE ~IsOpen /\ UNCHANGED <<files, open, toMac>>
  BY <1>1, <1>2 DEF LooksRight, Whole, Content, OpenOK, IsOpen
<1>3. CASE Dropped
  BY <1>1, <1>3, DroppedIs
<1>4. CASE /\ IsOpen /\ CrcRight(crc) /\ UNCHANGED files /\ open' = Closed /\ Say([type |-> "ok"])
           /\ stored' = (IF Whole(open.tile) THEN stored \union {open.tile} ELSE stored)
  <2>1. Whole(open.tile) BY <1>4 DEF Whole, CrcRight
  <2>2. open.tile \in stored' BY <1>4, <2>1
  <2>3. LooksRight' BY <1>1, <1>4, <2>1 DEF LooksRight, Whole, Content
  <2> QED BY <1>4, <2>2, <2>3 DEF OpenOK, Closed, Say
<1> QED BY <1>2, <1>3, <1>4 DEF EndFile

\* A tile is removed.
LEMMA EraseIs ==
  ASSUME LooksRight, OpenOK, NEW t, Erase(t)
  PROVE  LooksRight' /\ OpenOK' /\ open' = open /\ \E a : toMac' = Append(toMac, a) /\ a.type = "ok"
<1>1. files' = Without(files, {t} \ Stale) /\ UNCHANGED <<open, torn>> /\ Say([type |-> "ok"]) BY DEF Erase
<1>2. ASSUME NEW u \in DOMAIN files' PROVE u \in DOMAIN files \ ({t} \ Stale) /\ files'[u] = files[u]
  <2>1. u \in DOMAIN Without(files, {t} \ Stale) /\ files'[u] = Without(files, {t} \ Stale)[u] BY <1>1, <1>2
  <2>2. u \in DOMAIN files \ ({t} \ Stale) /\ Without(files, {t} \ Stale)[u] = files[u] BY <2>1, LeftAlone
  <2> QED BY <2>1, <2>2
<1>3. LooksRight' BY <1>1, <1>2 DEF LooksRight, Whole, Content, IsOpen
<1> QED BY <1>1, <1>3 DEF OpenOK, Say

-----------------------------------------------------------------------------
(* The board takes a line *)

AnswerTo(a, l) ==
  /\ l.cmd = "stat" => a.type = "stat"
  /\ l.cmd = "ls" => a.type = "list"
  /\ l.cmd \in {"begin", "data"} => a.type \in {"ack", "err"}
  /\ l.cmd = "end" => a.type = "err" \/ (a.type = "ok" /\ IsOpen /\ open.tile \in stored')
  /\ l.cmd = "rm" => a.type = "ok"

LEMMA HostIs ==
  ASSUME TileInv, HostLine
  PROVE  /\ LooksRight' /\ OpenOK'
         /\ IF toBoard[1].cmd = "begin" THEN open'.tile \in {NoTile, toBoard[1].tile} ELSE open'.tile \in {NoTile, open.tile}
         /\ \/ toMac' = toMac /\ toBoard[1].cmd = "end"
            \/ \E a : toMac' = Append(toMac, a) /\ AnswerTo(a, toBoard[1])
<1> DEFINE l == toBoard[1]
<1>1. toBoard # <<>> /\ Head(toBoard) = l /\ 1 \in DOMAIN toBoard BY LineTaken DEF HostLine, TileInv, SerialOK
<1>2. l.cmd \in {"stat", "ls", "begin", "data", "end", "rm"} /\ (l.cmd = "begin" => l.tile \in Tile) BY <1>1 DEF TileInv, SerialOK
<1>3. LooksRight /\ OpenOK BY DEF TileInv
<1>4. l.cmd = "end" /\ IsOpen => l.crc = Content(open.tile) BY <1>1 DEF TileInv, EndRight
<1> HIDE DEF l
<1>5. CASE l.cmd = "stat"
  <2>1. Stat BY <1>1, <1>5 DEF HostLine
  <2> QED BY <2>1, <1>3, <1>5 DEF Stat, Say, LooksRight, Whole, Content, IsOpen, OpenOK, AnswerTo, l
<1>6. CASE l.cmd = "ls"
  <2>1. List BY <1>1, <1>6 DEF HostLine
  <2> QED BY <2>1, <1>3, <1>6 DEF List, Say, LooksRight, Whole, Content, IsOpen, OpenOK, AnswerTo, l
<1>7. CASE l.cmd = "begin"
  <2>1. Begin(l.tile, l.size) BY <1>1, <1>7 DEF HostLine
  <2>2. LooksRight' /\ OpenOK' /\ open'.tile \in {NoTile, l.tile} /\ \E a : toMac' = Append(toMac, a) /\ a.type \in {"err", "ack"}
    BY <2>1, <1>2, <1>3, <1>7, BeginIs
  <2> QED BY <2>2, <1>7 DEF AnswerTo, l
<1>8. CASE l.cmd = "data"
  <2>1. Data(l.q, l.chunk) BY <1>1, <1>8 DEF HostLine
  <2>2. LooksRight' /\ OpenOK' /\ open'.tile \in {NoTile, open.tile} /\ \E a : toMac' = Append(toMac, a) /\ a.type \in {"err", "ack"}
    BY <2>1, <1>3, DataIs
  <2> QED BY <2>2, <1>8 DEF AnswerTo, l
<1>9. CASE l.cmd = "end"
  <2>1. EndFile(l.crc) BY <1>1, <1>9 DEF HostLine
  <2>2. /\ LooksRight' /\ OpenOK' /\ open'.tile = NoTile
        /\ \/ toMac' = toMac
           \/ \E a : toMac' = Append(toMac, a) /\ (a.type = "err" \/ (a.type = "ok" /\ IsOpen /\ open.tile \in stored'))
    BY <2>1, <1>3, <1>4, <1>9, EndIs
  <2> QED BY <2>2, <1>9 DEF AnswerTo, l
<1>10. CASE l.cmd = "rm"
  <2>1. Erase(l.tile) BY <1>1, <1>10 DEF HostLine
  <2>2. LooksRight' /\ OpenOK' /\ open' = open /\ \E a : toMac' = Append(toMac, a) /\ a.type = "ok"
    BY <2>1, <1>3, EraseIs
  <2> QED BY <2>2, <1>10 DEF AnswerTo, l
<1> QED BY <1>2, <1>5, <1>6, <1>7, <1>8, <1>9, <1>10

\* The lines, when the board has taken one.
LEMMA HostLines ==
  ASSUME TileInv, HostLine
  PROVE  /\ SerialOK' /\ UNCHANGED mac
         /\ Len(toBoard) \in Nat \ {0} /\ Len(toMac) \in Nat
         /\ DOMAIN toBoard = 1 .. Len(toBoard) /\ DOMAIN toMac = 1 .. Len(toMac)
         /\ Len(toBoard') = Len(toBoard) - 1 /\ DOMAIN toBoard' = 1 .. Len(toBoard) - 1
         /\ \A i \in DOMAIN toBoard' : toBoard'[i] = toBoard[i + 1] /\ i + 1 \in DOMAIN toBoard
         /\ \/ toMac' = toMac /\ toBoard[1].cmd = "end"
            \/ /\ Len(toMac') = Len(toMac) + 1 /\ DOMAIN toMac' = 1 .. Len(toMac) + 1
               /\ \A i \in DOMAIN toMac : toMac'[i] = toMac[i]
               /\ AnswerTo(toMac'[Len(toMac) + 1], toBoard[1])
<1>1. SerialOK BY DEF TileInv
<1>2. toBoard # <<>> /\ toBoard' = Tail(toBoard) /\ UNCHANGED mac BY DEF HostLine
<1>3. /\ toBoard' \in Seq(Elems(toBoard')) /\ Len(toBoard) \in Nat \ {0} /\ Len(toBoard') = Len(toBoard) - 1
      /\ DOMAIN toBoard' = 1 .. Len(toBoard) - 1 /\ DOMAIN toBoard = 1 .. Len(toBoard)
      /\ \A i \in DOMAIN toBoard' : toBoard'[i] = toBoard[i + 1] /\ i + 1 \in DOMAIN toBoard
  BY <1>1, <1>2, LineTaken DEF SerialOK
<1>4. CASE toMac' = toMac /\ toBoard[1].cmd = "end"
  <2>1. toMac' \in Seq(Elems(toMac')) BY <1>1, <1>4 DEF SerialOK
  <2>2. SerialOK' BY <1>1, <1>3, <2>1 DEF SerialOK
  <2> QED BY <2>2, <1>1, <1>2, <1>3, <1>4, OfElems DEF SerialOK
<1>5. ASSUME NEW a, toMac' = Append(toMac, a), AnswerTo(a, toBoard[1])
      PROVE  /\ toMac' \in Seq(Elems(toMac')) /\ Len(toMac') = Len(toMac) + 1 /\ DOMAIN toMac' = 1 .. Len(toMac) + 1
             /\ Len(toMac) \in Nat /\ DOMAIN toMac = 1 .. Len(toMac)
             /\ \A i \in DOMAIN toMac : toMac'[i] = toMac[i]
             /\ AnswerTo(toMac'[Len(toMac) + 1], toBoard[1])
  BY <1>1, <1>5, LineAppended DEF SerialOK
<1>6. CASE \E a : toMac' = Append(toMac, a) /\ AnswerTo(a, toBoard[1])
  <2>1. SerialOK' BY <1>1, <1>3, <1>5, <1>6 DEF SerialOK
  <2> QED BY <2>1, <1>2, <1>3, <1>5, <1>6
<1> QED BY <1>4, <1>6, HostIs

LEMMA HostPreserves == TileInv /\ HostLine => TileInv'
<1> SUFFICES ASSUME TileInv, HostLine PROVE TileInv' OBVIOUS
<1> DEFINE l == toBoard[1]  b == Len(toBoard)  m == Len(toMac)
<1>1. LooksRight' /\ OpenOK'
      /\ IF l.cmd = "begin" THEN open'.tile \in {NoTile, l.tile} ELSE open'.tile \in {NoTile, open.tile}
  BY HostIs
<1>2. /\ SerialOK' /\ mac' = mac /\ b \in Nat \ {0} /\ m \in Nat
      /\ DOMAIN toBoard = 1 .. b /\ DOMAIN toMac = 1 .. m
      /\ Len(toBoard') = b - 1 /\ DOMAIN toBoard' = 1 .. b - 1
      /\ \A i \in DOMAIN toBoard' : toBoard'[i] = toBoard[i + 1] /\ i + 1 \in DOMAIN toBoard
      /\ \/ toMac' = toMac /\ l.cmd = "end"
         \/ /\ Len(toMac') = m + 1 /\ DOMAIN toMac' = 1 .. m + 1 /\ \A i \in DOMAIN toMac : toMac'[i] = toMac[i]
            /\ AnswerTo(toMac'[m + 1], l)
  BY HostLines
<1>3. MacOK' BY <1>2 DEF TileInv, MacOK
<1>4. toBoard # <<>> /\ 1 \in DOMAIN toBoard /\ l.cmd \in {"stat", "ls", "begin", "data", "end", "rm"}
  BY <1>2 DEF TileInv, SerialOK, HostLine
<1>5. \A i \in DOMAIN toBoard' : toBoard'[i].cmd \in {"stat", "ls"} BY <1>2 DEF TileInv, EndRight, Asks
<1>6. EndRight'
  <2>1. toBoard' # <<>> => 1 \in DOMAIN toBoard' BY <1>2 DEF SerialOK
  <2> QED BY <2>1, <1>5 DEF EndRight, Asks
<1> HIDE DEF l, b, m
<1>7. Outstanding = b + m /\ Outstanding' <= b + m
  BY <1>2 DEF Outstanding, b, m
<1>8. AskedStat'
  <2> SUFFICES ASSUME mac.state = "awaitStat"
               PROVE  /\ Outstanding' <= 2
                      /\ Len(toMac') = 2 => toMac'[2].type = "stat"
                      /\ Outstanding' = 2 /\ toBoard' # <<>> => toBoard'[Len(toBoard')].cmd = "stat"
    BY <1>2 DEF AskedStat
  <2>1. b + m <= 2 /\ (m = 2 => toMac[2].type = "stat") /\ (b + m = 2 => toBoard[b].cmd = "stat")
    BY <1>2, <1>4, <1>7 DEF TileInv, InStep, AskedStat, Outstanding, b, m
  <2>2. CASE toMac' = toMac
    BY <2>1, <2>2, <1>2, <1>7 DEF Outstanding
  <2>3. CASE /\ Len(toMac') = m + 1 /\ DOMAIN toMac' = 1 .. m + 1 /\ (\A i \in DOMAIN toMac : toMac'[i] = toMac[i])
             /\ AnswerTo(toMac'[m + 1], l)
    <3>1. m + 1 = 2 => b = 1 /\ l.cmd = "stat" BY <2>1, <1>2 DEF l
    <3>2. Len(toMac') = 2 => toMac'[2].type = "stat" BY <3>1, <2>3 DEF AnswerTo
    <3>3. Outstanding' = 2 /\ toBoard' # <<>> => toBoard'[Len(toBoard')].cmd = "stat"
      <4> SUFFICES ASSUME toBoard' # <<>>, Outstanding' = 2 PROVE toBoard'[Len(toBoard')].cmd = "stat" OBVIOUS
      <4>1. b = 2 /\ m = 0 BY <2>1, <1>2 DEF SerialOK
      <4> QED BY <4>1, <2>1, <1>2
    <3> QED BY <3>2, <3>3, <2>1, <1>7, <1>2 DEF Outstanding
  <2> QED BY <2>2, <2>3, <1>2
<1>9. AskedList'
  <2> SUFFICES ASSUME mac.state = "awaitList"
               PROVE  /\ \A i \in DOMAIN toBoard' : Asks(i)' /\ (toBoard'[i].cmd = "ls" => i = Len(toBoard'))
                      /\ \A i \in DOMAIN toMac' : toMac'[i].type \in {"stat", "list"} /\ (toMac'[i].type = "list" => i = Len(toMac') /\ toBoard' = <<>>)
    BY <1>2 DEF AskedList
  <2>1. /\ \A i \in 1 .. b : toBoard[i].cmd \in {"stat", "ls"} /\ (toBoard[i].cmd = "ls" => i = b)
        /\ \A i \in 1 .. m : toMac[i].type = "stat"
    BY <1>2, <1>4 DEF TileInv, InStep, AskedList, Asks, b, m
  <2>2. \A i \in DOMAIN toBoard' : Asks(i)' /\ (toBoard'[i].cmd = "ls" => i = Len(toBoard'))
    BY <2>1, <1>2 DEF Asks
  <2>3. Len(toMac') = m + 1 /\ DOMAIN toMac' = 1 .. m + 1 /\ (\A i \in DOMAIN toMac : toMac'[i] = toMac[i]) /\ AnswerTo(toMac'[m + 1], l)
    BY <2>1, <1>2 DEF l
  <2>4. l.cmd = "ls" => toBoard' = <<>>
    <3>1. l.cmd = "ls" => Len(toBoard') = 0 BY <2>1, <1>2 DEF l
    <3> QED BY <3>1, <1>2 DEF SerialOK
  <2>5. toMac'[m + 1].type \in {"stat", "list"} /\ (toMac'[m + 1].type = "list" => toBoard' = <<>>)
    BY <2>1, <2>3, <2>4, <1>2 DEF AnswerTo, l
  <2> QED BY <2>1, <2>2, <2>3, <2>5, <1>2
<1>10. AskedNothing'
  BY <1>2, <1>7 DEF TileInv, InStep, AskedNothing, Outstanding, b, m
<1>11. AskedAck'
  <2> SUFFICES ASSUME mac.state = "awaitAck"
               PROVE  /\ Outstanding' <= 1 /\ toBoard' = <<>>
                      /\ IsOpen' => open'.tile = mac.cur
    BY <1>2 DEF AskedAck
  <2>1. b = 1 /\ m = 0 /\ Outstanding' <= 1
    BY <1>2, <1>7 DEF TileInv, InStep, AskedAck
  <2>2. l.cmd \in {"begin", "data"} /\ (l.cmd = "begin" => l.tile = mac.cur)
    BY <1>4 DEF TileInv, InStep, AskedAck, l
  <2>3. l.cmd # "begin" => (IsOpen => open.tile = mac.cur)
    BY <1>2, <2>1, <1>7 DEF TileInv, InStep, AskedAck, l
  <2>4. toBoard' = <<>> BY <2>1, <1>2 DEF SerialOK
  <2> QED BY <2>1, <2>2, <2>3, <2>4, <1>1 DEF IsOpen
<1>12. AskedOk'
  <2> SUFFICES ASSUME mac.state = "awaitOk"
               PROVE  /\ Outstanding' <= 1 /\ toBoard' = <<>>
                      /\ \A i \in DOMAIN toMac' : toMac'[i].type = "ok" => mac.cur \in stored'
    BY <1>2 DEF AskedOk
  <2>1. b = 1 /\ m = 0 /\ Outstanding' <= 1
    BY <1>2, <1>7 DEF TileInv, InStep, AskedOk
  <2>2. l.cmd = "end" /\ (IsOpen => open.tile = mac.cur)
    BY <1>4 DEF TileInv, InStep, AskedOk, l
  <2>3. toBoard' = <<>> BY <2>1, <1>2 DEF SerialOK
  <2>4. \A i \in DOMAIN toMac' : i = m + 1 /\ AnswerTo(toMac'[m + 1], l)
    BY <2>1, <1>2
  <2> QED BY <2>1, <2>2, <2>3, <2>4 DEF AnswerTo
<1> QED BY <1>1, <1>2, <1>3, <1>6, <1>8, <1>9, <1>10, <1>11, <1>12 DEF TileInv, InStep

-----------------------------------------------------------------------------
(* The job, and what goes wrong *)

\* Steps that write files only.
LEMMA FilesOnly ==
  ASSUME TileInv, LooksRight', UNCHANGED <<open, toBoard, toMac, mac, stored>>
  PROVE  TileInv'
<1>1. SerialOK' /\ MacOK' /\ OpenOK' BY DEF TileInv, SerialOK, MacOK, OpenOK
<1>2. EndRight' BY DEF TileInv, EndRight, Asks, IsOpen, Content
<1>3. AskedStat' /\ AskedList' /\ AskedNothing' BY DEF TileInv, InStep, AskedStat, AskedList, AskedNothing, Outstanding, Asks
<1>4. AskedAck' /\ AskedOk' BY DEF TileInv, InStep, AskedAck, AskedOk, Outstanding, IsOpen, Content
<1> QED BY <1>1, <1>2, <1>3, <1>4 DEF TileInv, InStep

LEMMA FilesKept ==
  ASSUME TileInv, UNCHANGED <<files, open, torn, toBoard, toMac, mac, stored>>
  PROVE  TileInv'
<1>1. LooksRight' BY DEF TileInv, LooksRight, Whole, Content, IsOpen
<1> QED BY <1>1, FilesOnly

LEMMA JobPreserves ==
  TileInv /\ (Quiet \/ JobStart \/ Cancel \/ JobPlan \/ JobEvict \/ JobWalk \/ JobFetch \/ JobRename) => TileInv'
<1>1. CASE TileInv /\ (Quiet \/ JobStart \/ Cancel \/ JobPlan \/ JobWalk \/ JobFetch)
  <2>1. UNCHANGED <<files, open, torn, toBoard, toMac, mac, stored>>
    BY <1>1 DEF Quiet, JobStart, Cancel, JobPlan, JobWalk, JobFetch, jobOnly
  <2> QED BY <1>1, <2>1, FilesKept
<1>2. CASE TileInv /\ JobEvict
  <2>1. PICK gone : files' = Without(files, gone) BY <1>2 DEF JobEvict
  <2>2. UNCHANGED <<open, torn, toBoard, toMac, mac, stored>> BY <1>2 DEF JobEvict, jobOnly
  <2>3. ASSUME NEW u \in DOMAIN files' PROVE u \in DOMAIN files /\ files'[u] = files[u]
    <3>1. u \in DOMAIN Without(files, gone) /\ files'[u] = Without(files, gone)[u] BY <2>1, <2>3
    <3>2. u \in DOMAIN files \ gone /\ Without(files, gone)[u] = files[u] BY <3>1, LeftAlone
    <3> QED BY <3>1, <3>2
  <2>4. LooksRight' BY <1>2, <2>2, <2>3 DEF TileInv, LooksRight, Whole, Content, IsOpen
  <2> QED BY <1>2, <2>2, <2>4, FilesOnly
<1>3. CASE TileInv /\ JobRename
  <2>1. UNCHANGED <<open, toBoard, toMac, mac, stored>> BY <1>3 DEF JobRename
  <2>2. CASE UNCHANGED <<files, torn>> BY <1>3, <2>1, <2>2, FilesKept
  <2>3. CASE files' = With(files, job.next, Content(job.next)) /\ torn' = torn \ {job.next}
    <3> DEFINE t == job.next
    <3>1. ASSUME NEW u \in DOMAIN files', u # t PROVE u \in DOMAIN files /\ files'[u] = files[u]
      <4>1. u \in DOMAIN With(files, t, Content(t)) /\ files'[u] = With(files, t, Content(t))[u] BY <2>3, <3>1
      <4>2. u \in DOMAIN files /\ With(files, t, Content(t))[u] = files[u]
        <5>1. u # t BY <3>1
        <5>2. u \in DOMAIN With(files, t, Content(t)) BY <4>1
        <5> HIDE DEF t
        <5> QED BY <5>1, <5>2, PutIn
      <4> QED BY <4>1, <4>2
    <3>2. files'[t] = Content(t) BY <2>3 DEF With
    <3> HIDE DEF t
    <3>3. torn' = torn \ {t} BY <2>3 DEF t
    <3>4. LooksRight' BY <1>3, <2>1, <3>1, <3>2, <3>3 DEF TileInv, LooksRight, Whole, Content, IsOpen
    <3> QED BY <1>3, <2>1, <3>4, FilesOnly
  <2> QED BY <1>3, <2>2, <2>3 DEF JobRename
<1> QED BY <1>1, <1>2, <1>3

LEMMA PowerPreserves == TileInv /\ CutPower => TileInv'
<1> SUFFICES ASSUME TileInv, CutPower PROVE TileInv' OBVIOUS
<1>1. open' = Closed /\ toBoard' = <<>> /\ toMac' = <<>> /\ UNCHANGED <<mac, stored>> BY DEF CutPower
<1>2. SerialOK' BY <1>1 DEF SerialOK, Elems
<1>3. MacOK' /\ OpenOK' BY <1>1 DEF TileInv, MacOK, OpenOK, Closed
<1>4. Outstanding' = 0 BY <1>1 DEF Outstanding
<1>5. EndRight' BY <1>1 DEF EndRight
<1>6. InStep' BY <1>1, <1>4 DEF TileInv, InStep, AskedStat, AskedList, AskedNothing, AskedAck, AskedOk
<1>7. LooksRight'
  <2>1. DOMAIN files' = DOMAIN files /\ \A t \in DOMAIN files : t \notin Stale => files'[t] = files[t]
    BY DEF CutPower, Stale
  <2>2. torn' = torn \union (Stale \intersect {t \in DOMAIN files' : files'[t] # Content(t)}) BY DEF CutPower
  <2> QED BY <2>1, <2>2 DEF TileInv, LooksRight, Whole, Content, Stale
<1> QED BY <1>2, <1>3, <1>5, <1>6, <1>7 DEF TileInv

\* An answer that is lost, or that the Mac ignores.
LEMMA AnswerGone ==
  ASSUME TileInv, toMac # <<>>, toMac' = Tail(toMac), UNCHANGED <<toBoard, files, open, mac, torn, stored>>
  PROVE  TileInv'
<1>1. toMac # <<>> /\ toMac' = Tail(toMac) /\ UNCHANGED toBoard OBVIOUS
<1>2. UNCHANGED <<files, open, mac, torn, stored>> OBVIOUS
<1>3. SerialOK /\ toBoard \in Seq(Elems(toBoard)) /\ toMac \in Seq(Elems(toMac)) BY DEF TileInv, SerialOK
<1>4. LooksRight' /\ MacOK' /\ OpenOK' BY <1>2 DEF TileInv, LooksRight, Whole, Content, IsOpen, MacOK, OpenOK
<1> DEFINE b == Len(toBoard)  m == Len(toMac)
<1>5. b \in Nat /\ m \in Nat /\ DOMAIN toBoard = 1 .. b /\ DOMAIN toMac = 1 .. m BY <1>3, OfElems
<1>6. /\ toMac' \in Seq(Elems(toMac')) /\ m \in Nat \ {0} /\ Len(toMac') = m - 1 /\ DOMAIN toMac' = 1 .. m - 1
      /\ \A i \in DOMAIN toMac' : toMac'[i] = toMac[i + 1] /\ i + 1 \in DOMAIN toMac
  BY <1>3, <1>1, LineTaken
<1>7. SerialOK' BY <1>3, <1>1, <1>6 DEF SerialOK
<1>8. EndRight' BY <1>2, <1>1 DEF TileInv, EndRight, Asks, IsOpen, Content
<1>9. Outstanding' = Outstanding - 1 /\ Outstanding = b + m /\ Len(toBoard') = b BY <1>6, <1>1, <1>5 DEF Outstanding
<1> HIDE DEF b, m
<1>10. AskedStat'
  <2> SUFFICES ASSUME mac.state = "awaitStat" PROVE Outstanding' <= 2 /\ Outstanding' # 2 /\ Len(toMac') # 2
    BY <1>2 DEF AskedStat
  <2>1. b + m <= 2 BY <1>9 DEF TileInv, InStep, AskedStat
  <2>2. Len(toMac') # 2
    <3>1. m - 1 # 2 BY <2>1, <1>6, <1>5
    <3> QED BY <3>1, <1>6
  <2>3. Outstanding' <= 2 /\ Outstanding' # 2
    <3>1. Outstanding' = (b + m) - 1 BY <1>9
    <3> QED BY <3>1, <2>1, <1>6, <1>5
  <2> QED BY <2>2, <2>3
<1>11. AskedList'
  <2>1. CASE mac.state = "awaitList"
    <3>1. \A i \in 1 .. m : toMac[i].type \in {"stat", "list"} /\ (toMac[i].type = "list" => i = m /\ toBoard = <<>>)
      BY <1>5, <2>1 DEF TileInv, InStep, AskedList, m
    <3>2. \A i \in DOMAIN toMac' : toMac'[i].type \in {"stat", "list"} /\ (toMac'[i].type = "list" => i = Len(toMac') /\ toBoard' = <<>>)
      BY <3>1, <1>6, <1>1, <1>5
    <3> QED BY <1>2, <1>1, <2>1, <3>2 DEF TileInv, InStep, AskedList, Asks
  <2>2. CASE mac.state # "awaitList" BY <1>2, <2>2 DEF AskedList
  <2> QED BY <2>1, <2>2
<1>12. AskedNothing' BY <1>2, <1>5, <1>6, <1>9 DEF TileInv, InStep, AskedNothing
<1>13. AskedAck' /\ AskedOk'
  <2>1. CASE Outstanding <= 1
    <3>1. m = 1 /\ b = 0 BY <2>1, <1>6, <1>5, <1>9
    <3>2. DOMAIN toBoard' = {} /\ DOMAIN toMac' = {} /\ Outstanding' = 0 BY <3>1, <1>1, <1>6, <1>9, <1>5
    <3> QED BY <3>2 DEF AskedAck, AskedOk
  <2>2. CASE ~(Outstanding <= 1) BY <2>2, <1>2 DEF TileInv, InStep, AskedAck, AskedOk
  <2> QED BY <2>1, <2>2
<1> QED BY <1>4, <1>7, <1>8, <1>10, <1>11, <1>12, <1>13 DEF TileInv, InStep

LEMMA LosePreserves == TileInv /\ LoseTileLine => TileInv'
<1> SUFFICES ASSUME TileInv, LoseTileLine PROVE TileInv' OBVIOUS
<1>1. UNCHANGED <<files, open, mac, torn, stored>> BY DEF LoseTileLine, tileBoard
<1>2. SerialOK /\ toBoard \in Seq(Elems(toBoard)) /\ toMac \in Seq(Elems(toMac)) BY DEF TileInv, SerialOK
<1>3. LooksRight' /\ MacOK' /\ OpenOK' BY <1>1 DEF TileInv, LooksRight, Whole, Content, IsOpen, MacOK, OpenOK
<1> DEFINE b == Len(toBoard)  m == Len(toMac)
<1>4. b \in Nat /\ m \in Nat /\ DOMAIN toBoard = 1 .. b /\ DOMAIN toMac = 1 .. m BY <1>2, OfElems
<1>5. CASE toBoard # <<>> /\ toBoard' = Tail(toBoard) /\ UNCHANGED toMac
  <2>1. /\ toBoard' \in Seq(Elems(toBoard')) /\ b \in Nat \ {0} /\ Len(toBoard') = b - 1 /\ DOMAIN toBoard' = 1 .. b - 1
        /\ \A i \in DOMAIN toBoard' : toBoard'[i] = toBoard[i + 1] /\ i + 1 \in DOMAIN toBoard
    BY <1>2, <1>5, LineTaken
  <2>2. toMac' = toMac /\ toMac' \in Seq(Elems(toMac')) BY <1>2, <1>5
  <2>3. SerialOK' BY <1>2, <2>1, <2>2 DEF SerialOK
  <2>4. \A i \in DOMAIN toBoard' : Asks(i)' BY <1>4, <2>1 DEF TileInv, EndRight, Asks
  <2>5. EndRight'
    <3>1. toBoard' # <<>> => 1 \in DOMAIN toBoard' BY <2>1
    <3> QED BY <3>1, <2>4 DEF EndRight, Asks
  <2>6. Outstanding' = Outstanding - 1 /\ Outstanding = b + m BY <2>1, <2>2, <1>4 DEF Outstanding
  <2> HIDE DEF b, m
  <2>7. AskedStat'
    <3>1. Outstanding <= 2 => Outstanding' # 2 BY <2>6, <1>4
    <3> QED BY <1>1, <1>4, <2>1, <2>2, <2>6, <3>1 DEF TileInv, InStep, AskedStat
  <2>8. AskedList'
    <3>1. CASE mac.state = "awaitList"
      <4>1. /\ \A i \in 1 .. b : toBoard[i].cmd = "ls" => i = b
            /\ \A i \in DOMAIN toMac : toMac[i].type = "stat"
        BY <1>4, <1>5, <3>1 DEF TileInv, InStep, AskedList, b
      <4>2. \A i \in DOMAIN toMac : toMac[i].type = "stat" BY <4>1
      <4> QED BY <1>1, <1>4, <2>1, <2>2, <2>4, <4>1, <4>2 DEF AskedList, Asks
    <3>2. CASE mac.state # "awaitList" BY <1>1, <3>2 DEF AskedList
    <3> QED BY <3>1, <3>2
  <2>9. AskedNothing' BY <1>1, <1>4, <2>1, <2>6 DEF TileInv, InStep, AskedNothing
  <2>10. AskedAck' /\ AskedOk'
    <3>1. CASE Outstanding <= 1
      <4>1. b = 1 /\ m = 0 BY <3>1, <2>1, <1>4, <2>6
      <4>2. DOMAIN toBoard' = {} /\ DOMAIN toMac' = {} /\ Outstanding' = 0 BY <4>1, <2>1, <2>2, <2>6, <1>4
      <4> QED BY <4>2 DEF AskedAck, AskedOk
    <3>2. CASE ~(Outstanding <= 1) BY <3>2, <1>1 DEF TileInv, InStep, AskedAck, AskedOk
    <3> QED BY <3>1, <3>2
  <2> QED BY <1>3, <2>3, <2>5, <2>7, <2>8, <2>9, <2>10 DEF TileInv, InStep
<1>6. CASE toMac # <<>> /\ toMac' = Tail(toMac) /\ UNCHANGED toBoard
  BY <1>1, <1>6, AnswerGone
<1>7. CASE /\ toBoard # <<>> /\ Head(toBoard).cmd = "data" /\ UNCHANGED toMac
           /\ toBoard' = <<[cmd |-> "data", q |-> Head(toBoard).q, chunk |-> Garbled]>> \o Tail(toBoard)
  <2> DEFINE e == [cmd |-> "data", q |-> Head(toBoard).q, chunk |-> Garbled]  s == <<e>> \o Tail(toBoard)
  <2>1. /\ toBoard' \in Seq(Elems(toBoard')) /\ Len(toBoard') = b /\ DOMAIN toBoard' = 1 .. b
        /\ toBoard'[1] = e /\ \A i \in DOMAIN toBoard : i # 1 => toBoard'[i] = toBoard[i]
    <3>1. toBoard' = s BY <1>7
    <3> HIDE DEF e
    <3>2. s \in Seq(Elems(s)) /\ Len(s) = Len(toBoard) /\ DOMAIN s = DOMAIN toBoard /\ s[1] = e /\ \A i \in DOMAIN toBoard : i # 1 => s[i] = toBoard[i]
      BY <1>2, <1>7, LineReplaced
    <3> HIDE DEF s
    <3> QED BY <3>1, <3>2, <1>4
  <2>2. 1 \in DOMAIN toBoard /\ toBoard[1].cmd = "data" BY <1>2, <1>7, LineTaken
  <2>3. \A i \in DOMAIN toBoard : toBoard'[i].cmd = toBoard[i].cmd /\ (toBoard[i].cmd # "data" => toBoard'[i] = toBoard[i])
    BY <2>1, <2>2
  <2> HIDE DEF e, b, m
  <2>4. SerialOK' BY <1>2, <1>4, <1>7, <2>1, <2>3 DEF SerialOK
  <2>5. EndRight' BY <1>4, <2>1, <2>2, <2>3 DEF TileInv, EndRight, Asks
  <2>6. Outstanding' = Outstanding BY <1>7, <2>1 DEF Outstanding, b
  <2>7. AskedStat' /\ AskedNothing'
    BY <1>1, <1>4, <1>7, <2>1, <2>2, <2>3, <2>6 DEF TileInv, InStep, AskedStat, AskedNothing, b, SerialOK
  <2>8. AskedList' BY <1>1, <2>2 DEF TileInv, InStep, AskedList, Asks
  <2>9. AskedAck'
    BY <1>1, <1>4, <2>1, <2>2, <2>3, <2>6 DEF TileInv, InStep, AskedAck, IsOpen
  <2>10. AskedOk' BY <1>1, <2>2 DEF TileInv, InStep, AskedOk
  <2> QED BY <1>3, <2>4, <2>5, <2>7, <2>8, <2>9, <2>10 DEF TileInv, InStep
<1> QED BY <1>5, <1>6, <1>7 DEF LoseTileLine

-----------------------------------------------------------------------------
(* The Mac *)

\* What the Mac works with at a step.
WorksWith(m) == DOMAIN m = MacFields /\ m.planned = FALSE /\ m.plan \subseteq Tile /\ m.send \subseteq Tile

\* Nothing that the steps of the Mac leave alone changes.
BoardKept == UNCHANGED <<files, open, torn, stored>>

LEMMA BoardIsKept ==
  ASSUME TileInv, BoardKept
  PROVE  LooksRight' /\ OpenOK' /\ \A c : (IsOpen <=> IsOpen') /\ open'.tile = open.tile
BY DEF BoardKept, TileInv, LooksRight, Whole, Content, OpenOK, IsOpen

\* With nothing out, one line is sent, or none.
LEMMA OneSent ==
  ASSUME toBoard = <<>>, toMac' = <<>>, NEW line, toBoard' = <<line>>,
         line.cmd \in {"stat", "ls", "begin", "data", "end", "rm"}, line.cmd = "begin" => line.tile \in Tile
  PROVE  SerialOK' /\ Outstanding' = 1 /\ DOMAIN toBoard' = {1} /\ toBoard'[1] = line /\ DOMAIN toMac' = {}
<1>1. toBoard' \in Seq({line}) /\ Len(toBoard') = 1 /\ DOMAIN toBoard' = {1} /\ toBoard'[1] = line OBVIOUS
<1>2. toMac' \in Seq(Elems(toMac')) /\ Len(toMac') = 0 /\ DOMAIN toMac' = {} BY DEF Elems
<1>3. toBoard' \in Seq(Elems(toBoard')) BY <1>1, OfElems
<1> QED BY <1>1, <1>2, <1>3 DEF SerialOK, Outstanding

LEMMA NoneSent ==
  ASSUME toBoard' = <<>>, toMac' = <<>>
  PROVE  SerialOK' /\ Outstanding' = 0 /\ EndRight' /\ DOMAIN toBoard' = {} /\ DOMAIN toMac' = {}
BY DEF SerialOK, Outstanding, Elems, EndRight

\* On to the next file, and to the next to delete.
LEMMA FileNext ==
  ASSUME TileInv, BoardKept, toBoard = <<>>, toMac' = <<>>, NEW m, WorksWith(m), NextFile(m)
  PROVE  TileInv' /\ mac'.sent = m.sent
<1> DEFINE t == LeastOf(m.send)
<1>1. LooksRight' /\ OpenOK' BY BoardIsKept
<1>2. CASE UNCHANGED toBoard /\ \E w : mac' = [MacIdle EXCEPT !.plan = m.plan, !.known = m.known, !.sent = m.sent, !.done = w]
  <2>1. mac'.state = "idle" /\ mac'.planned = FALSE /\ MacOK' /\ mac'.sent = m.sent
    BY <1>2 DEF MacIdle, MacOK, MacFields, MacStates, WorksWith
  <2>2. SerialOK' /\ EndRight' BY <1>2, NoneSent
  <2>3. InStep' BY <2>1 DEF InStep, AskedStat, AskedList, AskedNothing, AskedAck, AskedOk
  <2> QED BY <1>1, <2>1, <2>2, <2>3 DEF TileInv
<1>3. CASE /\ m.send # {} /\ AskBoard([cmd |-> "begin", tile |-> t, size |-> Chunks[t]])
           /\ \E left : mac' = [m EXCEPT !.state = "awaitAck", !.send = @ \ {t}, !.cur = t, !.seq = 0, !.free = left]
  <2>1. m.send \subseteq Nat BY TileAssumption DEF WorksWith, Tile
  <2>2. t \in m.send BY <2>1, <1>3, LeastIn
  <2>3. t \in Tile BY <2>2 DEF WorksWith
  <2> DEFINE l == [cmd |-> "begin", tile |-> t, size |-> Chunks[t]]
  <2>4. toBoard' = <<l>> /\ l.cmd = "begin" /\ l.tile = t BY <1>3 DEF AskBoard
  <2> HIDE DEF t
  <2>5. MacOK' /\ mac'.state = "awaitAck" /\ mac'.planned = FALSE /\ mac'.cur = t /\ mac'.sent = m.sent
    BY <1>3 DEF MacOK, MacFields, MacStates, WorksWith
  <2> HIDE DEF l
  <2>6. SerialOK' /\ Outstanding' = 1 /\ DOMAIN toBoard' = {1} /\ toBoard'[1] = l /\ DOMAIN toMac' = {}
    BY <2>3, <2>4, OneSent
  <2>7. EndRight' BY <2>4, <2>6 DEF EndRight
  <2>8. AskedAck' BY <2>4, <2>5, <2>6 DEF AskedAck
  <2>9. InStep' BY <2>5, <2>8 DEF InStep, AskedStat, AskedList, AskedNothing, AskedOk
  <2> QED BY <1>1, <2>5, <2>6, <2>7, <2>9 DEF TileInv
<1> QED BY <1>2, <1>3 DEF NextFile

LEMMA DeleteNext ==
  ASSUME TileInv, BoardKept, toBoard = <<>>, toMac' = <<>>, NEW m, WorksWith(m), NextDelete(m)
  PROVE  TileInv' /\ mac'.sent = m.sent
<1> DEFINE t == MostOf(m.delete)
<1>1. LooksRight' /\ OpenOK' BY BoardIsKept
<1>2. CASE NextFile(m) BY <1>2, FileNext
<1>3. CASE mac' = [m EXCEPT !.state = "deleting", !.delete = @ \ {t}] /\ AskBoard([cmd |-> "rm", tile |-> t])
  <2> DEFINE l == [cmd |-> "rm", tile |-> t]
  <2>1. toBoard' = <<l>> /\ l.cmd = "rm" BY <1>3 DEF AskBoard
  <2> HIDE DEF t
  <2>2. MacOK' /\ mac'.state = "deleting" /\ mac'.planned = FALSE /\ mac'.sent = m.sent
    BY <1>3 DEF MacOK, MacFields, MacStates, WorksWith
  <2> HIDE DEF l
  <2>3. SerialOK' /\ Outstanding' = 1 /\ DOMAIN toBoard' = {1} /\ toBoard'[1] = l BY <2>1, OneSent
  <2>4. EndRight' BY <2>1, <2>3 DEF EndRight
  <2>5. InStep' BY <2>2, <2>3 DEF InStep, AskedStat, AskedList, AskedNothing, AskedAck, AskedOk
  <2> QED BY <1>1, <2>2, <2>3, <2>4, <2>5 DEF TileInv
<1> QED BY <1>2, <1>3 DEF NextDelete

\* An ack: on to the next chunk, or the end.
LEMMA ChunkNext ==
  ASSUME TileInv, BoardKept, toBoard = <<>>, toMac' = <<>>, mac.state = "awaitAck", IsOpen => open.tile = mac.cur, NextChunk(mac)
  PROVE  TileInv' /\ mac'.sent = mac.sent
<1>1. LooksRight' /\ OpenOK' BY BoardIsKept
<1>2. MacOK /\ mac.planned = FALSE BY DEF TileInv, MacOK, InStep, AskedNothing
<1>3. IsOpen' => open'.tile = mac.cur BY DEF BoardKept, IsOpen
<1>4. CASE mac' = [mac EXCEPT !.state = "awaitOk"] /\ AskBoard([cmd |-> "end", crc |-> Content(mac.cur)])
  <2> DEFINE l == [cmd |-> "end", crc |-> Content(mac.cur)]
  <2>1. toBoard' = <<l>> /\ l.cmd = "end" /\ l.crc = Content(mac.cur) BY <1>4 DEF AskBoard
  <2>2. MacOK' /\ mac'.state = "awaitOk" /\ mac'.planned = FALSE /\ mac'.sent = mac.sent /\ mac'.cur = mac.cur
    BY <1>2, <1>4 DEF MacOK, MacFields, MacStates
  <2> HIDE DEF l
  <2>3. SerialOK' /\ Outstanding' = 1 /\ DOMAIN toBoard' = {1} /\ toBoard'[1] = l /\ DOMAIN toMac' = {} BY <2>1, OneSent
  <2>4. l.crc = Content(mac.cur)' BY <2>1, <2>2 DEF Content
  <2>5. EndRight' BY <1>3, <2>1, <2>3 DEF EndRight, Content
  <2>6. AskedOk' BY <1>3, <2>1, <2>2, <2>3, <2>4 DEF AskedOk
  <2>7. InStep' BY <2>2, <2>6 DEF InStep, AskedStat, AskedList, AskedNothing, AskedAck
  <2> QED BY <1>1, <2>2, <2>3, <2>5, <2>7 DEF TileInv
<1>5. CASE mac' = [mac EXCEPT !.seq = @ + 1] /\ AskBoard([cmd |-> "data", q |-> mac.seq + 1, chunk |-> <<mac.cur, mac.seq + 1>>])
  <2> DEFINE l == [cmd |-> "data", q |-> mac.seq + 1, chunk |-> <<mac.cur, mac.seq + 1>>]
  <2>1. toBoard' = <<l>> /\ l.cmd = "data" BY <1>5 DEF AskBoard
  <2>2. MacOK' /\ mac'.state = "awaitAck" /\ mac'.planned = FALSE /\ mac'.sent = mac.sent /\ mac'.cur = mac.cur
    BY <1>2, <1>5 DEF MacOK, MacFields, MacStates
  <2> HIDE DEF l
  <2>3. SerialOK' /\ Outstanding' = 1 /\ DOMAIN toBoard' = {1} /\ toBoard'[1] = l /\ DOMAIN toMac' = {} BY <2>1, OneSent
  <2>4. EndRight' BY <2>1, <2>3 DEF EndRight
  <2>5. AskedAck' BY <1>3, <2>1, <2>2, <2>3 DEF AskedAck
  <2>6. InStep' BY <2>2, <2>5 DEF InStep, AskedStat, AskedList, AskedNothing, AskedOk
  <2> QED BY <1>1, <2>2, <2>3, <2>4, <2>6 DEF TileInv
<1> QED BY <1>4, <1>5 DEF NextChunk

LEMMA MacPlanPreserves == ASSUME Timely PROVE TileInv /\ MacPlan => TileInv'
<1> SUFFICES ASSUME TileInv, MacPlan PROVE TileInv' OBVIOUS
<1> DEFINE l == [cmd |-> "stat"]  b == Len(toBoard)  m == Len(toMac)
<1>1. BoardKept /\ toMac' = toMac /\ toBoard' = Append(toBoard, l) /\ b + m <= 1 BY DEF MacPlan, macOnly, tileBoard, BoardKept, AskBoard
<1>2. SerialOK BY DEF TileInv
<1>3. /\ toBoard' \in Seq(Elems(toBoard')) /\ b \in Nat /\ Len(toBoard') = b + 1 /\ DOMAIN toBoard' = 1 .. b + 1 /\ DOMAIN toBoard = 1 .. b
      /\ (\A i \in DOMAIN toBoard : toBoard'[i] = toBoard[i]) /\ toBoard'[b + 1] = l
  BY <1>1, <1>2, LineAppended DEF SerialOK
<1>4. l.cmd = "stat" OBVIOUS
<1>5. m \in Nat /\ toMac' \in Seq(Elems(toMac')) BY <1>1, <1>2, OfElems DEF SerialOK
<1> HIDE DEF l, b, m
<1>6. SerialOK' BY <1>2, <1>3, <1>4, <1>5 DEF SerialOK
<1>7. LooksRight' /\ OpenOK' BY <1>1, BoardIsKept
<1>8. MacOK' /\ mac'.state = "awaitStat" /\ mac'.planned = FALSE BY DEF MacPlan, MacOK, MacIdle, MacFields, MacStates
<1>9. EndRight'
  <2>1. \A i \in DOMAIN toBoard' : ~Asks(i)' => i \in DOMAIN toBoard /\ ~Asks(i) BY <1>3, <1>4 DEF Asks
  <2>2. toBoard'[1].cmd = "end" => toBoard # <<>> /\ toBoard'[1] = toBoard[1]
    <3>1. toBoard = <<>> => b = 0 BY DEF b
    <3>2. b = 0 => toBoard'[1] = l BY <1>3
    <3>3. b # 0 => 1 \in DOMAIN toBoard BY <1>3
    <3>4. b = 0 => toBoard'[1].cmd # "end" BY <3>2, <1>4
    <3>5. b # 0 => toBoard'[1] = toBoard[1] BY <1>3, <3>3
    <3> QED BY <3>1, <3>4, <3>5
  <2> QED BY <1>1, <2>1, <2>2 DEF TileInv, EndRight, BoardKept, IsOpen, Content
<1>10. Outstanding' = b + m + 1 BY <1>1, <1>3, <1>5 DEF Outstanding, m
<1>11. AskedStat'
  <2>1. b + m <= 1 BY <1>1 DEF b, m
  <2>2. Outstanding' <= 2 BY <2>1, <1>3, <1>5, <1>10
  <2>3. Len(toMac') # 2
    <3>1. m # 2 BY <2>1, <1>3, <1>5
    <3> QED BY <3>1, <1>1 DEF m
  <2>4. toBoard'[Len(toBoard')].cmd = "stat" BY <1>3, <1>4
  <2> QED BY <2>2, <2>3, <2>4 DEF AskedStat
<1>12. InStep' BY <1>8, <1>11 DEF InStep, AskedList, AskedNothing, AskedAck, AskedOk
<1> QED BY <1>6, <1>7, <1>8, <1>9, <1>12 DEF TileInv

\* fs_stat is answered, or was lost: the board is asked for its list.
LEMMA ListNext ==
  ASSUME TileInv, BoardKept, mac.state = "awaitStat", NEW m, WorksWith(m), ListDevice(m),
         \/ toMac # <<>> /\ toMac' = Tail(toMac) /\ toMac[1].type = "stat"
         \/ toBoard = <<>> /\ toMac = <<>> /\ toMac' = <<>>
  PROVE  TileInv' /\ mac'.sent = m.sent
<1> DEFINE l == [cmd |-> "ls"]  b == Len(toBoard)  k == Len(toMac)
<1>1. toBoard' = Append(toBoard, l) /\ l.cmd = "ls" BY DEF ListDevice, AskBoard
<1>2. SerialOK /\ k \in Nat /\ DOMAIN toMac = 1 .. k BY OfElems DEF TileInv, SerialOK
<1>3. /\ toBoard' \in Seq(Elems(toBoard')) /\ b \in Nat /\ Len(toBoard') = b + 1 /\ DOMAIN toBoard' = 1 .. b + 1 /\ DOMAIN toBoard = 1 .. b
      /\ (\A i \in DOMAIN toBoard : toBoard'[i] = toBoard[i]) /\ toBoard'[b + 1] = l
  BY <1>1, <1>2, LineAppended DEF SerialOK
<1>4. /\ b + k <= 2 /\ (k = 2 => toMac[2].type = "stat") /\ (b + k = 2 /\ b # 0 => toBoard[b].cmd = "stat")
  <2>1. b # 0 => toBoard # <<>> OBVIOUS
  <2> QED BY <2>1 DEF TileInv, InStep, AskedStat, Outstanding
<1>5. toMac' \in Seq(Elems(toMac')) /\ \A i \in DOMAIN toMac' : i = Len(toMac') /\ toMac'[i].type = "stat"
  <2>1. CASE toMac # <<>> /\ toMac' = Tail(toMac)
    <3>1. /\ toMac' \in Seq(Elems(toMac')) /\ k \in Nat \ {0} /\ Len(toMac') = k - 1 /\ DOMAIN toMac' = 1 .. k - 1
          /\ \A i \in DOMAIN toMac' : toMac'[i] = toMac[i + 1]
      BY <1>2, <2>1, LineTaken DEF SerialOK
    <3> HIDE DEF b, k
    <3> QED BY <3>1, <1>3, <1>4
  <2>2. CASE toMac' = <<>> BY <2>2 DEF Elems
  <2> QED BY <2>1, <2>2
<1>6. \A i \in DOMAIN toBoard : toBoard[i].cmd = "stat"
  <2>1. CASE toMac # <<>>
    <3>1. k # 0 BY <2>1, <1>2, LineTaken DEF SerialOK
    <3> HIDE DEF b, k
    <3> QED BY <3>1, <1>2, <1>3, <1>4
  <2>2. CASE toBoard = <<>> BY <2>2
  <2> QED BY <2>1, <2>2
<1> HIDE DEF l, b, k
<1>7. \A i \in DOMAIN toBoard' : toBoard'[i].cmd \in {"stat", "ls"} /\ (toBoard'[i].cmd = "ls" => i = Len(toBoard'))
  BY <1>1, <1>3, <1>6
<1>8. SerialOK' BY <1>3, <1>5, <1>7 DEF SerialOK
<1>9. LooksRight' /\ OpenOK' BY BoardIsKept
<1>10. MacOK' /\ mac'.state = "awaitList" /\ mac'.planned = FALSE /\ mac'.sent = m.sent
  BY DEF ListDevice, WorksWith, MacOK, MacFields, MacStates
<1>11. EndRight'
  <2>1. toBoard' # <<>> => 1 \in DOMAIN toBoard' BY <1>3
  <2> QED BY <2>1, <1>7 DEF EndRight, Asks
<1>12. AskedList' BY <1>5, <1>7 DEF AskedList, Asks
<1>13. InStep' BY <1>10, <1>12 DEF InStep, AskedStat, AskedNothing, AskedAck, AskedOk
<1> QED BY <1>8, <1>9, <1>10, <1>11, <1>13 DEF TileInv

\* The sync ends: what is out stays out.
LEMMA SyncOver ==
  ASSUME TileInv, BoardKept, mac' = Failed(mac), UNCHANGED toBoard, SerialOK'
  PROVE  TileInv' /\ mac'.sent = {}
<1>1. LooksRight' /\ OpenOK' BY BoardIsKept
<1>2. MacOK' /\ mac'.state = "idle" /\ mac'.planned = FALSE /\ mac'.sent = {} BY DEF Failed, MacIdle, MacOK, MacFields, MacStates
<1>3. EndRight' BY DEF TileInv, BoardKept, EndRight, Asks, IsOpen, Content
<1>4. InStep' BY <1>2 DEF InStep, AskedStat, AskedList, AskedNothing, AskedAck, AskedOk
<1> QED BY <1>1, <1>2, <1>3, <1>4 DEF TileInv

LEMMA MacTimeoutPreserves == ASSUME Timely PROVE TileInv /\ MacTimeout => TileInv' /\ mac'.sent \ mac.sent \subseteq stored
<1> SUFFICES ASSUME TileInv, MacTimeout PROVE TileInv' /\ mac'.sent \ mac.sent \subseteq stored OBVIOUS
<1>1. BoardKept /\ toMac' = toMac BY DEF MacTimeout, macOnly, tileBoard, BoardKept
<1>2. CASE mac.state = "awaitStat" /\ toBoard = <<>> /\ toMac = <<>> /\ ListDevice(mac)
  <2>1. WorksWith(mac) BY <1>2 DEF TileInv, MacOK, InStep, AskedNothing, WorksWith
  <2> QED BY <1>1, <1>2, <2>1, ListNext
<1>3. CASE mac' = Failed(mac) /\ UNCHANGED toBoard
  <2>1. SerialOK' BY <1>1, <1>3 DEF TileInv, SerialOK
  <2> QED BY <1>1, <1>3, <2>1, SyncOver
<1> QED BY <1>2, <1>3 DEF MacTimeout

LEMMA MacSendPreserves == TileInv /\ MacSend => TileInv' /\ mac'.sent \ mac.sent \subseteq stored
<1> SUFFICES ASSUME TileInv, MacSend PROVE TileInv' /\ mac'.sent \ mac.sent \subseteq stored OBVIOUS
<1>1. BoardKept /\ toMac' = toMac BY DEF MacSend, macOnly, tileBoard, BoardKept
<1>2. toBoard = <<>> /\ toMac = <<>>
  <2>1. Len(toBoard) + Len(toMac) = 0 BY DEF MacSend, TileInv, InStep, AskedNothing, Outstanding
  <2>2. toBoard \in Seq(Elems(toBoard)) /\ toMac \in Seq(Elems(toMac)) BY DEF TileInv, SerialOK
  <2>3. Len(toBoard) \in Nat /\ Len(toMac) \in Nat BY <2>2
  <2>4. Len(toBoard) = 0 /\ Len(toMac) = 0 BY <2>1, <2>3
  <2> QED BY <2>2, <2>4
<1> DEFINE p == [mac EXCEPT !.planned = FALSE]
<1>3. DOMAIN p = MacFields /\ p.planned = FALSE /\ p.plan = mac.plan /\ p.send = mac.send /\ p.sent = mac.sent
  BY DEF TileInv, MacOK, MacFields
<1>4. PICK cached, readable : \/ mac' = Failed(mac) /\ UNCHANGED toBoard
                             \/ NextDelete(Queued(p, cached, readable))
  BY DEF MacSend
<1> HIDE DEF p
<1>5. CASE mac' = Failed(mac) /\ UNCHANGED toBoard
  <2>1. SerialOK' BY <1>1, <1>5 DEF TileInv, SerialOK
  <2> QED BY <1>1, <1>5, <2>1, SyncOver
<1>6. CASE NextDelete(Queued(p, cached, readable))
  <2> DEFINE m == Queued(p, cached, readable)
  <2>1. DOMAIN m = MacFields /\ m.planned = FALSE /\ m.plan = p.plan /\ m.send \subseteq p.plan /\ m.sent = p.sent
    BY <1>3 DEF Queued, MacFields, Wanted
  <2>2. NextDelete(m) BY <1>6
  <2> HIDE DEF m
  <2>3. WorksWith(m) BY <1>3, <2>1 DEF TileInv, MacOK, WorksWith
  <2> QED BY <1>1, <1>2, <1>3, <2>1, <2>2, <2>3, DeleteNext
<1> QED BY <1>4, <1>5, <1>6

LEMMA MacHandlePreserves == TileInv /\ MacHandle => TileInv' /\ mac'.sent \ mac.sent \subseteq stored
<1> SUFFICES ASSUME TileInv, MacHandle PROVE TileInv' /\ mac'.sent \ mac.sent \subseteq stored OBVIOUS
<1> DEFINE line == Head(toMac)  b == Len(toBoard)  k == Len(toMac)
<1>1. BoardKept /\ toMac' = Tail(toMac) /\ toMac # <<>> BY DEF MacHandle, macOnly, tileBoard, BoardKept
<1>2. SerialOK BY DEF TileInv
<1>3. /\ toMac' \in Seq(Elems(toMac')) /\ line = toMac[1] /\ k \in Nat \ {0} /\ Len(toMac') = k - 1 /\ DOMAIN toMac = 1 .. k
  BY <1>1, <1>2, LineTaken DEF SerialOK
<1>4. b \in Nat /\ DOMAIN toBoard = 1 .. b /\ toBoard \in Seq(Elems(toBoard)) BY <1>2, OfElems DEF SerialOK
<1>5. mac.state # "idle" => WorksWith(mac) BY DEF TileInv, MacOK, InStep, AskedNothing, WorksWith
<1>6. Outstanding = b + k BY DEF Outstanding
<1> HIDE DEF line, b, k
<1>7. Outstanding <= 1 => toBoard = <<>> /\ toMac' = <<>>
  <2> SUFFICES ASSUME Outstanding <= 1 PROVE toBoard = <<>> /\ toMac' = <<>> OBVIOUS
  <2>1. b = 0 /\ k - 1 = 0 BY <1>3, <1>4, <1>6
  <2> QED BY <2>1, <1>3, <1>4 DEF b
<1>8. CASE line.type = "stat" /\ mac.state = "awaitStat" /\ ListDevice([mac EXCEPT !.known = TRUE, !.free = line.free])
  <2> DEFINE m == [mac EXCEPT !.known = TRUE, !.free = line.free]
  <2>1. WorksWith(m) /\ m.sent = mac.sent BY <1>5, <1>8 DEF WorksWith, MacFields
  <2> HIDE DEF m
  <2>2. ListDevice(m) BY <1>8 DEF m
  <2> QED BY <1>1, <1>3, <1>8, <2>1, <2>2, ListNext
<1>9. CASE line.type = "list" /\ mac.state = "awaitList" /\ MakePlan(mac, line.disk) /\ UNCHANGED toBoard
  <2>1. k = 1 /\ toBoard = <<>> BY <1>3, <1>9 DEF TileInv, InStep, AskedList, k
  <2>2. Len(toMac') = 0 /\ toBoard' = <<>> BY <1>3, <1>9, <2>1
  <2>3. toMac' = <<>> BY <2>2, <1>3
  <2>4. SerialOK' /\ Outstanding' = 0 /\ EndRight' BY <2>2, <2>3, NoneSent
  <2>5. MacOK' /\ mac'.state = "idle" /\ mac'.sent = mac.sent
    <3>1. PICK plan : plan \subseteq Tile /\ mac' = [mac EXCEPT !.state = "idle", !.planned = TRUE, !.plan = plan, !.disk = line.disk]
      BY <1>9, PlanIs, FirstIs DEF MakePlan
    <3> QED BY <3>1 DEF TileInv, MacOK, MacFields, MacStates
  <2>6. InStep' BY <2>4, <2>5 DEF InStep, AskedStat, AskedList, AskedNothing, AskedAck, AskedOk
  <2>7. LooksRight' /\ OpenOK' BY <1>1, BoardIsKept
  <2> QED BY <2>4, <2>5, <2>6, <2>7 DEF TileInv
<1>10. CASE line.type = "ack" /\ mac.state = "awaitAck" /\ NextChunk(mac)
  <2>1. Outstanding <= 1 BY <1>10 DEF TileInv, InStep, AskedAck
  <2>2. toBoard = <<>> /\ Outstanding # 0 BY <2>1, <1>7, <1>3, <1>4, <1>6
  <2>3. IsOpen => open.tile = mac.cur BY <1>10, <2>2 DEF TileInv, InStep, AskedAck
  <2> QED BY <1>1, <1>7, <1>10, <2>1, <2>3, ChunkNext
<1>11. CASE line.type = "ok" /\ mac.state = "deleting" /\ NextDelete(mac)
  <2>1. Outstanding <= 1 BY <1>11 DEF TileInv, InStep, AskedNothing
  <2> QED BY <1>1, <1>5, <1>7, <1>11, <2>1, DeleteNext
<1>12. CASE line.type = "ok" /\ mac.state = "awaitOk" /\ NextFile(Sent(mac))
  <2>1. Outstanding <= 1 BY <1>12 DEF TileInv, InStep, AskedOk
  <2>2. mac.cur \in stored BY <1>3, <1>12 DEF TileInv, InStep, AskedOk
  <2> DEFINE m == Sent(mac)
  <2>3. WorksWith(m) /\ m.sent = mac.sent \union {mac.cur} BY <1>5, <1>12 DEF WorksWith, MacFields, Sent
  <2> HIDE DEF m
  <2>4. NextFile(m) BY <1>12 DEF m
  <2> QED BY <1>1, <1>7, <2>1, <2>2, <2>3, <2>4, FileNext
<1>13. CASE mac' = Failed(mac) /\ UNCHANGED toBoard
  <2>1. SerialOK' BY <1>2, <1>3, <1>13 DEF SerialOK
  <2> QED BY <1>1, <1>13, <2>1, SyncOver
<1>14. CASE UNCHANGED <<mac, toBoard>>
  BY <1>1, <1>14, AnswerGone DEF BoardKept
<1> QED BY <1>8, <1>9, <1>10, <1>11, <1>12, <1>13, <1>14 DEF MacHandle, line

-----------------------------------------------------------------------------
LEMMA TileStep ==
  ASSUME Timely
  PROVE  TileInv /\ [TileNext]_tileVars => TileInv' /\ mac'.sent \ mac.sent \subseteq stored
<1> SUFFICES ASSUME TileInv, [TileNext]_tileVars PROVE TileInv' /\ mac'.sent \ mac.sent \subseteq stored OBVIOUS
<1>1. CASE HostLine BY <1>1, HostPreserves DEF HostLine
<1>2. CASE Quiet \/ JobStart \/ Cancel \/ JobPlan \/ JobEvict \/ JobWalk \/ JobFetch \/ JobRename
  <2>1. mac' = mac BY <1>2 DEF Quiet, JobStart, Cancel, JobPlan, JobEvict, JobWalk, JobFetch, JobRename, jobOnly
  <2> QED BY <1>2, <2>1, JobPreserves
<1>3. CASE CutPower BY <1>3, PowerPreserves DEF CutPower
<1>4. CASE LoseTileLine BY <1>4, LosePreserves DEF LoseTileLine
<1>5. CASE MacPlan
  <2>1. mac'.sent = {} BY <1>5 DEF MacPlan, MacIdle
  <2> QED BY <1>5, <2>1, MacPlanPreserves
<1>6. CASE MacSend BY <1>6, MacSendPreserves
<1>7. CASE MacHandle BY <1>7, MacHandlePreserves
<1>8. CASE MacTimeout BY <1>8, MacTimeoutPreserves
<1>9. CASE UNCHANGED tileVars
  <2>1. UNCHANGED <<files, open, torn, toBoard, toMac, mac, stored>> BY <1>9 DEF tileVars
  <2> QED BY <2>1, FilesKept
<1> QED BY <1>1, <1>2, <1>3, <1>4, <1>5, <1>6, <1>7, <1>8, <1>9 DEF TileNext

\* A board and a Mac that are Timely leave nothing on flash that looks like a
\* tile and is none, whatever becomes of the uploads, and what counts as sent
\* the board has stored whole, under that name.
THEOREM TilesAreWhole == ASSUME Timely PROVE TileSpec => OnlyWholeTiles
<1>1. TileInit => TileInv BY TileInitInv
<1>2. TileInv /\ [TileNext]_tileVars => TileInv' BY TileStep
<1>3. TileInv /\ TileInv' /\ [TileNext]_tileVars => [LooksWhole' /\ mac'.sent \ mac.sent \subseteq stored]_tileVars
  <2>1. TileInv' => LooksWhole' BY DEF TileInv, LooksRight, LooksWhole, Whole, Content, IsOpen
  <2> QED BY <2>1, TileStep
<1> QED BY <1>1, <1>2, <1>3, PTL DEF TileSpec, OnlyWholeTiles

(***************************************************************************)
(* That each writer keeps what it plans (PlanKept), and that the tiles fit  *)
(* the flash (TileTypeOK), of a board and a Mac that are Timely, with the   *)
(* Wi-Fi job beside them, uploads that fail, lines that are lost and power  *)
(* cuts.                                                                    *)
(*                                                                         *)
(* The argument for the Mac is one of room. Until the job writes nothing    *)
(* but an upload takes space, so an answer that is out, or was taken, never *)
(* says more than is free (LinesTrue), and the list and the free space      *)
(* together no more than the flash has (AsListed, MacTrue). While it sends, *)
(* what the Mac takes to be free, with all that the tiles have a claim to   *)
(* (Claims: what stays of a tile, what it lacks while it is sent, nothing   *)
(* of one that is to be deleted), stays within the flash (SyncHolds): that  *)
(* is the invariant a deletion, an upload and a chunk hand on to each       *)
(* other. As the Mac leaves KeepFree, more than the board's margin and what *)
(* an open file may hold twice (ReserveAssumption), the board never evicts  *)
(* for an upload the Mac has asked for, and what it sent stays there.       *)
(*                                                                         *)
(* Of the job: what it passed on its walk is there as long as it fetched    *)
(* all it saw, and what it planned of the list stays but for what uploads   *)
(* take and record (JobTrue); what it evicts is outside its plan.           *)
(***************************************************************************)
-----------------------------------------------------------------------------
(* Sums over tiles *)

LEMMA TilesAre ==
  /\ Len(Chunks) \in Nat /\ Tile = 1 .. Len(Chunks) /\ \A t \in Tile : Chunks[t] \in Nat \ {0}
  /\ NoTile \notin Tile
BY TileAssumption DEF Tile

Part(f, S, t) == IF t \in S THEN f[t] ELSE 0

\* The sums up to each tile.
SumsTo(g, f, S, n) ==
  g \in [0 .. n -> Int] /\ g[0] = 0 /\ \A t \in 1 .. n : g[t] = g[t - 1] + Part(f, S, t)

LEMMA SumsExist ==
  ASSUME NEW f, NEW S, \A t \in Tile : Part(f, S, t) \in Int, NEW n \in 0 .. Len(Chunks)
  PROVE  \E g : SumsTo(g, f, S, n)
<1> DEFINE B == {k \in 0 .. Len(Chunks) : ~\E g : SumsTo(g, f, S, k)}
<1> SUFFICES ASSUME B # {} PROVE FALSE OBVIOUS
<1>1. B \subseteq Nat BY TilesAre
<1>2. PICK k \in B : \A j \in B : <<j, k>> \notin OpToRel(<, Nat)
  BY <1>1, NatLessThanWellFounded, WFMin, Zenon
<1>3. \A j \in B : ~(j < k) BY <1>1, <1>2 DEF OpToRel
<1>a. k \in 0 .. Len(Chunks) /\ ~\E g : SumsTo(g, f, S, k) OBVIOUS
<1>b. \A j \in 0 .. Len(Chunks) : j < k => \E g : SumsTo(g, f, S, j) BY <1>3
<1> HIDE DEF B
<1>4. k # 0
  <2>1. SumsTo([j \in 0 .. 0 |-> 0], f, S, 0) BY DEF SumsTo
  <2> QED BY <1>a, <2>1
<1>5. k \in 1 .. Len(Chunks) /\ k - 1 \in 0 .. Len(Chunks) /\ k - 1 < k /\ k \in Nat /\ k \in Tile BY <1>a, <1>4, TilesAre
<1>7. PICK g : SumsTo(g, f, S, k - 1) BY <1>5, <1>b
<1> DEFINE h == [j \in 0 .. k |-> IF j = k THEN g[k - 1] + Part(f, S, k) ELSE g[j]]
<1>8. g[k - 1] \in Int /\ Part(f, S, k) \in Int BY <1>5, <1>7 DEF SumsTo
<1>9. h \in [0 .. k -> Int]
  <2>1. ASSUME NEW j \in 0 .. k PROVE h[j] \in Int
    <3>1. j # k => j \in 0 .. k - 1 BY <1>5
    <3> QED BY <3>1, <1>7, <1>8 DEF SumsTo
  <2> QED BY <2>1
<1>10. h[0] = 0
  <2>1. 0 \in 0 .. k /\ 0 # k BY <1>5
  <2> QED BY <2>1, <1>7 DEF SumsTo
<1>11. ASSUME NEW t \in 1 .. k PROVE h[t] = h[t - 1] + Part(f, S, t)
  <2>1. t - 1 \in 0 .. k - 1 /\ t - 1 # k /\ t - 1 \in 0 .. k /\ t \in 0 .. k BY <1>5
  <2>2. h[t - 1] = g[t - 1] BY <2>1
  <2>3. CASE t = k BY <2>1, <2>2, <2>3
  <2>4. CASE t # k
    <3>1. t \in 1 .. k - 1 BY <2>4, <1>5
    <3>2. h[t] = g[t] BY <2>1, <2>4
    <3>3. g[t] = g[t - 1] + Part(f, S, t) BY <3>1, <1>7 DEF SumsTo
    <3> QED BY <3>2, <3>3, <2>2
  <2> QED BY <2>3, <2>4
<1> HIDE DEF h
<1>12. SumsTo(h, f, S, k) BY <1>9, <1>10, <1>11 DEF SumsTo
<1> QED BY <1>a, <1>12

LEMMA SumIs ==
  ASSUME NEW f, NEW S, \A t \in Tile : Part(f, S, t) \in Int
  PROVE  \E g : SumsTo(g, f, S, Len(Chunks)) /\ Sum(f, S) = g[Len(Chunks)]
<1>1. Len(Chunks) \in Nat /\ Tile = 1 .. Len(Chunks) BY TilesAre
<1>0. Len(Chunks) \in 0 .. Len(Chunks) BY <1>1
<1>3. PICK g : SumsTo(g, f, S, Len(Chunks)) BY <1>0, SumsExist, Zenon
<1> DEFINE u[t \in 0 .. Len(Chunks)] == IF t = 0 THEN 0 ELSE u[t - 1] + (IF t \in S THEN f[t] ELSE 0)
<1>2. Sum(f, S) = u[Len(Chunks)] BY DEF Sum
<1>4. g = [t \in 0 .. Len(Chunks) |-> IF t = 0 THEN 0 ELSE g[t - 1] + (IF t \in S THEN f[t] ELSE 0)]
  <2>1. g \in [0 .. Len(Chunks) -> Int] /\ g[0] = 0 BY <1>3 DEF SumsTo
  <2>2. ASSUME NEW t \in 0 .. Len(Chunks) PROVE g[t] = IF t = 0 THEN 0 ELSE g[t - 1] + (IF t \in S THEN f[t] ELSE 0)
    <3>1. t # 0 => t \in 1 .. Len(Chunks) BY <1>1
    <3> QED BY <3>1, <1>3, <2>1 DEF SumsTo, Part
  <2> QED BY <2>1, <2>2
<1>5. u = [t \in 0 .. Len(Chunks) |-> IF t = 0 THEN 0 ELSE u[t - 1] + (IF t \in S THEN f[t] ELSE 0)] BY <1>4
<1> HIDE DEF u
<1>7. u[0] = 0 /\ \A t \in 1 .. Len(Chunks) : u[t] = u[t - 1] + Part(f, S, t)
  <2>1. 0 \in 0 .. Len(Chunks) BY <1>1
  <2>2. u[0] = 0 BY <1>5, <2>1
  <2>3. ASSUME NEW t \in 1 .. Len(Chunks) PROVE u[t] = u[t - 1] + Part(f, S, t)
    <3>1. t \in 0 .. Len(Chunks) /\ t # 0 BY <1>1
    <3> QED BY <1>5, <3>1 DEF Part
  <2> QED BY <2>2, <2>3
<1>8. \A t \in 0 .. Len(Chunks) : u[t] \in Int
  <2> DEFINE B == {k \in 0 .. Len(Chunks) : u[k] \notin Int}
  <2> SUFFICES ASSUME B # {} PROVE FALSE OBVIOUS
  <2>1. B \subseteq Nat BY <1>1
  <2>2. PICK k \in B : \A j \in B : <<j, k>> \notin OpToRel(<, Nat)
    BY <2>1, NatLessThanWellFounded, WFMin, Zenon
  <2>3. \A j \in B : ~(j < k) BY <2>1, <2>2 DEF OpToRel
  <2>a. k \in 0 .. Len(Chunks) /\ u[k] \notin Int OBVIOUS
  <2>b. \A j \in 0 .. Len(Chunks) : j < k => u[j] \in Int BY <2>3
  <2> HIDE DEF B
  <2>4. k # 0 BY <1>7, <2>a
  <2>5. k \in 1 .. Len(Chunks) /\ k - 1 \in 0 .. Len(Chunks) /\ k - 1 < k BY <1>1, <2>a, <2>4
  <2>6. u[k - 1] \in Int BY <2>b, <2>5
  <2>7. Part(f, S, k) \in Int BY <1>1, <2>5
  <2>8. u[k] \in Int BY <1>7, <2>5, <2>6, <2>7
  <2> QED BY <2>a, <2>8
<1>9. u \in [0 .. Len(Chunks) -> Int] BY <1>5, <1>8
<1>10. SumsTo(u, f, S, Len(Chunks)) BY <1>7, <1>9 DEF SumsTo
<1> QED BY <1>2, <1>10

\* d for one tile that is among the first k.
Extra(one, d, k) == IF one \in 1 .. k THEN d ELSE 0

\* A sum is no greater than another one that is, tile by tile, but for d at one.
LEMMA SumAtMost ==
  ASSUME NEW f, NEW S, NEW g, NEW T, NEW one, NEW d \in Int, d >= 0 \/ one \in Tile,
         \A t \in Tile : Part(f, S, t) \in Int /\ Part(g, T, t) \in Int,
         \A t \in Tile : Part(f, S, t) <= Part(g, T, t) + (IF t = one THEN d ELSE 0)
  PROVE  Sum(f, S) \in Int /\ Sum(g, T) \in Int /\ Sum(f, S) <= Sum(g, T) + d
<1>1. Len(Chunks) \in Nat /\ Tile = 1 .. Len(Chunks) BY TilesAre
<1>2. PICK a : SumsTo(a, f, S, Len(Chunks)) /\ Sum(f, S) = a[Len(Chunks)] BY SumIs
<1>3. PICK b : SumsTo(b, g, T, Len(Chunks)) /\ Sum(g, T) = b[Len(Chunks)] BY SumIs
<1>4. \A t \in 0 .. Len(Chunks) : a[t] \in Int /\ b[t] \in Int BY <1>2, <1>3 DEF SumsTo
<1>5. a[0] = 0 /\ b[0] = 0 BY <1>2, <1>3 DEF SumsTo
<1> DEFINE B == {k \in 0 .. Len(Chunks) : ~(a[k] <= b[k] + Extra(one, d, k))}
<1>6. B = {}
  <2> SUFFICES ASSUME B # {} PROVE FALSE OBVIOUS
  <2>1. B \subseteq Nat BY <1>1
  <2>2. PICK k \in B : \A j \in B : <<j, k>> \notin OpToRel(<, Nat)
    BY <2>1, NatLessThanWellFounded, WFMin, Zenon
  <2>3. \A j \in B : ~(j < k) BY <2>1, <2>2 DEF OpToRel
  <2>a. k \in 0 .. Len(Chunks) /\ ~(a[k] <= b[k] + Extra(one, d, k)) OBVIOUS
  <2>b. \A j \in 0 .. Len(Chunks) : j < k => a[j] <= b[j] + Extra(one, d, j) BY <2>3
  <2> HIDE DEF B
  <2>4. k # 0
    <3>1. 1 .. 0 = {} OBVIOUS
    <3>2. Extra(one, d, 0) = 0 BY <3>1 DEF Extra
    <3> QED BY <1>5, <2>a, <3>2
  <2>5. k \in 1 .. Len(Chunks) /\ k - 1 \in 0 .. Len(Chunks) /\ k - 1 < k /\ k \in Tile BY <1>1, <2>a, <2>4
  <2>6. a[k - 1] <= b[k - 1] + Extra(one, d, k - 1) BY <2>b, <2>5
  <2>7. a[k] = a[k - 1] + Part(f, S, k) /\ b[k] = b[k - 1] + Part(g, T, k) BY <1>2, <1>3, <2>5 DEF SumsTo
  <2> DEFINE e == IF k = one THEN d ELSE 0
  <2>8. Part(f, S, k) \in Int /\ Part(g, T, k) \in Int /\ Part(f, S, k) <= Part(g, T, k) + e BY <2>5
  <2>9. Extra(one, d, k) = Extra(one, d, k - 1) + e
    <3>1. CASE k = one
      <4>1. one \in 1 .. k /\ one \notin 1 .. k - 1 BY <2>5, <3>1
      <4> QED BY <3>1, <4>1 DEF Extra
    <3>2. CASE k # one
      <4>1. one \in 1 .. k <=> one \in 1 .. k - 1 BY <2>5, <3>2
      <4> QED BY <3>2, <4>1 DEF Extra
    <3> QED BY <3>1, <3>2
  <2>10. Extra(one, d, k - 1) \in Int /\ e \in Int BY DEF Extra
  <2> HIDE DEF e
  <2>c. a[k] \in Int /\ b[k] \in Int /\ a[k - 1] \in Int /\ b[k - 1] \in Int BY <1>4, <2>a, <2>5
  <2>11. a[k] <= b[k] + Extra(one, d, k) BY <2>6, <2>7, <2>8, <2>9, <2>10, <2>c
  <2> QED BY <2>a, <2>11
<1>7. a[Len(Chunks)] <= b[Len(Chunks)] + Extra(one, d, Len(Chunks)) BY <1>1, <1>6
<1>8. Extra(one, d, Len(Chunks)) \in Int /\ Extra(one, d, Len(Chunks)) <= d BY <1>1 DEF Extra
<1> QED BY <1>1, <1>2, <1>3, <1>4, <1>7, <1>8

\* What is summed in parts.
LEMMA SumOfParts ==
  ASSUME NEW f, NEW S, NEW g, NEW T, NEW h, NEW U,
         \A t \in Tile : Part(f, S, t) \in Int /\ Part(g, T, t) \in Int /\ Part(h, U, t) = Part(f, S, t) + Part(g, T, t)
  PROVE  Sum(f, S) \in Int /\ Sum(g, T) \in Int /\ Sum(h, U) = Sum(f, S) + Sum(g, T)
<1>1. Len(Chunks) \in Nat /\ Tile = 1 .. Len(Chunks) BY TilesAre
<1>0. \A t \in Tile : Part(h, U, t) \in Int OBVIOUS
<1>2. PICK a : SumsTo(a, f, S, Len(Chunks)) /\ Sum(f, S) = a[Len(Chunks)] BY SumIs
<1>3. PICK b : SumsTo(b, g, T, Len(Chunks)) /\ Sum(g, T) = b[Len(Chunks)] BY SumIs
<1>9. PICK c : SumsTo(c, h, U, Len(Chunks)) /\ Sum(h, U) = c[Len(Chunks)] BY <1>0, SumIs
<1>4. \A t \in 0 .. Len(Chunks) : a[t] \in Int /\ b[t] \in Int /\ c[t] \in Int BY <1>2, <1>3, <1>9 DEF SumsTo
<1>5. a[0] = 0 /\ b[0] = 0 /\ c[0] = 0 BY <1>2, <1>3, <1>9 DEF SumsTo
<1> DEFINE B == {k \in 0 .. Len(Chunks) : c[k] # a[k] + b[k]}
<1>6. B = {}
  <2> SUFFICES ASSUME B # {} PROVE FALSE OBVIOUS
  <2>1. B \subseteq Nat BY <1>1
  <2>2. PICK k \in B : \A j \in B : <<j, k>> \notin OpToRel(<, Nat)
    BY <2>1, NatLessThanWellFounded, WFMin, Zenon
  <2>3. \A j \in B : ~(j < k) BY <2>1, <2>2 DEF OpToRel
  <2>a. k \in 0 .. Len(Chunks) /\ c[k] # a[k] + b[k] OBVIOUS
  <2>b. \A j \in 0 .. Len(Chunks) : j < k => c[j] = a[j] + b[j] BY <2>3
  <2> HIDE DEF B
  <2>4. k # 0 BY <1>5, <2>a
  <2>5. k \in 1 .. Len(Chunks) /\ k - 1 \in 0 .. Len(Chunks) /\ k - 1 < k /\ k \in Tile BY <1>1, <2>a, <2>4
  <2>6. c[k - 1] = a[k - 1] + b[k - 1] BY <2>b, <2>5
  <2>7. a[k] = a[k - 1] + Part(f, S, k) /\ b[k] = b[k - 1] + Part(g, T, k) /\ c[k] = c[k - 1] + Part(h, U, k)
    BY <1>2, <1>3, <1>9, <2>5 DEF SumsTo
  <2>8. Part(f, S, k) \in Int /\ Part(g, T, k) \in Int /\ Part(h, U, k) = Part(f, S, k) + Part(g, T, k) BY <2>5
  <2>c. a[k - 1] \in Int /\ b[k - 1] \in Int BY <1>4, <2>5
  <2>11. c[k] = a[k] + b[k] BY <2>6, <2>7, <2>8, <2>c
  <2> QED BY <2>a, <2>11
<1>7. c[Len(Chunks)] = a[Len(Chunks)] + b[Len(Chunks)] BY <1>1, <1>6
<1> QED BY <1>1, <1>2, <1>3, <1>4, <1>7, <1>9

-----------------------------------------------------------------------------
(* What files take *)

Had(fs, t) == IF t \in DOMAIN fs THEN Len(fs[t]) ELSE 0
FileSet(fs) == DOMAIN fs \subseteq Tile /\ \A t \in DOMAIN fs : fs[t] \in Seq(Elems(fs[t])) /\ Len(fs[t]) <= Chunks[t]

LEMMA HadIs ==
  ASSUME NEW fs, FileSet(fs)
  PROVE  /\ \A t : Had(fs, t) \in Nat
         /\ \A t \in Tile : Had(fs, t) <= Chunks[t] /\ Part([u \in DOMAIN fs |-> Len(fs[u])], DOMAIN fs, t) = Had(fs, t)
<1>1. ASSUME NEW t \in DOMAIN fs PROVE Len(fs[t]) \in Nat /\ Len(fs[t]) <= Chunks[t] /\ t \in Tile
  <2>1. fs[t] \in Seq(Elems(fs[t])) BY DEF FileSet
  <2> QED BY <2>1 DEF FileSet
<1>2. \A t : Had(fs, t) \in Nat BY <1>1 DEF Had
<1>3. ASSUME NEW t \in Tile PROVE Had(fs, t) <= Chunks[t] BY <1>1, TilesAre DEF Had
<1>4. ASSUME NEW t \in Tile PROVE Part([u \in DOMAIN fs |-> Len(fs[u])], DOMAIN fs, t) = Had(fs, t) BY DEF Had, Part
<1> QED BY <1>2, <1>3, <1>4

LEMMA UsedAtMost ==
  ASSUME NEW fs, NEW gs, FileSet(fs), FileSet(gs), NEW one, NEW d \in Int, d >= 0 \/ one \in Tile,
         \A t \in Tile : Had(fs, t) <= Had(gs, t) + (IF t = one THEN d ELSE 0)
  PROVE  Used(fs) \in Int /\ Used(gs) \in Int /\ Used(fs) <= Used(gs) + d
<1> DEFINE f == [t \in DOMAIN fs |-> Len(fs[t])]  g == [t \in DOMAIN gs |-> Len(gs[t])]  S == DOMAIN fs  T == DOMAIN gs
<1>1. \A t \in Tile : Part(f, S, t) = Had(fs, t) /\ Had(fs, t) \in Nat BY HadIs
<1>2. \A t \in Tile : Part(g, T, t) = Had(gs, t) /\ Had(gs, t) \in Nat BY HadIs
<1>3. Used(fs) = Sum(f, S) /\ Used(gs) = Sum(g, T) BY DEF Used
<1> HIDE DEF f, g, S, T
<1>4. \A t \in Tile : Part(f, S, t) \in Int /\ Part(g, T, t) \in Int BY <1>1, <1>2
<1>5. \A t \in Tile : Part(f, S, t) <= Part(g, T, t) + (IF t = one THEN d ELSE 0) BY <1>1, <1>2
<1>6. Sum(f, S) \in Int /\ Sum(g, T) \in Int /\ Sum(f, S) <= Sum(g, T) + d BY <1>4, <1>5, SumAtMost
<1> QED BY <1>3, <1>6

LEMMA UsedNoMore ==
  ASSUME NEW fs, NEW gs, FileSet(fs), FileSet(gs), \A t \in Tile : Had(fs, t) <= Had(gs, t)
  PROVE  Used(fs) \in Int /\ Used(gs) \in Int /\ Used(fs) <= Used(gs)
<1>1. \A t \in Tile : Had(fs, t) <= Had(gs, t) + (IF t = NoTile THEN 0 ELSE 0) BY HadIs
<1>2. Used(fs) \in Int /\ Used(gs) \in Int /\ Used(fs) <= Used(gs) + 0 BY <1>1, UsedAtMost
<1> QED BY <1>2

LEMMA WithoutIs ==
  ASSUME NEW fs, FileSet(fs), NEW gone
  PROVE  /\ FileSet(Without(fs, gone)) /\ DOMAIN Without(fs, gone) = DOMAIN fs \ gone
         /\ \A t : Had(Without(fs, gone), t) = IF t \in gone THEN 0 ELSE Had(fs, t)
         /\ \A t \in DOMAIN fs \ gone : Without(fs, gone)[t] = fs[t]
BY DEF Without, Restrict, FileSet, Had, Elems

LEMMA WithIs ==
  ASSUME NEW fs, FileSet(fs), NEW t \in Tile, NEW body, body \in Seq(Elems(body)), Len(body) <= Chunks[t]
  PROVE  FileSet(With(fs, t, body))
<1>1. DOMAIN With(fs, t, body) = DOMAIN fs \union {t} BY DEF With
<1>2. \A u \in DOMAIN fs \union {t} : With(fs, t, body)[u] = IF u = t THEN body ELSE fs[u] BY DEF With
<1> QED BY <1>1, <1>2 DEF FileSet

LEMMA WithHas ==
  ASSUME NEW fs, NEW t, NEW body
  PROVE  /\ DOMAIN With(fs, t, body) = DOMAIN fs \union {t} /\ With(fs, t, body)[t] = body
         /\ \A u \in DOMAIN fs : u # t => With(fs, t, body)[u] = fs[u]
BY DEF With

LEMMA WithHad ==
  ASSUME NEW fs, NEW t, NEW body
  PROVE  Had(With(fs, t, body), t) = Len(body) /\ \A u : u # t => Had(With(fs, t, body), u) = Had(fs, u)
BY DEF With, Had

LEMMA ContentIs == \A t \in Tile : Content(t) \in Seq(Elems(Content(t))) /\ Len(Content(t)) = Chunks[t] /\ Chunks[t] \in Nat \ {0}
<1> SUFFICES ASSUME NEW t \in Tile PROVE Content(t) \in Seq(Elems(Content(t))) /\ Len(Content(t)) = Chunks[t] /\ Chunks[t] \in Nat \ {0} OBVIOUS
<1>1. Chunks[t] \in Nat \ {0} BY TilesAre
<1>2. Content(t) \in [1 .. Chunks[t] -> Elems(Content(t))] BY DEF Content, Elems
<1>3. Content(t) \in Seq(Elems(Content(t))) BY <1>1, <1>2
<1> QED BY <1>1, <1>2, <1>3

-----------------------------------------------------------------------------
(* What holds between the steps *)

Total(v) == Sum(v, Tile)
Greater(a, b) == IF a >= b THEN a ELSE b
Size(disk, t) == IF t \in DOMAIN disk THEN disk[t] ELSE 0
Disk(disk) == DOMAIN disk \subseteq Tile /\ \A t \in DOMAIN disk : disk[t] \in 0 .. Chunks[t]

\* What flash holds of a tile, and what will be left of it when the next upload begins.
Holding(t) == Had(files, t) + (IF t = open.tile THEN Len(open.before) ELSE 0)
Stays(t) == IF t \in Stale THEN 0 ELSE Had(files, t)

\* The files fit the flash.
FilesFit ==
  /\ FileSet(files) /\ tmp \in Nat /\ Free >= 0 /\ torn \subseteq Tile
  /\ open.left \in Nat /\ open.before \in Seq(Elems(open.before))
  /\ IsOpen => /\ open.tile \in DOMAIN files /\ Len(files[open.tile]) + open.left = Chunks[open.tile]
               /\ Len(open.before) <= Chunks[open.tile]
  /\ \A i \in DOMAIN toBoard : toBoard[i].cmd = "begin" => toBoard[i].size = Chunks[toBoard[i].tile]
  /\ job.at \in {"fetch", "rename"} => job.next \in Tile
  /\ job.at = "rename" => tmp = Chunks[job.next]

\* What the lines say, while the job writes nothing.
LinesTrue ==
  /\ tmp # 0 => ran
  /\ \A i \in DOMAIN toBoard : ~Asks(i) => toMac = <<>>
  /\ \A i \in DOMAIN toMac : toMac[i].type = "stat" => toMac[i].free \in Int /\ (~ran => toMac[i].free <= Free)
  /\ \A i \in DOMAIN toMac : toMac[i].type = "list" => Disk(toMac[i].disk)
  /\ mac.free \in Int /\ Disk(mac.disk)
  /\ mac.state = "awaitStat" => ~mac.known

\* The list is of what is there, and with the free space it is no more than there is.
TakesUp(disk) == Total([t \in Tile |-> Greater(Size(disk, t), Holding(t))])
AsListed(disk) ==
  /\ DOMAIN disk \subseteq DOMAIN files \union lostTo.mac
  /\ mac.known => mac.free + TakesUp(disk) <= Blocks

HasPlan(others) == mac.plan \subseteq DOMAIN files \union lostTo.mac \union others

MacTrue ==
  /\ ~ran /\ mac.state = "awaitList" =>
       /\ mac.known => mac.free <= Free
       /\ \A i \in DOMAIN toMac : toMac[i].type = "list" => AsListed(toMac[i].disk)
  /\ ~ran /\ mac.planned => AsListed(mac.disk)
  /\ mac.done = "all" => /\ mac.state = "idle" /\ ~mac.planned /\ toBoard = <<>> /\ toMac = <<>>
                         /\ mac.known /\ ~ran => HasPlan({})

\* The room a tile has a claim to, with what stays of it: one that is being
\* sent takes what it lacks besides, one to be sent what is listed of it, one to
\* be deleted none.
ClaimOf(disk, send, gone, sending, begins, stays, t) ==
  IF t \in sending
  THEN IF begins THEN Chunks[t] - Size(disk, t) + Greater(Size(disk, t), stays) ELSE Chunks[t]
  ELSE IF t \in send THEN Greater(Size(disk, t), stays) ELSE IF t \in gone THEN 0 ELSE stays

Working == mac.state \in {"deleting", "awaitAck", "awaitOk"}
Uploading == IF mac.state \in {"awaitAck", "awaitOk"} THEN {mac.cur} ELSE {}
Begins == \E i \in DOMAIN toBoard : toBoard[i].cmd = "begin"
Doomed == mac.delete \union {toBoard[i].tile : i \in {j \in DOMAIN toBoard : toBoard[j].cmd = "rm"}}

Claims == [t \in Tile |-> ClaimOf(mac.disk, mac.send, Doomed, Uploading, Begins, Stays(t), t)]

\* The tiles to be sent lack something.
Lacking(disk, send) == \A t \in send : t \in Tile /\ Size(disk, t) < Chunks[t]

\* Of a sync.
SyncForm ==
  /\ mac.send \subseteq mac.plan /\ mac.delete \subseteq Tile
  /\ ~Working => mac.send = {} /\ mac.delete = {}
  /\ mac.state = "deleting" => \A i \in DOMAIN toBoard : toBoard[i].cmd = "rm"
  /\ mac.state \in {"awaitAck", "awaitOk"} => mac.delete = {}
  /\ Working => Lacking(mac.disk, mac.send \union Uploading)

\* What it counts on is there, and there is room for what it sends.
SyncHolds ==
  /\ mac.free + Total(Claims) <= Blocks
  /\ HasPlan(mac.send \union Uploading)
  /\ Doomed \intersect mac.plan = {}
  /\ mac.state \in {"awaitAck", "awaitOk"} => mac.free >= KeepFree
  /\ \A i \in DOMAIN toMac : toMac[i].type = "ok" => Uploading \subseteq DOMAIN files \union lostTo.mac
SyncTrue == SyncForm /\ (Working /\ mac.known /\ ~ran /\ Outstanding # 0 => SyncHolds)

JobFields == {"at", "disk", "plan", "victims", "next", "fetched", "seen", "fails", "margin", "full", "stop", "cancel", "left"}
HaveThose(T) == T \subseteq DOMAIN files \union lostTo.job
Passed == {t \in job.plan \ DOMAIN job.disk : t < job.next}
JobTrue ==
  /\ DOMAIN job = JobFields /\ DOMAIN lostTo = {"job", "mac"}
  /\ job.plan \subseteq Tile /\ job.victims \subseteq Tile /\ {job.seen, job.fetched, job.next} \subseteq Nat
  /\ job.at = "list" => job.seen = 0 /\ job.fetched = 0 /\ job.next = 1
  /\ job.at = "evict" => job.victims # {} /\ job.victims \intersect job.plan = {}
  /\ job.at \in {"evict", "walk", "fetch", "rename"} => HaveThose(job.plan \intersect DOMAIN job.disk)
  /\ job.at \in {"evict", "walk"} => job.fetched <= job.seen /\ (job.fetched = job.seen => HaveThose(Passed))
  /\ job.at \in {"fetch", "rename"} => job.fetched < job.seen /\ (job.fetched + 1 = job.seen => HaveThose(Passed))
  /\ job.at = "done" /\ job.left = 0 => HaveThose(job.plan)

-----------------------------------------------------------------------------
(* The files fit the flash *)

OpenFits ==
  /\ open.left \in Nat /\ open.before \in Seq(Elems(open.before))
  /\ IsOpen => /\ open.tile \in DOMAIN files /\ Len(files[open.tile]) + open.left = Chunks[open.tile]
               /\ Len(open.before) <= Chunks[open.tile]

LEMMA ClosedFits == open' = Closed => OpenFits' /\ ~IsOpen' /\ Len(open'.before) = 0
BY DEF OpenFits, IsOpen, Closed, Elems

\* What is free, in whole numbers.
LEMMA FreeIs ==
  ASSUME FilesFit
  PROVE  /\ Used(files) \in Int /\ Len(open.before) \in Nat /\ tmp \in Nat /\ Blocks \in Nat
         /\ Free = Blocks - Used(files) - Len(open.before) - tmp
<1>1. \A t \in Tile : Had(files, t) <= Had(files, t) BY HadIs DEF FilesFit
<1>2. Used(files) \in Int BY <1>1, UsedNoMore DEF FilesFit
<1>3. Len(open.before) \in Nat BY DEF FilesFit
<1> QED BY <1>2, <1>3, TileAssumption DEF Free, FilesFit

\* What is free follows from what the files take.
LEMMA Balance ==
  ASSUME NEW n \in Nat, NEW a \in Int, NEW b \in Int, NEW k \in Nat, NEW l \in Nat, NEW p \in Nat, NEW q \in Nat, NEW d \in Int, NEW e \in Int,
         a <= b + d, d + k + p <= l + q + e
  PROVE  n - a - k - p >= (n - b - l - q) - e /\ n - a - k - p \in Int /\ n - b - l - q \in Int
OBVIOUS

LEMMA FreeFrom ==
  ASSUME FilesFit, NEW d \in Int, NEW e \in Int, Used(files') \in Int, Used(files') <= Used(files) + d,
         Len(open'.before) \in Nat, tmp' \in Nat, d + Len(open'.before) + tmp' <= Len(open.before) + tmp + e
  PROVE  Free' >= Free - e /\ Free' \in Int /\ Free \in Int
<1> DEFINE a == Used(files')  b == Used(files)  k == Len(open'.before)  l == Len(open.before)  f == Free'  g == Free
<1>1. f = Blocks - a - k - tmp' BY DEF Free, Used
<1>2. b \in Int /\ l \in Nat /\ tmp \in Nat /\ Blocks \in Nat /\ g = Blocks - b - l - tmp BY FreeIs
<1>3. a \in Int /\ k \in Nat /\ tmp' \in Nat /\ a <= b + d /\ d + k + tmp' <= l + tmp + e OBVIOUS
<1> HIDE DEF a, b, k, l, f, g
<1>5. Blocks - a - k - tmp' >= (Blocks - b - l - tmp) - e /\ Blocks - a - k - tmp' \in Int /\ Blocks - b - l - tmp \in Int
  BY <1>2, <1>3, Balance, Zenon
<1>4. f >= g - e /\ f \in Int /\ g \in Int BY <1>1, <1>2, <1>5
<1> QED BY <1>4 DEF f, g

\* Fewer files take no more.
LEMMA FewerFit ==
  ASSUME FilesFit, FileSet(files'), \A t \in Tile : Had(files', t) <= Had(files, t), Len(open'.before) \in Nat, Len(open'.before) <= Len(open.before), tmp' = tmp
  PROVE  Free' >= Free /\ Free' \in Int
<1>1. FileSet(files) BY DEF FilesFit
<1>2. Used(files') \in Int /\ Used(files) \in Int /\ Used(files') <= Used(files) BY <1>1, UsedNoMore
<1>3. Len(open.before) \in Nat /\ tmp \in Nat BY FreeIs
<1>4. Used(files') <= Used(files) + 0 /\ 0 + Len(open'.before) + tmp' <= Len(open.before) + tmp + 0 BY <1>2, <1>3
<1>6. 0 \in Int /\ tmp' \in Nat BY <1>3
<1>5. Free' >= Free - 0 /\ Free' \in Int /\ Free \in Int BY <1>2, <1>3, <1>4, <1>6, FreeFrom, Zenon
<1> QED BY <1>5

LEMMA DroppedFits ==
  ASSUME FilesFit, Dropped, tmp' = tmp
  PROVE  FileSet(files') /\ OpenFits' /\ ~IsOpen' /\ Free' >= Free
<1> DEFINE rest == Without(files, Stale)
<1>1. files' = rest /\ open' = Closed BY DEF Dropped
<1>2. FileSet(files) BY DEF FilesFit
<1>3. FileSet(rest) /\ \A t : Had(rest, t) = IF t \in Stale THEN 0 ELSE Had(files, t) BY <1>2, WithoutIs
<1> HIDE DEF rest
<1>4. \A t \in Tile : Had(rest, t) <= Had(files, t) BY <1>2, <1>3, HadIs
<1>5. OpenFits' /\ ~IsOpen' /\ Len(open'.before) = 0 BY <1>1, ClosedFits
<1>6. Free' >= Free BY <1>1, <1>3, <1>4, <1>5, FewerFit, FreeIs
<1> QED BY <1>1, <1>3, <1>5, <1>6

LEMMA BeginFits ==
  ASSUME FilesFit, OpenOK, NEW t \in Tile, Begin(t, Chunks[t]), tmp' = tmp
  PROVE  FileSet(files') /\ OpenFits' /\ Free' >= Free /\ torn' \subseteq torn
<1> DEFINE kept == Without(files, Superseded)
<1>1. PICK gone : \E rest :
        /\ rest = Without(kept, gone)
        /\ \/ files' = rest /\ open' = Closed
           \/ /\ files' = With(rest, t, <<>>)
              /\ open' = [tile |-> t, left |-> Chunks[t], before |-> IF t \in DOMAIN rest THEN rest[t] ELSE <<>>]
  BY DEF Begin
<1>2. torn' \subseteq torn BY DEF Begin
<1>3. FileSet(kept) /\ \A u : Had(kept, u) = IF u \in Superseded THEN 0 ELSE Had(files, u) BY WithoutIs DEF FilesFit
<1> HIDE DEF kept
<1> DEFINE rest == Without(kept, gone)
<1>4. FileSet(rest) /\ \A u : Had(rest, u) = IF u \in gone THEN 0 ELSE Had(kept, u) BY <1>3, WithoutIs
<1> HIDE DEF rest
<1>5. \A u \in Tile : Had(rest, u) <= Had(files, u) BY <1>3, <1>4, HadIs DEF FilesFit
<1>6. CASE files' = rest /\ open' = Closed
  <2>1. OpenFits' /\ Len(open'.before) = 0 BY <1>6, ClosedFits
  <2> QED BY <1>2, <1>4, <1>5, <1>6, <2>1, FewerFit, FreeIs
<1>7. CASE /\ files' = With(rest, t, <<>>)
           /\ open' = [tile |-> t, left |-> Chunks[t], before |-> IF t \in DOMAIN rest THEN rest[t] ELSE <<>>]
  <2>0. Chunks[t] \in Nat \ {0} /\ <<>> \in Seq(Elems(<<>>)) /\ Len(<<>>) = 0 /\ Len(<<>>) <= Chunks[t] BY TilesAre DEF Elems
  <2>1. FileSet(files') /\ DOMAIN files' = DOMAIN rest \union {t} /\ Had(files', t) = 0 /\ \A u : u # t => Had(files', u) = Had(rest, u)
    <3>1. files' = With(rest, t, <<>>) BY <1>7
    <3>2. FileSet(With(rest, t, <<>>)) BY <1>4, <2>0, WithIs
    <3>3. DOMAIN With(rest, t, <<>>) = DOMAIN rest \union {t} BY WithHas
    <3>4. Had(With(rest, t, <<>>), t) = Len(<<>>) /\ \A u : u # t => Had(With(rest, t, <<>>), u) = Had(rest, u) BY WithHad
    <3> QED BY <2>0, <3>1, <3>2, <3>3, <3>4
  <2>2. files'[t] = <<>> BY <1>7 DEF With
  <2>3. open'.before \in Seq(Elems(open'.before)) /\ Len(open'.before) = Had(rest, t)
    <3>1. open'.before = IF t \in DOMAIN rest THEN rest[t] ELSE <<>> BY <1>7
    <3>2. CASE t \in DOMAIN rest BY <3>1, <3>2, <1>4 DEF FileSet, Had
    <3>3. CASE t \notin DOMAIN rest
      <4>1. open'.before = <<>> BY <3>1, <3>3
      <4>2. Had(rest, t) = 0 BY <3>3 DEF Had
      <4> QED BY <4>1, <4>2, <2>0
    <3> QED BY <3>2, <3>3
  <2>a. Len(open'.before) <= Chunks[t] BY <2>3, <1>4, HadIs
  <2>4. OpenFits' BY <1>7, <2>0, <2>1, <2>2, <2>3, <2>a DEF OpenFits
  <2>5. Had(rest, t) \in Nat BY <1>4, HadIs
  <2> DEFINE d == -Had(rest, t)
  <2>6. d \in Int BY <2>5
  <2>7. \A u \in Tile : Had(files', u) <= Had(rest, u) + (IF u = t THEN d ELSE 0) BY <2>1, <1>4, HadIs
  <2> HIDE DEF d
  <2>8. Used(files') \in Int /\ Used(rest) \in Int /\ Used(files') <= Used(rest) + d BY <2>1, <2>6, <2>7, <1>4, UsedAtMost
  <2>9. FileSet(files) BY DEF FilesFit
  <2>10. Used(rest) <= Used(files) /\ Used(files) \in Int BY <1>4, <1>5, <2>9, UsedNoMore
  <2>11. Free' >= Free
    <3>1. Len(open.before) \in Nat /\ tmp \in Nat BY FreeIs
    <3>2. Used(files') <= Used(files) + d BY <2>6, <2>8, <2>10
    <3>3. d + Len(open'.before) + tmp' <= Len(open.before) + tmp + 0 BY <2>3, <2>5, <3>1 DEF d
    <3>4. Free' >= Free - 0 /\ Free' \in Int /\ Free \in Int BY <2>3, <2>5, <2>6, <2>8, <3>1, <3>2, <3>3, FreeFrom
    <3> QED BY <3>4
  <2> QED BY <1>2, <2>1, <2>4, <2>11
<1> QED BY <1>1, <1>6, <1>7 DEF rest

LEMMA SameFit ==
  ASSUME FilesFit, UNCHANGED <<files, open, tmp>>
  PROVE  FileSet(files') /\ OpenFits' /\ Free' = Free /\ Free \in Int
<1>1. FileSet(files') /\ OpenFits' BY DEF FilesFit, OpenFits, FileSet, IsOpen
<1>2. Free' = Free BY DEF Free, Used
<1>3. Free \in Int BY FreeIs
<1> QED BY <1>1, <1>2, <1>3

LEMMA DataFits ==
  ASSUME FilesFit, OpenOK, NEW q, NEW chunk, Data(q, chunk), tmp' = tmp
  PROVE  FileSet(files') /\ OpenFits' /\ Free' >= 0
<1>0. Free >= 0 /\ Free \in Int BY FreeIs DEF FilesFit
<1>1. CASE UNCHANGED <<files, open>> BY <1>0, <1>1, SameFit
<1>2. CASE Dropped
  <2>1. FileSet(files') /\ OpenFits' /\ Free' >= Free BY <1>2, DroppedFits
  <2>2. Free' \in Int
    <3>1. open' = Closed BY <1>2 DEF Dropped
    <3>2. Len(open'.before) = 0 BY <3>1, ClosedFits
    <3>3. \A t \in Tile : Had(files', t) <= Had(files', t) BY <2>1, HadIs
    <3>4. Used(files') \in Int BY <2>1, <3>3, UsedNoMore
    <3>5. Free' = Blocks - Used(files') - Len(open'.before) - tmp' BY DEF Free, Used
    <3> QED BY <3>2, <3>4, <3>5, FreeIs
  <2> QED BY <1>0, <2>1, <2>2
<1>3. CASE /\ IsOpen /\ open.left > 0 /\ Free > 0 /\ files' = [files EXCEPT ![open.tile] = Append(@, chunk)]
           /\ open' = [open EXCEPT !.left = @ - 1]
  <2> DEFINE t == open.tile  s == files[t]  n == Append(s, chunk)
  <2>1. /\ FileSet(files) /\ t \in DOMAIN files /\ Len(s) + open.left = Chunks[t] /\ open.left \in Nat
        /\ open.before \in Seq(Elems(open.before)) /\ Len(open.before) <= Chunks[t]
    BY <1>3 DEF FilesFit
  <2>2. t \in Tile /\ s \in Seq(Elems(s)) BY <2>1 DEF FileSet
  <2>3. n \in Seq(Elems(n)) /\ Len(n) = Len(s) + 1 /\ Len(s) \in Nat BY <2>2, LineAppended
  <2>4. open'.tile = t /\ open'.left = open.left - 1 /\ open'.before = open.before BY <1>3 DEF OpenOK
  <2>5. DOMAIN files' = DOMAIN files /\ files'[t] = n /\ \A u \in DOMAIN files : u # t => files'[u] = files[u] BY <1>3, <2>1
  <2>6. open.left \in Nat \ {0} /\ Chunks[t] \in Nat BY <1>3, <2>1, <2>2, TilesAre
  <2> HIDE DEF s, n
  <2>7. Len(n) <= Chunks[t] BY <2>1, <2>3, <2>6 DEF s
  <2>8. FileSet(files') BY <2>1, <2>3, <2>5, <2>7 DEF FileSet
  <2>9. OpenFits'
    <3>1. open'.left \in Nat /\ Len(n) + open'.left = Chunks[t]
      <4>1. Len(s) + open.left = Chunks[t] BY <2>1 DEF s
      <4> QED BY <4>1, <2>3, <2>4, <2>6
    <3>2. t \in DOMAIN files' /\ files'[t] = n BY <2>1, <2>5
    <3>3. Len(files'[open'.tile]) + open'.left = Chunks[open'.tile] BY <2>4, <3>1, <3>2
    <3>4. open'.before \in Seq(Elems(open'.before)) /\ Len(open'.before) <= Chunks[open'.tile] BY <2>1, <2>4
    <3> QED BY <2>4, <3>1, <3>2, <3>3, <3>4 DEF OpenFits
  <2>10. \A u \in Tile : Had(files', u) <= Had(files, u) + (IF u = t THEN 1 ELSE 0)
    <3>1. \A u : Had(files, u) \in Nat BY <2>1, HadIs
    <3>2. Had(files', t) = Had(files, t) + 1 BY <2>1, <2>3, <2>5 DEF Had, s
    <3>3. \A u : u # t => Had(files', u) = Had(files, u) BY <2>5 DEF Had
    <3> QED BY <3>1, <3>2, <3>3
  <2>11. Used(files') \in Int /\ Used(files') <= Used(files) + 1
    <3>1. 1 \in Int /\ 1 >= 0 OBVIOUS
    <3> HIDE DEF t
    <3> QED BY <3>1, <2>1, <2>8, <2>10, UsedAtMost, Zenon
  <2>12. Len(open.before) \in Nat /\ tmp \in Nat BY FreeIs
  <2>13. /\ 1 \in Int /\ Len(open'.before) \in Nat /\ tmp' \in Nat
         /\ 1 + Len(open'.before) + tmp' <= Len(open.before) + tmp + 1
    BY <2>4, <2>12
  <2>14. Free' >= Free - 1 /\ Free' \in Int BY <2>11, <2>13, FreeFrom, Zenon
  <2> QED BY <1>0, <1>3, <2>8, <2>9, <2>14
<1> QED BY <1>1, <1>2, <1>3 DEF Data

LEMMA EndFits ==
  ASSUME FilesFit, NEW crc, EndFile(crc), tmp' = tmp
  PROVE  FileSet(files') /\ OpenFits' /\ Free' >= Free
<1>1. CASE UNCHANGED <<files, open>>
  <2>1. FileSet(files') /\ OpenFits' /\ Free' = Free /\ Free \in Int BY <1>1, SameFit
  <2> QED BY <2>1
<1>2. CASE Dropped BY <1>2, DroppedFits
<1>3. CASE UNCHANGED files /\ open' = Closed
  <2>1. OpenFits' /\ Len(open'.before) = 0 BY <1>3, ClosedFits
  <2>2. FileSet(files') /\ \A t \in Tile : Had(files', t) <= Had(files, t)
    <3>1. FileSet(files) BY DEF FilesFit
    <3>2. \A t \in Tile : Had(files, t) <= Had(files, t) BY <3>1, HadIs
    <3> QED BY <1>3, <3>1, <3>2
  <2> QED BY <2>1, <2>2, FewerFit, FreeIs
<1> QED BY <1>1, <1>2, <1>3 DEF EndFile

\* Removing a tile, for the Mac or for the job.
LEMMA GoneFits ==
  ASSUME FilesFit, NEW gone, Stale \intersect gone = {}, files' = Without(files, gone), UNCHANGED <<open, tmp>>
  PROVE  FileSet(files') /\ OpenFits' /\ Free' >= Free
<1> DEFINE rest == Without(files, gone)
<1>1. FileSet(files) BY DEF FilesFit
<1>2. FileSet(rest) /\ \A t : Had(rest, t) = IF t \in gone THEN 0 ELSE Had(files, t) BY <1>1, WithoutIs
<1>3. DOMAIN rest = DOMAIN files \ gone /\ \A t \in DOMAIN files \ gone : rest[t] = files[t] BY <1>1, WithoutIs
<1> HIDE DEF rest
<1>4. \A t \in Tile : Had(rest, t) <= Had(files, t) BY <1>1, <1>2, HadIs
<1>5. files' = rest BY DEF rest
<1>6. Free' >= Free BY <1>2, <1>4, <1>5, FewerFit, FreeIs
<1>7. OpenFits' BY <1>3, <1>5 DEF FilesFit, OpenFits, IsOpen, Stale
<1> QED BY <1>2, <1>5, <1>6, <1>7

SizesRight == \A i \in DOMAIN toBoard : toBoard[i].cmd = "begin" => toBoard[i].size = Chunks[toBoard[i].tile]
JobFits == (job.at \in {"fetch", "rename"} => job.next \in Tile) /\ (job.at = "rename" => tmp = Chunks[job.next])

LEMMA FreeAfter ==
  ASSUME FileSet(files'), OpenFits', tmp' \in Nat
  PROVE  Free' \in Int
<1>1. \A t \in Tile : Had(files', t) <= Had(files', t) BY HadIs
<1>2. Used(files') \in Int BY <1>1, UsedNoMore
<1>3. Len(open'.before) \in Nat BY DEF OpenFits
<1>4. Free' = Blocks - Used(files') - Len(open'.before) - tmp' BY DEF Free, Used
<1> QED BY <1>2, <1>3, <1>4, TileAssumption

LEMMA FirstLine ==
  ASSUME TileInv, HostLine
  PROVE  /\ 1 \in DOMAIN toBoard /\ Head(toBoard) = toBoard[1]
         /\ toBoard[1].cmd \in {"stat", "ls", "begin", "data", "end", "rm"} /\ (toBoard[1].cmd = "begin" => toBoard[1].tile \in Tile)
<1>1. SerialOK /\ toBoard # <<>> BY DEF TileInv, HostLine
<1>2. 1 \in DOMAIN toBoard /\ Head(toBoard) = toBoard[1] BY <1>1, LineTaken DEF SerialOK
<1> QED BY <1>1, <1>2 DEF SerialOK

LEMMA HostFits ==
  ASSUME TileInv, FilesFit, HostLine
  PROVE  FilesFit' /\ (toBoard[1].cmd # "data" => Free' >= Free)
<1> DEFINE l == toBoard[1]
<1>1. 1 \in DOMAIN toBoard /\ Head(toBoard) = l /\ l.cmd \in {"stat", "ls", "begin", "data", "end", "rm"} /\ (l.cmd = "begin" => l.tile \in Tile)
  BY FirstLine
<1>2. l.cmd = "begin" => l.size = Chunks[l.tile] BY <1>1 DEF FilesFit
<1>3. SizesRight'
  <2>1. \A i \in DOMAIN toBoard' : toBoard'[i] = toBoard[i + 1] /\ i + 1 \in DOMAIN toBoard BY HostLines
  <2> QED BY <2>1 DEF FilesFit, SizesRight
<1>4. JobFits' /\ tmp' \in Nat /\ tmp' = tmp BY DEF FilesFit, JobFits, HostLine
<1>5. OpenOK BY DEF TileInv
<1>6. Free >= 0 /\ Free \in Int /\ torn \subseteq Tile BY FreeIs DEF FilesFit
<1> HIDE DEF l
<1>7. CASE l.cmd \in {"stat", "ls"}
  <2>1. Stat \/ List BY <1>1, <1>7 DEF HostLine
  <2>2. UNCHANGED <<files, open, torn>> BY <2>1 DEF Stat, List
  <2>3. FileSet(files') /\ OpenFits' /\ Free' = Free BY <1>4, <2>2, SameFit
  <2> QED BY <1>3, <1>4, <1>6, <2>2, <2>3 DEF FilesFit, OpenFits, SizesRight, JobFits
<1>8. CASE l.cmd = "begin"
  <2>1. Begin(l.tile, Chunks[l.tile]) BY <1>1, <1>2, <1>8 DEF HostLine
  <2>2. FileSet(files') /\ OpenFits' /\ Free' >= Free /\ torn' \subseteq torn BY <1>1, <1>4, <1>5, <1>8, <2>1, BeginFits
  <2>3. Free' \in Int BY <1>4, <2>2, FreeAfter
  <2> QED BY <1>3, <1>4, <1>6, <2>2, <2>3 DEF FilesFit, OpenFits, SizesRight, JobFits
<1>9. CASE l.cmd = "data"
  <2>1. Data(l.q, l.chunk) BY <1>1, <1>9 DEF HostLine
  <2>2. FileSet(files') /\ OpenFits' /\ Free' >= 0 BY <1>4, <1>5, <2>1, DataFits
  <2>3. torn' = torn BY <2>1 DEF Data
  <2> QED BY <1>3, <1>4, <1>6, <1>9, <2>2, <2>3 DEF FilesFit, OpenFits, SizesRight, JobFits, l
<1>10. CASE l.cmd = "end"
  <2>1. EndFile(l.crc) BY <1>1, <1>10 DEF HostLine
  <2>2. FileSet(files') /\ OpenFits' /\ Free' >= Free BY <1>4, <2>1, EndFits
  <2>3. torn' = torn BY <2>1 DEF EndFile
  <2>4. Free' \in Int BY <1>4, <2>2, FreeAfter
  <2> QED BY <1>3, <1>4, <1>6, <2>2, <2>3, <2>4 DEF FilesFit, OpenFits, SizesRight, JobFits
<1>11. CASE l.cmd = "rm"
  <2>1. Erase(l.tile) BY <1>1, <1>11 DEF HostLine
  <2>2. files' = Without(files, {l.tile} \ Stale) /\ UNCHANGED <<open, torn>> BY <2>1 DEF Erase
  <2>3. FileSet(files') /\ OpenFits' /\ Free' >= Free
    <3>1. Stale \intersect ({l.tile} \ Stale) = {} OBVIOUS
    <3> QED BY <1>4, <2>2, <3>1, GoneFits
  <2>4. Free' \in Int BY <1>4, <2>3, FreeAfter
  <2> QED BY <1>3, <1>4, <1>6, <2>2, <2>3, <2>4 DEF FilesFit, OpenFits, SizesRight, JobFits
<1> QED BY <1>1, <1>7, <1>8, <1>9, <1>10, <1>11

JobStep == Quiet \/ JobStart \/ Cancel \/ JobPlan \/ JobEvict \/ JobWalk \/ JobFetch \/ JobRename

\* The next tile that lacks is a tile of the plan.
LEMMA AheadIs ==
  ASSUME JobTrue, Ahead(job) # {}
  PROVE  /\ LeastOf(Ahead(job)) \in job.plan \ DOMAIN job.disk /\ LeastOf(Ahead(job)) >= job.next
         /\ LeastOf(Ahead(job)) \in Tile /\ LeastOf(Ahead(job)) \in Nat
         /\ \A u \in Ahead(job) : LeastOf(Ahead(job)) <= u
<1>1. Ahead(job) \subseteq job.plan /\ job.plan \subseteq Tile /\ Tile \subseteq Nat BY TilesAre DEF Ahead, JobTrue
<1>2. PICK t \in Ahead(job) : \A u \in Ahead(job) : <<u, t>> \notin OpToRel(<, Nat)
  BY <1>1, NatLessThanWellFounded, WFMin, Zenon
<1>3. \A u \in Ahead(job) : ~(u < t) BY <1>1, <1>2 DEF OpToRel
<1>4. \A u \in Ahead(job) : t <= u
  <2>1. ASSUME NEW u \in Ahead(job) PROVE t <= u
    <3>1. u \in Nat /\ t \in Nat BY <1>1
    <3> QED BY <3>1, <1>3
  <2> QED BY <2>1
<1>5. LeastOf(Ahead(job)) \in Ahead(job) /\ \A u \in Ahead(job) : LeastOf(Ahead(job)) <= u BY <1>4 DEF LeastOf
<1> QED BY <1>1, <1>5 DEF Ahead

LEMMA LessTmp ==
  ASSUME FilesFit, UNCHANGED <<files, open>>, tmp' = 0
  PROVE  FileSet(files') /\ OpenFits' /\ Free' >= Free /\ Free' >= 0
<1>1. FileSet(files') /\ OpenFits' BY DEF FilesFit, OpenFits, FileSet, IsOpen
<1>2. Used(files) \in Int /\ Len(open.before) \in Nat /\ tmp \in Nat BY FreeIs
<1>3. 0 \in Int /\ Used(files') \in Int /\ Used(files') <= Used(files) + 0 /\ Len(open'.before) \in Nat /\ tmp' \in Nat
      /\ 0 + Len(open'.before) + tmp' <= Len(open.before) + tmp + 0
  BY <1>2
<1>4. Free' >= Free - 0 /\ Free' \in Int /\ Free \in Int BY <1>3, FreeFrom, Zenon
<1> QED BY <1>1, <1>4 DEF FilesFit

\* A download is put in its place, or it failed.
LEMMA RenameIs ==
  ASSUME DOMAIN job = JobFields, JobRename
  PROVE  /\ DOMAIN job' = JobFields /\ job'.at = "walk" /\ job'.next = job.next + 1
         /\ job'.plan = job.plan /\ job'.disk = job.disk /\ job'.seen = job.seen /\ job'.victims = job.victims
         /\ job'.fetched = IF job.next = open.tile THEN job.fetched ELSE job.fetched + 1
<1>1. CASE job.next = open.tile
  <2>1. job' = Fails(job, FALSE) BY <1>1 DEF JobRename
  <2> QED BY <1>1, <2>1 DEF Fails, JobFields
<1>2. CASE job.next # open.tile
  <2>1. PICK m : job' = [job EXCEPT !.at = "walk", !.next = @ + 1, !.fetched = @ + 1, !.fails = 0, !.margin = m]
    BY <1>2 DEF JobRename
  <2> QED BY <1>2, <2>1 DEF JobFields
<1> QED BY <1>1, <1>2

LEMMA JobKeepsFit ==
  ASSUME FilesFit, JobTrue, JobStep
  PROVE  FilesFit' /\ (Free' >= Free \/ ran')
<1>0. Free >= 0 /\ Free \in Int /\ torn \subseteq Tile /\ tmp \in Nat /\ SizesRight BY FreeIs DEF FilesFit, SizesRight
<1>1. SizesRight' BY <1>0 DEF JobStep, Quiet, JobStart, Cancel, JobPlan, JobEvict, JobWalk, JobFetch, JobRename, jobOnly, SizesRight
<1>2. torn' \subseteq Tile
  BY <1>0 DEF JobStep, Quiet, JobStart, Cancel, JobPlan, JobEvict, JobWalk, JobFetch, JobRename, jobOnly
<1>3. SUFFICES FileSet(files') /\ OpenFits' /\ tmp' \in Nat /\ Free' >= 0 /\ JobFits' /\ (Free' >= Free \/ ran')
  BY <1>1, <1>2 DEF FilesFit, OpenFits, SizesRight, JobFits
<1>4. CASE UNCHANGED <<files, open, tmp>>
  <2>1. FileSet(files') /\ OpenFits' /\ Free' = Free /\ tmp' \in Nat BY <1>0, <1>4, SameFit
  <2> SUFFICES JobFits' BY <1>0, <2>1
  <2>2. CASE Quiet BY <2>2 DEF Quiet, FilesFit, JobFits
  <2>3. CASE JobStart BY <2>3, <1>4 DEF JobStart, FilesFit, JobFits, NoJob
  <2>4. CASE Cancel
    <3>1. job'.at = job.at /\ job'.next = job.next BY <2>4 DEF Cancel, JobTrue, JobFields
    <3> QED BY <1>4, <3>1 DEF FilesFit, JobFits
  <2>5. CASE JobPlan
    <3>1. job'.at \notin {"fetch", "rename"} BY <2>5 DEF JobPlan, Stopped, NoJob, JobTrue, JobFields
    <3> QED BY <3>1 DEF JobFits
  <2>6. CASE JobWalk
    <3>1. job'.at \in {"fetch", "rename"} => job'.at = "fetch" /\ job'.next \in Tile
      <4>1. CASE job' = [job EXCEPT !.at = "fetch", !.next = LeastOf(Ahead(job)), !.seen = @ + 1] /\ Ahead(job) # {}
        BY <4>1, AheadIs DEF JobTrue, JobFields
      <4>2. CASE job'.at \notin {"fetch", "rename"} BY <4>2
      <4>3. \/ job' = [job EXCEPT !.at = "fetch", !.next = LeastOf(Ahead(job)), !.seen = @ + 1] /\ Ahead(job) # {}
            \/ job'.at \notin {"fetch", "rename"}
        BY <2>6 DEF JobWalk, Stopped, NoJob, JobTrue, JobFields
      <4> QED BY <4>1, <4>2, <4>3
    <3> QED BY <3>1 DEF JobFits
  <2>7. CASE JobFetch
    <3>1. job'.at = "walk" \/ (job'.at = "rename" /\ job'.next = job.next /\ tmp' = Chunks[job.next])
      BY <2>7 DEF JobFetch, Fails, JobTrue, JobFields
    <3> QED BY <2>7, <3>1 DEF JobFits, JobFetch, FilesFit
  <2>8. CASE JobRename
    <3>1. job'.at = "walk" BY <2>8, RenameIs DEF JobTrue
    <3> QED BY <3>1 DEF JobFits
  <2>9. CASE JobEvict
    <3>1. job'.at \in {"walk", "evict"} BY <2>9 DEF JobEvict, JobTrue, JobFields
    <3> QED BY <3>1 DEF JobFits
  <2> QED BY <2>2, <2>3, <2>4, <2>5, <2>6, <2>7, <2>8, <2>9 DEF JobStep
<1>5. CASE UNCHANGED <<files, open>> /\ tmp' = 0 /\ job'.at \in {"list", "walk"}
  <2>1. FileSet(files') /\ OpenFits' /\ Free' >= Free /\ Free' >= 0 BY <1>5, LessTmp
  <2> QED BY <2>1, <1>5 DEF JobFits
<1>6. CASE JobEvict
  <2>1. PICK t : files' = Without(files, {t} \ Stale) BY <1>6 DEF JobEvict
  <2>2. UNCHANGED <<open, tmp>> /\ Stale \intersect ({t} \ Stale) = {} BY <1>6 DEF JobEvict, jobOnly
  <2>3. FileSet(files') /\ OpenFits' /\ Free' >= Free BY <2>1, <2>2, GoneFits
  <2>4. tmp' \in Nat BY <1>0, <2>2
  <2>5. Free' \in Int BY <2>3, <2>4, FreeAfter
  <2>6. job'.at \in {"walk", "evict"} BY <1>6 DEF JobEvict, JobTrue, JobFields
  <2> QED BY <1>0, <2>3, <2>4, <2>5, <2>6 DEF JobFits
<1>7. CASE job.at = "fetch" /\ UNCHANGED <<files, open>> /\ Free >= Chunks[job.next] /\ tmp' = Chunks[job.next] /\ ran' = TRUE /\ job' = [job EXCEPT !.at = "rename"]
  <2>1. FileSet(files') /\ OpenFits' BY <1>7 DEF FilesFit, OpenFits, FileSet, IsOpen
  <2>2. job.next \in Tile /\ Chunks[job.next] \in Nat BY <1>7, TilesAre DEF FilesFit
  <2>3. job'.at = "rename" /\ job'.next = job.next BY <1>7 DEF JobTrue, JobFields
  <2>4. Free' >= 0
    <3> DEFINE e == Chunks[job.next] - tmp
    <3>1. Used(files) \in Int /\ Len(open.before) \in Nat /\ tmp \in Nat BY FreeIs
    <3>2. e \in Int /\ 0 \in Int /\ Used(files') \in Int /\ Used(files') <= Used(files) + 0 /\ Len(open'.before) \in Nat /\ tmp' \in Nat
          /\ 0 + Len(open'.before) + tmp' <= Len(open.before) + tmp + e
      BY <3>1, <1>7, <2>2
    <3> HIDE DEF e
    <3>3. Free' >= Free - e /\ Free' \in Int /\ Free \in Int BY <3>2, FreeFrom, Zenon
    <3> QED BY <1>7, <2>2, <3>1, <3>3 DEF e
  <2> QED BY <1>7, <2>1, <2>2, <2>3, <2>4 DEF JobFits
<1>8. CASE JobRename /\ job.next # open.tile
  <2> DEFINE t == job.next  new == With(files, t, Content(t))
  <2>1. job.at = "rename" /\ t \in Tile /\ tmp = Chunks[t] /\ tmp' = 0 /\ files' = new /\ open' = open /\ t # open.tile
    BY <1>8 DEF JobRename, FilesFit
  <2>2. job'.at = "walk" BY <1>8, RenameIs DEF JobTrue
  <2>3. Content(t) \in Seq(Elems(Content(t))) /\ Len(Content(t)) = Chunks[t] /\ Chunks[t] \in Nat BY <2>1, ContentIs
  <2>4. FileSet(files) /\ Chunks[t] <= Chunks[t] BY <2>3 DEF FilesFit
  <2>5. FileSet(new) BY <2>1, <2>3, <2>4, WithIs
  <2>6. Had(new, t) = Chunks[t] /\ \A u : u # t => Had(new, u) = Had(files, u)
    <3>1. Had(new, t) = Len(Content(t)) /\ \A u : u # t => Had(new, u) = Had(files, u) BY WithHad
    <3> QED BY <2>3, <3>1
  <2>7. DOMAIN new = DOMAIN files \union {t} /\ \A u \in DOMAIN files : u # t => new[u] = files[u]
    <3>1. DOMAIN new = DOMAIN files \union {t} BY DEF With
    <3>2. \A u \in DOMAIN files : u # t => new[u] = files[u] BY DEF With
    <3> QED BY <3>1, <3>2
  <2> HIDE DEF new, t
  <2>8. OpenFits' BY <2>1, <2>7 DEF FilesFit, OpenFits, IsOpen
  <2>9. \A u \in Tile : Had(new, u) <= Had(files, u) + (IF u = t THEN Chunks[t] ELSE 0)
    <3>1. \A u : Had(files, u) \in Nat BY <2>4, HadIs
    <3> QED BY <2>3, <2>6, <3>1
  <2>10. Chunks[t] \in Int /\ Chunks[t] >= 0 BY <2>3
  <2>11. Used(new) \in Int /\ Used(new) <= Used(files) + Chunks[t] BY <2>1, <2>4, <2>5, <2>9, <2>10, UsedAtMost, Zenon
  <2>12. Len(open'.before) \in Nat /\ tmp' \in Nat /\ 0 \in Int /\ Used(files') \in Int /\ Used(files') <= Used(files) + Chunks[t]
         /\ Chunks[t] + Len(open'.before) + tmp' <= Len(open.before) + tmp + 0
    BY <2>1, <2>3, <2>11, FreeIs
  <2>13. Free' >= Free - 0 /\ Free' \in Int /\ Free \in Int BY <2>10, <2>12, FreeFrom, Zenon
  <2> QED BY <1>0, <2>1, <2>2, <2>5, <2>8, <2>12, <2>13 DEF JobFits
<1> QED
  <2>1. CASE Quiet \/ Cancel \/ JobPlan \/ JobWalk BY <1>4, <2>1 DEF Quiet, Cancel, JobPlan, JobWalk, jobOnly
  <2>2. CASE JobStart BY <1>4, <1>5, <2>2 DEF JobStart, jobOnly, NoJob
  <2>3. CASE JobFetch BY <1>5, <1>7, <2>3 DEF JobFetch, jobOnly, Fails, JobTrue, JobFields
  <2>4. CASE JobRename
    <3>1. job'.at = "walk" BY <2>4, RenameIs DEF JobTrue
    <3> QED BY <1>5, <1>8, <2>4, <3>1 DEF JobRename
  <2> QED BY <2>1, <2>2, <2>3, <2>4, <1>6 DEF JobStep

LEMMA InitFits == TileInit => FilesFit
<1> SUFFICES ASSUME TileInit PROVE FilesFit OBVIOUS
<1>1. PICK held \in Held : files = [t \in held |-> Content(t)] BY DEF TileInit
<1>2. held \subseteq Tile BY TileAssumption
<1>3. FileSet(files)
  <2>1. ASSUME NEW t \in DOMAIN files PROVE files[t] \in Seq(Elems(files[t])) /\ Len(files[t]) <= Chunks[t]
    <3>1. t \in Tile /\ files[t] = Content(t) BY <1>1, <1>2
    <3> QED BY <3>1, ContentIs
  <2> QED BY <1>1, <1>2, <2>1 DEF FileSet
<1>4. open.left \in Nat /\ open.before \in Seq(Elems(open.before)) /\ ~IsOpen BY DEF TileInit, Closed, IsOpen, Elems
<1> QED BY <1>3, <1>4 DEF TileInit, FilesFit, NoJob

LEMMA PowerFits ==
  ASSUME FilesFit, CutPower
  PROVE  FilesFit' /\ Free' >= Free
<1>1. open' = Closed /\ toBoard' = <<>> /\ job' = NoJob /\ tmp' = tmp /\ tmp \in Nat BY DEF CutPower, FilesFit
<1>2. OpenFits' /\ ~IsOpen' /\ Len(open'.before) = 0 BY <1>1, ClosedFits
<1>3. SizesRight' /\ JobFits' BY <1>1 DEF SizesRight, JobFits, NoJob
<1>4. FileSet(files) BY DEF FilesFit
<1>5. DOMAIN files' = DOMAIN files BY DEF CutPower
<1>6. torn' \subseteq Tile BY <1>4, <1>5 DEF CutPower, FilesFit, FileSet
<1>7. Free >= 0 /\ Free \in Int BY FreeIs DEF FilesFit
<1>8. CASE files' = files
  <2>1. FileSet(files') /\ \A t \in Tile : Had(files', t) <= Had(files, t)
    <3>1. \A t \in Tile : Had(files, t) <= Had(files, t) BY <1>4, HadIs
    <3> QED BY <1>4, <1>8, <3>1
  <2>2. Free' >= Free /\ Free' \in Int BY <1>1, <1>2, <2>1, FewerFit, FreeIs
  <2> QED BY <1>1, <1>2, <1>3, <1>6, <1>7, <2>1, <2>2 DEF FilesFit, OpenFits, SizesRight, JobFits
<1>9. CASE IsOpen /\ files' = [files EXCEPT ![open.tile] = open.before]
  <2> DEFINE t == open.tile  k == open.before
  <2>1. t \in DOMAIN files /\ t \in Tile /\ k \in Seq(Elems(k)) /\ Len(k) <= Chunks[t] BY <1>4, <1>9 DEF FilesFit, FileSet
  <2>2. files'[t] = k /\ \A u \in DOMAIN files : u # t => files'[u] = files[u] BY <1>9, <2>1
  <2>3. FileSet(files') BY <1>4, <1>5, <2>1, <2>2 DEF FileSet
  <2>4. Len(k) \in Nat BY <2>1
  <2>5. \A u : Had(files, u) \in Nat BY <1>4, HadIs
  <2>6. Had(files', t) = Len(k) /\ \A u : u # t => Had(files', u) = Had(files, u) BY <1>5, <2>1, <2>2 DEF Had
  <2>7. \A u \in Tile : Had(files', u) <= Had(files, u) + (IF u = t THEN Len(k) ELSE 0) BY <2>4, <2>5, <2>6
  <2>8. Len(k) \in Int /\ Len(k) >= 0 BY <2>4
  <2> HIDE DEF t
  <2>9. Used(files') \in Int /\ Used(files') <= Used(files) + Len(k) BY <1>4, <2>3, <2>7, <2>8, UsedAtMost, Zenon
  <2>10. 0 \in Int /\ Len(open'.before) \in Nat /\ tmp' \in Nat /\ Len(k) + Len(open'.before) + tmp' <= Len(open.before) + tmp + 0
    BY <1>1, <1>2, <2>4
  <2>11. Free' >= Free - 0 /\ Free' \in Int BY <2>8, <2>9, <2>10, FreeFrom, Zenon
  <2> QED BY <1>1, <1>2, <1>3, <1>6, <1>7, <2>3, <2>11 DEF FilesFit, OpenFits, SizesRight, JobFits
<1> QED BY <1>8, <1>9 DEF CutPower

LEMMA LoseFits ==
  ASSUME TileInv, FilesFit, LoseTileLine
  PROVE  FilesFit' /\ Free' = Free
<1>1. UNCHANGED <<files, open, tmp, torn, job>> BY DEF LoseTileLine, tileBoard
<1>2. FileSet(files') /\ OpenFits' /\ Free' = Free BY <1>1, SameFit
<1>3. SizesRight'
  <2>1. toBoard \in Seq(Elems(toBoard)) /\ SizesRight BY DEF TileInv, SerialOK, FilesFit, SizesRight
  <2>2. CASE toBoard' = toBoard BY <2>1, <2>2 DEF SizesRight
  <2>3. CASE toBoard # <<>> /\ toBoard' = Tail(toBoard)
    <3>1. \A i \in DOMAIN toBoard' : toBoard'[i] = toBoard[i + 1] /\ i + 1 \in DOMAIN toBoard BY <2>1, <2>3, LineTaken
    <3> QED BY <2>1, <3>1 DEF SizesRight
  <2>4. ASSUME toBoard # <<>>, NEW e, e.cmd = "data", toBoard' = <<e>> \o Tail(toBoard) PROVE SizesRight'
    <3> DEFINE s == <<e>> \o Tail(toBoard)
    <3>1. DOMAIN s = DOMAIN toBoard /\ s[1] = e /\ \A i \in DOMAIN toBoard : i # 1 => s[i] = toBoard[i] BY <2>1, <2>4, LineReplaced
    <3>2. toBoard' = s BY <2>4
    <3> HIDE DEF s
    <3> QED BY <2>1, <2>4, <3>1, <3>2 DEF SizesRight
  <2> QED BY <2>2, <2>3, <2>4 DEF LoseTileLine
<1> QED BY <1>1, <1>2, <1>3 DEF FilesFit, OpenFits, SizesRight

-----------------------------------------------------------------------------
(* What the Mac does *)

MacStep == MacPlan \/ MacSend \/ MacHandle \/ MacTimeout

\* What an answer makes the Mac do.
LEMMA MacHandles ==
  ASSUME TileInv, MacHandle
  PROVE  LET line == toMac[1] IN
         /\ 1 \in DOMAIN toMac /\ toMac # <<>> /\ toMac' = Tail(toMac)
         /\ \/ line.type = "stat" /\ mac.state = "awaitStat" /\ ListDevice([mac EXCEPT !.known = TRUE, !.free = line.free])
            \/ line.type = "list" /\ mac.state = "awaitList" /\ MakePlan(mac, line.disk) /\ toBoard = <<>> /\ toBoard' = <<>> /\ toMac' = <<>>
            \/ line.type = "ack" /\ mac.state = "awaitAck" /\ toBoard = <<>> /\ toMac' = <<>> /\ NextChunk(mac)
            \/ line.type = "ok" /\ mac.state = "deleting" /\ toBoard = <<>> /\ toMac' = <<>> /\ NextDelete(mac)
            \/ line.type = "ok" /\ mac.state = "awaitOk" /\ toBoard = <<>> /\ toMac' = <<>> /\ NextFile(Sent(mac))
            \/ mac' = Failed(mac) /\ UNCHANGED toBoard
            \/ UNCHANGED <<mac, toBoard>>
<1> DEFINE line == toMac[1]  b == Len(toBoard)  k == Len(toMac)
<1>1. toMac # <<>> /\ toMac' = Tail(toMac) BY DEF MacHandle
<1>2. SerialOK BY DEF TileInv
<1>3. /\ toMac' \in Seq(Elems(toMac')) /\ Head(toMac) = line /\ k \in Nat \ {0} /\ Len(toMac') = k - 1 /\ DOMAIN toMac = 1 .. k
  BY <1>1, <1>2, LineTaken DEF SerialOK
<1>4. b \in Nat /\ toBoard \in Seq(Elems(toBoard)) BY <1>2, OfElems DEF SerialOK
<1>5. Outstanding = b + k BY DEF Outstanding
<1> HIDE DEF line, b, k
<1>6. Outstanding <= 1 => toBoard = <<>> /\ toMac' = <<>>
  <2> SUFFICES ASSUME Outstanding <= 1 PROVE toBoard = <<>> /\ toMac' = <<>> OBVIOUS
  <2>1. b = 0 /\ k - 1 = 0 BY <1>3, <1>4, <1>5
  <2> QED BY <2>1, <1>3, <1>4 DEF b
<1>7. line.type = "list" /\ mac.state = "awaitList" => toBoard = <<>> /\ toMac' = <<>>
  <2> SUFFICES ASSUME line.type = "list", mac.state = "awaitList" PROVE toBoard = <<>> /\ toMac' = <<>> OBVIOUS
  <2>1. k = 1 /\ toBoard = <<>> BY <1>3 DEF TileInv, InStep, AskedList, k, line
  <2>2. Len(toMac') = 0 BY <1>3, <2>1
  <2> QED BY <2>1, <2>2, <1>3
<1>8. mac.state \in {"awaitAck", "awaitOk", "deleting"} => Outstanding <= 1
  BY DEF TileInv, InStep, AskedAck, AskedOk, AskedNothing
<1>9. \/ line.type = "stat" /\ mac.state = "awaitStat" /\ ListDevice([mac EXCEPT !.known = TRUE, !.free = line.free])
      \/ line.type = "list" /\ mac.state = "awaitList" /\ MakePlan(mac, line.disk) /\ UNCHANGED toBoard
      \/ line.type = "ack" /\ mac.state = "awaitAck" /\ NextChunk(mac)
      \/ line.type = "ok" /\ mac.state = "deleting" /\ NextDelete(mac)
      \/ line.type = "ok" /\ mac.state = "awaitOk" /\ NextFile(Sent(mac))
      \/ mac' = Failed(mac) /\ UNCHANGED toBoard
      \/ UNCHANGED <<mac, toBoard>>
  BY <1>3 DEF MacHandle
<1>10. 1 \in DOMAIN toMac BY <1>3
<1>11. mac.state \in {"awaitAck", "awaitOk", "deleting"} => toBoard = <<>> /\ toMac' = <<>> BY <1>6, <1>8
<1>12. line.type = "list" /\ mac.state = "awaitList" /\ UNCHANGED toBoard => toBoard = <<>> /\ toBoard' = <<>> /\ toMac' = <<>> BY <1>7
<1>13. mac.state \in {"awaitAck", "awaitOk", "deleting"} <=> mac.state = "awaitAck" \/ mac.state = "awaitOk" \/ mac.state = "deleting" OBVIOUS
<1> QED BY <1>1, <1>9, <1>10, <1>11, <1>12, <1>13, Zenon DEF line

\* With the plan made nothing is out.
LEMMA NothingOut ==
  ASSUME TileInv, mac.planned
  PROVE  toBoard = <<>> /\ toMac = <<>> /\ mac.state = "idle"
<1>1. Len(toBoard) + Len(toMac) = 0 /\ mac.state = "idle" BY DEF TileInv, InStep, AskedNothing, Outstanding
<1>2. toBoard \in Seq(Elems(toBoard)) /\ toMac \in Seq(Elems(toMac)) BY DEF TileInv, SerialOK
<1>3. Len(toBoard) \in Nat /\ Len(toMac) \in Nat BY <1>2
<1>4. Len(toBoard) = 0 /\ Len(toMac) = 0 BY <1>1, <1>3
<1> QED BY <1>1, <1>2, <1>4

\* The Mac sends a line of an upload when nothing else is out.
LEMMA MacSays ==
  ASSUME TileInv, MacStep
  PROVE  \/ UNCHANGED toBoard
         \/ \E line : /\ toBoard' = Append(toBoard, line) /\ line.cmd \in {"stat", "ls", "begin", "data", "end", "rm"}
                      /\ line.cmd = "begin" => line.size = Chunks[line.tile]
                      /\ line.cmd \in {"stat", "ls"} \/ (toBoard = <<>> /\ toMac' = <<>>)
<1> DEFINE Says(S) == \E line : /\ toBoard' = Append(toBoard, line) /\ line.cmd \in S
                                /\ line.cmd = "begin" => line.size = Chunks[line.tile]
<1>1. ASSUME NEW m, NextFile(m) PROVE UNCHANGED toBoard \/ Says({"begin"})
  BY <1>1 DEF NextFile, AskBoard
<1>2. ASSUME NEW m, NextDelete(m) PROVE UNCHANGED toBoard \/ Says({"begin", "rm"})
  BY <1>1, <1>2 DEF NextDelete, AskBoard
<1>3. ASSUME NEW m, NextChunk(m) PROVE Says({"data", "end"})
  BY <1>3 DEF NextChunk, AskBoard
<1>4. ASSUME NEW m, ListDevice(m) PROVE Says({"ls"})
  BY <1>4 DEF ListDevice, AskBoard
<1>5. CASE MacPlan BY <1>5 DEF MacPlan, AskBoard
<1>6. CASE MacTimeout BY <1>4, <1>6 DEF MacTimeout
<1>7. CASE MacSend
  <2>1. toBoard = <<>> /\ toMac' = <<>> BY <1>7, NothingOut DEF MacSend
  <2> QED BY <1>2, <1>7, <2>1 DEF MacSend
<1>8. CASE MacHandle
  BY <1>1, <1>2, <1>3, <1>4, <1>8, MacHandles
<1> QED BY <1>5, <1>6, <1>7, <1>8 DEF MacStep

LEMMA MacLeaves ==
  ASSUME MacStep
  PROVE  UNCHANGED <<files, open, recent, tmp, job, torn, stored, faults, fetches>>
BY DEF MacStep, MacPlan, MacSend, MacHandle, MacTimeout, macOnly, tileBoard

\* What the Mac itself cannot send is all that it adds to what it lost.
LEMMA MacLoses ==
  ASSUME MacStep, DOMAIN lostTo = {"job", "mac"}
  PROVE  DOMAIN lostTo' = {"job", "mac"} /\ lostTo'.job = lostTo.job /\ lostTo.mac \subseteq lostTo'.mac
<1>1. CASE UNCHANGED lostTo BY <1>1
<1>2. CASE MacSend BY <1>2 DEF MacSend
<1> QED BY <1>1, <1>2 DEF MacStep, MacPlan, MacHandle, MacTimeout

LEMMA MacFits ==
  ASSUME TileInv, FilesFit, MacStep
  PROVE  FilesFit' /\ Free' = Free
<1>1. UNCHANGED <<files, open, tmp, torn, job>> BY MacLeaves
<1>2. FileSet(files') /\ OpenFits' /\ Free' = Free BY <1>1, SameFit
<1>3. SizesRight'
  <2>1. toBoard \in Seq(Elems(toBoard)) /\ SizesRight BY DEF TileInv, SerialOK, FilesFit, SizesRight
  <2>2. CASE UNCHANGED toBoard BY <2>1, <2>2 DEF SizesRight
  <2>3. ASSUME NEW line, toBoard' = Append(toBoard, line), line.cmd = "begin" => line.size = Chunks[line.tile] PROVE SizesRight'
    <3> DEFINE s == Append(toBoard, line)
    <3>1. DOMAIN s = 1 .. Len(toBoard) + 1 /\ DOMAIN toBoard = 1 .. Len(toBoard) /\ (\A i \in DOMAIN toBoard : s[i] = toBoard[i]) /\ s[Len(toBoard) + 1] = line /\ Len(toBoard) \in Nat
      BY <2>1, LineAppended
    <3>2. toBoard' = s BY <2>3
    <3> HIDE DEF s
    <3>3. \A i \in DOMAIN s : i = Len(toBoard) + 1 \/ i \in DOMAIN toBoard BY <3>1
    <3> QED BY <2>1, <2>3, <3>1, <3>2, <3>3 DEF SizesRight
  <2> QED BY <2>2, <2>3, MacSays
<1> QED BY <1>1, <1>2, <1>3 DEF FilesFit, OpenFits, SizesRight

-----------------------------------------------------------------------------
(* The job keeps what it plans *)

\* What the board takes from the job's plan is recorded.
LEMMA HostKeepsJob ==
  ASSUME TileInv, HostLine, DOMAIN lostTo = {"job", "mac"}
  PROVE  /\ DOMAIN lostTo' = {"job", "mac"}
         /\ \A t \in job.plan : t \in DOMAIN files \union lostTo.job => t \in DOMAIN files' \union lostTo'.job
<1> DEFINE l == toBoard[1]
           Keeps(gone) == /\ DOMAIN lostTo' = {"job", "mac"} /\ DOMAIN files \ gone \subseteq DOMAIN files'
                          /\ lostTo.job \union (gone \intersect job.plan) \subseteq lostTo'.job
<1>1. Head(toBoard) = l /\ l.cmd \in {"stat", "ls", "begin", "data", "end", "rm"} BY FirstLine
<1> HIDE DEF l
<1>2. CASE UNCHANGED <<files, lostTo>> BY <1>2
<1>3. \A gone : DOMAIN Without(files, gone) = DOMAIN files \ gone BY DEF Without, Restrict
<1>4. ASSUME NEW gone, files' = Without(files, gone), TakenFromJob(gone) PROVE Keeps(gone)
  BY <1>3, <1>4 DEF TakenFromJob
<1>5. SUFFICES (\E gone : Keeps(gone)) \/ UNCHANGED <<files, lostTo>> BY <1>2
<1>6. CASE l.cmd = "stat" BY <1>1, <1>6 DEF HostLine, Stat
<1>7. CASE l.cmd = "ls"
  <2>1. List BY <1>1, <1>7 DEF HostLine
  <2>2. Keeps({}) BY <2>1 DEF List
  <2> QED BY <2>2
<1>8. CASE l.cmd = "begin"
  <2>1. Begin(l.tile, l.size) BY <1>1, <1>8 DEF HostLine
  <2>2. PICK gone : \E rest :
          /\ rest = Without(Without(files, Superseded), gone)
          /\ files' = rest \/ files' = With(rest, l.tile, <<>>)
          /\ lostTo' = [job |-> lostTo.job \union ((Superseded \union gone \union {l.tile}) \intersect job.plan), mac |-> lostTo.mac \union Superseded]
    BY <2>1 DEF Begin
  <2> DEFINE rest == Without(Without(files, Superseded), gone)
  <2>3. DOMAIN rest = DOMAIN files \ (Superseded \union gone) BY DEF Without, Restrict
  <2> HIDE DEF rest
  <2>4. DOMAIN With(rest, l.tile, <<>>) = DOMAIN rest \union {l.tile} BY WithHas
  <2>5. DOMAIN rest \subseteq DOMAIN files' BY <2>2, <2>4 DEF rest
  <2>6. Keeps(Superseded \union gone) BY <2>2, <2>3, <2>5
  <2> QED BY <2>6
<1>9. CASE l.cmd = "data"
  <2>1. Data(l.q, l.chunk) BY <1>1, <1>9 DEF HostLine
  <2>2. CASE Dropped
    <3>1. Keeps(Stale) BY <1>4, <2>2 DEF Dropped
    <3> QED BY <3>1
  <2>3. CASE DOMAIN files' = DOMAIN files /\ UNCHANGED lostTo
    <3>1. Keeps({}) BY <2>3
    <3> QED BY <3>1
  <2> QED BY <2>1, <2>2, <2>3 DEF Data
<1>10. CASE l.cmd = "end"
  <2>1. EndFile(l.crc) BY <1>1, <1>10 DEF HostLine
  <2>2. CASE Dropped
    <3>1. Keeps(Stale) BY <1>4, <2>2 DEF Dropped
    <3> QED BY <3>1
  <2> QED BY <2>1, <2>2 DEF EndFile
<1>11. CASE l.cmd = "rm"
  <2>1. Erase(l.tile) BY <1>1, <1>11 DEF HostLine
  <2>2. Keeps({l.tile} \ Stale) BY <1>4, <2>1 DEF Erase
  <2> QED BY <2>2
<1> QED BY <1>1, <1>6, <1>7, <1>8, <1>9, <1>10, <1>11

\* Of any tiles there is a greatest one.
LEMMA MostIn ==
  ASSUME NEW S, S \subseteq Tile, S # {}
  PROVE  MostOf(S) \in S
<1> DEFINE n == Len(Chunks)  B == {n - t : t \in S}
<1>1. n \in Nat /\ Tile = 1 .. n BY TilesAre
<1> HIDE DEF n
<1>2. B \subseteq Nat /\ B # {}
  <2>1. \A t \in S : n - t \in Nat BY <1>1
  <2> QED BY <2>1
<1>3. PICK k \in B : \A j \in B : <<j, k>> \notin OpToRel(<, Nat)
  BY <1>2, NatLessThanWellFounded, WFMin, Zenon
<1>4. PICK t \in S : k = n - t BY <1>3
<1>5. \A u \in S : t >= u
  <2>1. ASSUME NEW u \in S PROVE t >= u
    <3>1. n - u \in B /\ n - u \in Nat /\ k \in Nat BY <1>2
    <3>2. ~(n - u < k) BY <1>3, <3>1 DEF OpToRel
    <3>3. u \in 1 .. n /\ t \in 1 .. n BY <1>1
    <3> QED BY <1>1, <1>4, <3>2, <3>3
  <2> QED BY <2>1
<1> QED BY <1>5 DEF MostOf

\* Nothing of the job changes, and nothing it planned goes unrecorded.
LEMMA JobSame ==
  ASSUME JobTrue, job' = job, DOMAIN lostTo' = {"job", "mac"},
         \A t \in job.plan : t \in DOMAIN files \union lostTo.job => t \in DOMAIN files' \union lostTo'.job
  PROVE  JobTrue'
<1>1. Passed' = Passed /\ Passed \subseteq job.plan BY DEF Passed
<1>2. \A T : T \subseteq job.plan /\ HaveThose(T) => HaveThose(T)' BY DEF HaveThose
<1>3. HaveThose(job.plan \intersect DOMAIN job.disk) => HaveThose(job.plan \intersect DOMAIN job.disk)' BY <1>2
<1>4. HaveThose(Passed) => HaveThose(Passed)' BY <1>1 DEF HaveThose
<1>5. HaveThose(job.plan) => HaveThose(job.plan)' BY DEF HaveThose
<1> QED BY <1>3, <1>4, <1>5 DEF JobTrue

LEMMA JobAt ==
  ASSUME JobTrue, JobWalk
  PROVE  JobTrue'
<1> DEFINE t == LeastOf(Ahead(job))
<1>0. UNCHANGED <<files, lostTo>> /\ DOMAIN lostTo = {"job", "mac"} BY DEF JobWalk, JobTrue
<1>1. /\ DOMAIN job = JobFields /\ job.plan \subseteq Tile /\ job.victims \subseteq Tile
      /\ job.seen \in Nat /\ job.fetched \in Nat /\ job.next \in Nat /\ job.at = "walk"
      /\ HaveThose(job.plan \intersect DOMAIN job.disk) /\ job.fetched <= job.seen /\ (job.fetched = job.seen => HaveThose(Passed))
  BY DEF JobTrue, JobWalk
<1>2. \A T : HaveThose(T)' <=> T \subseteq DOMAIN files \union lostTo.job BY <1>0 DEF HaveThose
<1>3. CASE job.cancel
  <2>1. job' = Stopped(job) BY <1>3 DEF JobWalk
  <2> QED BY <1>0, <2>1 DEF JobTrue, Stopped, NoJob, JobFields
<1>4. CASE ~job.cancel /\ Ahead(job) = {}
  <2>1. job' = [NoJob EXCEPT !.at = "done", !.left = LeftOf(job), !.plan = job.plan, !.full = job.full] BY <1>4 DEF JobWalk
  <2>2. LeftOf(job) = 0 => job.fetched = job.seen BY <1>1 DEF LeftOf
  <2>3. job.plan \subseteq (job.plan \intersect DOMAIN job.disk) \union Passed
    <3>1. ASSUME NEW u \in job.plan \ DOMAIN job.disk PROVE u < job.next
      <4>1. u \in Nat /\ ~(u >= job.next) BY <1>1, <1>4, TilesAre DEF Ahead
      <4> QED BY <1>1, <4>1
    <3> QED BY <3>1 DEF Passed
  <2>4. LeftOf(job) = 0 => HaveThose(job.plan) BY <1>1, <2>2, <2>3 DEF HaveThose
  <2>5. job'.plan = job.plan /\ job'.left = LeftOf(job) /\ job'.at = "done" /\ DOMAIN job' = JobFields
        /\ job'.victims = {} /\ job'.seen = 0 /\ job'.fetched = 0 /\ job'.next = 1
    BY <2>1 DEF NoJob, JobFields
  <2> QED BY <1>0, <1>1, <2>4, <2>5 DEF JobTrue, HaveThose
<1>5. CASE Ahead(job) # {} /\ \E s, f : job' = [job EXCEPT !.next = t + 1, !.seen = @ + 1, !.stop = s, !.full = f]
  <2>1. t \in Nat BY <1>5, AheadIs
  <2> HIDE DEF t
  <2>2. DOMAIN job' = JobFields /\ job'.at = "walk" /\ job'.plan = job.plan /\ job'.disk = job.disk /\ job'.victims = job.victims
        /\ job'.next = t + 1 /\ job'.seen = job.seen + 1 /\ job'.fetched = job.fetched
    BY <1>1, <1>5 DEF JobFields
  <2>3. job.fetched <= job.seen + 1 /\ job.fetched # job.seen + 1 BY <1>1
  <2>4. HaveThose(job.plan \intersect DOMAIN job.disk)' BY <1>0, <1>1, <2>2 DEF HaveThose
  <2> QED BY <1>0, <1>1, <2>1, <2>2, <2>3, <2>4 DEF JobTrue
<1>6. CASE Ahead(job) # {} /\ job' = [job EXCEPT !.at = "fetch", !.next = t, !.seen = @ + 1]
  <2>1. t \in Nat /\ t >= job.next /\ \A u \in Ahead(job) : t <= u BY <1>6, AheadIs
  <2> HIDE DEF t
  <2>2. DOMAIN job' = JobFields /\ job'.at = "fetch" /\ job'.plan = job.plan /\ job'.disk = job.disk /\ job'.victims = job.victims
        /\ job'.next = t /\ job'.seen = job.seen + 1 /\ job'.fetched = job.fetched
    BY <1>1, <1>6 DEF JobFields
  <2>3. Passed' \subseteq Passed
    <3>1. ASSUME NEW u \in job.plan \ DOMAIN job.disk, u < t PROVE u < job.next
      <4>1. u \in Nat /\ ~(t <= u) BY <1>1, <2>1, <3>1, TilesAre
      <4>2. u \notin Ahead(job) BY <2>1, <4>1
      <4>3. ~(u >= job.next) BY <4>2 DEF Ahead
      <4> QED BY <1>1, <4>1, <4>3
    <3> QED BY <2>2, <3>1 DEF Passed
  <2>4. job.fetched < job.seen + 1 /\ (job.fetched + 1 = job.seen + 1 => HaveThose(Passed)) BY <1>1
  <2>5. HaveThose(job.plan \intersect DOMAIN job.disk)' /\ (HaveThose(Passed) => HaveThose(Passed)') BY <1>0, <1>1, <2>2, <2>3 DEF HaveThose
  <2> QED BY <1>0, <1>1, <2>1, <2>2, <2>4, <2>5 DEF JobTrue
<1>7. \/ job.cancel \/ (~job.cancel /\ Ahead(job) = {})
      \/ Ahead(job) # {} /\ \E s, f : job' = [job EXCEPT !.next = t + 1, !.seen = @ + 1, !.stop = s, !.full = f]
      \/ Ahead(job) # {} /\ job' = [job EXCEPT !.at = "fetch", !.next = t, !.seen = @ + 1]
  <2> DEFINE p == [job EXCEPT !.next = t + 1, !.seen = @ + 1]
             q(s, f) == [job EXCEPT !.next = t + 1, !.seen = @ + 1, !.stop = s, !.full = f]
  <2>1. p = q(job.stop, job.full) BY <1>1 DEF JobFields
  <2>2. [p EXCEPT !.stop = TRUE] = q(TRUE, job.full) BY <1>1 DEF JobFields
  <2>3. [p EXCEPT !.stop = TRUE, !.full = TRUE] = q(TRUE, TRUE) BY <1>1 DEF JobFields
  <2>4. \/ job.cancel \/ Ahead(job) = {} \/ job' = p \/ job' = [p EXCEPT !.stop = TRUE] \/ job' = [p EXCEPT !.stop = TRUE, !.full = TRUE]
        \/ job' = [job EXCEPT !.at = "fetch", !.next = t, !.seen = @ + 1]
    BY DEF JobWalk
  <2> HIDE DEF t, p, q
  <2>5. job' = p \/ job' = [p EXCEPT !.stop = TRUE] \/ job' = [p EXCEPT !.stop = TRUE, !.full = TRUE] => \E s, f : job' = q(s, f)
    BY <2>1, <2>2, <2>3
  <2> QED BY <2>4, <2>5, Zenon DEF q
<1> QED BY <1>3, <1>4, <1>5, <1>6, <1>7

LEMMA JobPlansTrue ==
  ASSUME JobTrue, FilesFit, JobPlan
  PROVE  JobTrue'
<1>0. UNCHANGED <<files, lostTo>> /\ DOMAIN lostTo = {"job", "mac"} BY DEF JobPlan, JobTrue
<1>1. CASE job.cancel
  <2>1. job' = Stopped(job) BY <1>1 DEF JobPlan
  <2> QED BY <1>0, <2>1 DEF JobTrue, Stopped, NoJob, JobFields
<1>2. CASE ~job.cancel
  <2>1. PICK gone, need :
          LET plan == PlanOf(Listed, Free) IN
          /\ gone = {} \/ gone = Victims(plan, Listed, need)
          /\ job' = [job EXCEPT !.at = IF gone = {} THEN "walk" ELSE "evict", !.disk = Listed, !.plan = plan, !.victims = gone, !.margin = Estimate]
    BY <1>2 DEF JobPlan
  <2> DEFINE plan == PlanOf(Listed, Free)
  <2>2. plan \subseteq Tile BY PlanIs
  <2> HIDE DEF plan
  <2>3. DOMAIN Listed = DOMAIN files /\ DOMAIN files \subseteq Tile BY DEF Listed, FilesFit, FileSet
  <2>4. gone \subseteq DOMAIN files \ plan BY <2>1, <2>3 DEF Victims, plan
  <2>5. /\ DOMAIN job' = JobFields /\ job'.plan = plan /\ job'.disk = Listed /\ job'.victims = gone
        /\ job'.at \in {"walk", "evict"} /\ (job'.at = "evict" => gone # {})
        /\ job'.seen = 0 /\ job'.fetched = 0 /\ job'.next = 1
    BY <2>1 DEF JobTrue, JobFields, JobPlan, plan
  <2>6. Passed' = {}
    <3>1. ASSUME NEW t \in Tile PROVE ~(t < 1) BY TilesAre
    <3> QED BY <2>2, <2>5, <3>1 DEF Passed
  <2>7. HaveThose(Passed)' /\ HaveThose(job.plan \intersect DOMAIN job.disk)' BY <1>0, <2>3, <2>5, <2>6 DEF HaveThose
  <2>8. job'.victims \subseteq Tile /\ job'.victims \intersect job'.plan = {} BY <2>3, <2>4, <2>5
  <2> QED BY <1>0, <2>2, <2>5, <2>7, <2>8 DEF JobTrue
<1> QED BY <1>1, <1>2

\* The job evicts what it does not plan.
LEMMA Evicts ==
  ASSUME JobTrue, JobEvict
  PROVE  \E t : /\ t \in job.victims /\ t \in Tile /\ t \notin job.plan
                /\ files' = Without(files, {t} \ Stale)
                /\ lostTo' = [lostTo EXCEPT !.mac = @ \union ({t} \ Stale)]
                /\ job' = [job EXCEPT !.victims = @ \ {t}, !.at = IF job.victims = {t} THEN "walk" ELSE @]
<1>1. job.victims \subseteq Tile /\ job.victims # {} /\ job.victims \intersect job.plan = {} BY DEF JobTrue, JobEvict
<1>2. MostOf(job.victims) \in job.victims BY <1>1, MostIn
<1> QED BY <1>1, <1>2 DEF JobEvict, TakenFromMac

LEMMA JobEvictsTrue ==
  ASSUME JobTrue, JobEvict
  PROVE  JobTrue'
<1>1. PICK t : /\ t \in job.victims /\ t \in Tile /\ t \notin job.plan
               /\ files' = Without(files, {t} \ Stale)
               /\ lostTo' = [lostTo EXCEPT !.mac = @ \union ({t} \ Stale)]
               /\ job' = [job EXCEPT !.victims = @ \ {t}, !.at = IF job.victims = {t} THEN "walk" ELSE @]
  BY Evicts
<1>2. DOMAIN files' = DOMAIN files \ ({t} \ Stale) BY <1>1 DEF Without, Restrict
<1>3. DOMAIN lostTo' = {"job", "mac"} /\ lostTo'.job = lostTo.job BY <1>1 DEF JobTrue
<1>4. job.at = "evict" BY DEF JobEvict
<1>5. /\ DOMAIN job' = JobFields /\ job'.plan = job.plan /\ job'.disk = job.disk /\ job'.victims = job.victims \ {t}
      /\ job'.at = (IF job.victims = {t} THEN "walk" ELSE "evict")
      /\ job'.seen = job.seen /\ job'.fetched = job.fetched /\ job'.next = job.next
  BY <1>1, <1>4 DEF JobTrue, JobFields
<1>6. Passed' = Passed /\ Passed \subseteq job.plan BY <1>5 DEF Passed
<1>7. HaveThose(Passed) => HaveThose(Passed)' BY <1>1, <1>2, <1>3, <1>6 DEF HaveThose
<1>8. HaveThose(job.plan \intersect DOMAIN job.disk)' BY <1>1, <1>2, <1>3, <1>4, <1>5 DEF HaveThose, JobTrue
<1>9. job'.at = "evict" => job'.victims # {} BY <1>1, <1>5
<1> QED BY <1>3, <1>4, <1>5, <1>7, <1>8, <1>9 DEF JobTrue

LEMMA JobFetchesTrue ==
  ASSUME JobTrue, FilesFit, JobFetch
  PROVE  JobTrue'
<1>0. UNCHANGED <<files, lostTo>> /\ DOMAIN lostTo = {"job", "mac"} BY DEF JobFetch, jobOnly, JobTrue
<1>1. /\ DOMAIN job = JobFields /\ job.plan \subseteq Tile /\ job.victims \subseteq Tile
      /\ job.seen \in Nat /\ job.fetched \in Nat /\ job.next \in Nat /\ job.at = "fetch"
      /\ HaveThose(job.plan \intersect DOMAIN job.disk) /\ job.fetched < job.seen /\ (job.fetched + 1 = job.seen => HaveThose(Passed))
  BY DEF JobTrue, JobFetch
<1>2. CASE \E rate \in BOOLEAN : job' = Fails(job, rate)
  <2>1. /\ DOMAIN job' = JobFields /\ job'.plan = job.plan /\ job'.disk = job.disk /\ job'.victims = job.victims
        /\ job'.at = "walk" /\ job'.seen = job.seen /\ job'.fetched = job.fetched /\ job'.next = job.next + 1
    BY <1>1, <1>2 DEF Fails, JobFields
  <2>2. job.fetched <= job.seen /\ job.fetched # job.seen /\ job.next + 1 \in Nat BY <1>1
  <2>3. HaveThose(job.plan \intersect DOMAIN job.disk)' BY <1>0, <1>1, <2>1 DEF HaveThose
  <2> QED BY <1>0, <1>1, <2>1, <2>2, <2>3 DEF JobTrue
<1>3. CASE job' = [job EXCEPT !.at = "rename"]
  <2>1. /\ DOMAIN job' = JobFields /\ job'.plan = job.plan /\ job'.disk = job.disk /\ job'.victims = job.victims
        /\ job'.at = "rename" /\ job'.seen = job.seen /\ job'.fetched = job.fetched /\ job'.next = job.next
    BY <1>1, <1>3 DEF JobFields
  <2>2. HaveThose(job.plan \intersect DOMAIN job.disk)' /\ (HaveThose(Passed) => HaveThose(Passed)')
    BY <1>0, <1>1, <2>1 DEF HaveThose, Passed
  <2> QED BY <1>0, <1>1, <2>1, <2>2 DEF JobTrue
<1> QED BY <1>2, <1>3 DEF JobFetch

LEMMA JobRenamesTrue ==
  ASSUME JobTrue, FilesFit, JobRename
  PROVE  JobTrue'
<1>0. UNCHANGED lostTo /\ DOMAIN lostTo = {"job", "mac"} BY DEF JobRename, JobTrue
<1>1. /\ DOMAIN job = JobFields /\ job.plan \subseteq Tile /\ job.victims \subseteq Tile
      /\ job.seen \in Nat /\ job.fetched \in Nat /\ job.next \in Nat /\ job.at = "rename"
      /\ HaveThose(job.plan \intersect DOMAIN job.disk) /\ job.fetched < job.seen /\ (job.fetched + 1 = job.seen => HaveThose(Passed))
  BY DEF JobTrue, JobRename
<1>2. /\ DOMAIN job' = JobFields /\ job'.at = "walk" /\ job'.next = job.next + 1
      /\ job'.plan = job.plan /\ job'.disk = job.disk /\ job'.seen = job.seen /\ job'.victims = job.victims
      /\ job'.fetched = IF job.next = open.tile THEN job.fetched ELSE job.fetched + 1
  BY <1>1, RenameIs
<1>3. DOMAIN files \subseteq DOMAIN files' /\ (job.next # open.tile => job.next \in DOMAIN files')
  <2> DEFINE new == With(files, job.next, Content(job.next))
  <2>0. \A t, body : DOMAIN With(files, t, body) = DOMAIN files \union {t} BY WithHas
  <2>1. DOMAIN new = DOMAIN files \union {job.next} BY <2>0, Zenon
  <2> HIDE DEF new
  <2>2. files' = files \/ (files' = new /\ job.next # open.tile) BY DEF JobRename, new
  <2>3. job.next # open.tile => files' = new BY DEF JobRename, new
  <2> QED BY <2>1, <2>2, <2>3
<1>4. HaveThose(job.plan \intersect DOMAIN job.disk)' BY <1>0, <1>1, <1>2, <1>3 DEF HaveThose
<1>5. CASE job.next = open.tile
  <2>1. job.fetched <= job.seen /\ job.fetched # job.seen /\ job.next + 1 \in Nat BY <1>1
  <2> QED BY <1>0, <1>1, <1>2, <1>4, <1>5, <2>1 DEF JobTrue
<1>6. CASE job.next # open.tile
  <2>1. job.fetched + 1 <= job.seen /\ job.next + 1 \in Nat /\ job.fetched + 1 \in Nat BY <1>1
  <2>2. Passed' \subseteq Passed \union {job.next}
    <3>1. ASSUME NEW u \in Tile, u < job.next + 1 PROVE u < job.next \/ u = job.next BY <1>1, <3>1, TilesAre
    <3> QED BY <1>1, <1>2, <3>1 DEF Passed
  <2>3. HaveThose(Passed) => HaveThose(Passed)' BY <1>0, <1>3, <1>6, <2>2 DEF HaveThose
  <2> QED BY <1>0, <1>1, <1>2, <1>4, <1>6, <2>1, <2>3 DEF JobTrue
<1> QED BY <1>5, <1>6

LEMMA JobStays ==
  ASSUME TileInv, FilesFit, JobTrue, [TileNext]_tileVars
  PROVE  JobTrue'
<1>0. DOMAIN lostTo = {"job", "mac"} BY DEF JobTrue
<1>1. CASE HostLine
  <2>1. job' = job BY <1>1 DEF HostLine
  <2> QED BY <1>0, <1>1, <2>1, HostKeepsJob, JobSame
<1>2. CASE UNCHANGED <<files, job, lostTo>> BY <1>0, <1>2, JobSame
<1>3. CASE CutPower
  <2>1. job' = NoJob /\ lostTo' = lostTo BY <1>3 DEF CutPower
  <2> QED BY <1>0, <2>1 DEF JobTrue, NoJob, JobFields
<1>4. CASE JobStart
  <2>1. CASE recent BY <1>2, <1>4, <2>1 DEF JobStart
  <2>2. CASE ~recent
    <3>1. job' = [NoJob EXCEPT !.at = "list"] /\ DOMAIN lostTo' = {"job", "mac"} BY <1>0, <1>4, <2>2 DEF JobStart
    <3> QED BY <3>1 DEF JobTrue, NoJob, JobFields
  <2> QED BY <2>1, <2>2
<1>5. CASE Cancel
  <2>1. UNCHANGED <<files, lostTo>> /\ job' = [job EXCEPT !.cancel = TRUE] BY <1>5 DEF Cancel
  <2>2. DOMAIN job' = JobFields /\ \A f \in JobFields \ {"cancel"} : job'[f] = job[f] BY <2>1 DEF JobTrue, JobFields
  <2>3. job'.at = job.at /\ job'.plan = job.plan /\ job'.disk = job.disk /\ job'.victims = job.victims /\ job'.seen = job.seen
        /\ job'.fetched = job.fetched /\ job'.next = job.next /\ job'.left = job.left
    BY <2>2 DEF JobFields
  <2> QED BY <2>1, <2>2, <2>3 DEF JobTrue, HaveThose, Passed
<1>6. CASE Quiet \/ LoseTileLine BY <1>2, <1>6 DEF Quiet, LoseTileLine, tileBoard
<1>7. CASE MacStep
  <2>1. UNCHANGED <<files, job>> /\ DOMAIN lostTo' = {"job", "mac"} /\ lostTo'.job = lostTo.job BY <1>0, <1>7, MacLeaves, MacLoses
  <2> QED BY <2>1, JobSame
<1>8. CASE UNCHANGED tileVars BY <1>2, <1>8 DEF tileVars
<1> QED
  <2>1. \/ HostLine \/ CutPower \/ JobStart \/ Cancel \/ Quiet \/ LoseTileLine \/ MacStep \/ UNCHANGED tileVars
        \/ JobPlan \/ JobEvict \/ JobWalk \/ JobFetch \/ JobRename
    BY DEF TileNext, MacStep
  <2> QED BY <2>1, <1>1, <1>3, <1>4, <1>5, <1>6, <1>7, <1>8, JobPlansTrue, JobEvictsTrue, JobAt, JobFetchesTrue, JobRenamesTrue

-----------------------------------------------------------------------------
(* How the Mac goes on *)

Growth(m, t) == Chunks[t] - Size(m.disk, t)

LEMMA GrowsIs ==
  ASSUME NEW m, Disk(m.disk), NEW t \in Tile
  PROVE  Grows(m, t) = Chunks[t] - Size(m.disk, t) /\ Size(m.disk, t) \in 0 .. Chunks[t] /\ Grows(m, t) \in Nat /\ Chunks[t] \in Nat \ {0}
<1>1. Chunks[t] \in Nat \ {0} BY TilesAre
<1>2. Size(m.disk, t) \in 0 .. Chunks[t] BY <1>1 DEF Disk, Size
<1>3. Grows(m, t) = Chunks[t] - Size(m.disk, t) BY DEF Grows, Size
<1> QED BY <1>1, <1>2, <1>3

\* The Mac ends the sync, or begins the upload of t.
Finishes(m) ==
  /\ UNCHANGED toBoard
  /\ DOMAIN mac' = MacFields /\ mac'.state = "idle" /\ mac'.planned = FALSE /\ mac'.plan = m.plan /\ mac'.known = m.known
  /\ mac'.free = 0 /\ mac'.disk = <<>> /\ mac'.send = {} /\ mac'.delete = {}
  /\ mac'.done = IF m.send = {} THEN "all" ELSE "some"
Uploads(m, t) ==
  /\ t \in m.send /\ toBoard' = Append(toBoard, [cmd |-> "begin", tile |-> t, size |-> Chunks[t]])
  /\ DOMAIN mac' = MacFields /\ mac'.state = "awaitAck" /\ mac'.planned = FALSE /\ mac'.plan = m.plan /\ mac'.known = m.known
  /\ mac'.disk = m.disk /\ mac'.send = m.send \ {t} /\ mac'.cur = t /\ mac'.delete = m.delete /\ mac'.done = m.done
  /\ mac'.free = m.free - Grows(m, t)
  /\ m.known /\ Grows(m, t) > 0 => mac'.free >= KeepFree
Deletes(m, t) ==
  /\ t \in m.delete /\ toBoard' = Append(toBoard, [cmd |-> "rm", tile |-> t])
  /\ DOMAIN mac' = MacFields /\ mac'.state = "deleting" /\ mac'.planned = FALSE /\ mac'.plan = m.plan /\ mac'.known = m.known
  /\ mac'.disk = m.disk /\ mac'.send = m.send /\ mac'.delete = m.delete \ {t} /\ mac'.done = m.done /\ mac'.free = m.free

LEMMA FileMoves ==
  ASSUME NEW m, WorksWith(m), m.free \in Int, Disk(m.disk), NextFile(m)
  PROVE  Finishes(m) \/ \E t : Uploads(m, t)
<1> DEFINE t == LeastOf(m.send)
<1>1. CASE /\ UNCHANGED toBoard
           /\ mac' = [MacIdle EXCEPT !.plan = m.plan, !.known = m.known, !.sent = m.sent, !.done = IF m.send = {} THEN "all" ELSE "some"]
  BY <1>1 DEF Finishes, MacIdle, MacFields
<1>2. CASE /\ m.send # {} /\ ~(m.known /\ Grows(m, t) > 0 /\ m.free - Grows(m, t) < KeepFree)
           /\ mac' = [m EXCEPT !.state = "awaitAck", !.send = @ \ {t}, !.cur = t, !.seq = 0,
                               !.free = IF Grows(m, t) > 0 THEN @ - Grows(m, t) ELSE @]
           /\ AskBoard([cmd |-> "begin", tile |-> t, size |-> Chunks[t]])
  <2>1. m.send \subseteq Nat /\ m.send \subseteq Tile BY TilesAre DEF WorksWith
  <2>2. t \in m.send BY <2>1, <1>2, LeastIn
  <2>3. t \in Tile BY <2>1, <2>2
  <2> HIDE DEF t
  <2>4. Grows(m, t) \in Nat BY <2>3, GrowsIs
  <2>5. /\ DOMAIN mac' = MacFields /\ mac'.state = "awaitAck" /\ mac'.planned = FALSE /\ mac'.plan = m.plan /\ mac'.known = m.known
        /\ mac'.disk = m.disk /\ mac'.send = m.send \ {t} /\ mac'.cur = t /\ mac'.delete = m.delete /\ mac'.done = m.done
        /\ mac'.free = IF Grows(m, t) > 0 THEN m.free - Grows(m, t) ELSE m.free
    BY <1>2 DEF WorksWith, MacFields
  <2>6. mac'.free = m.free - Grows(m, t) BY <2>4, <2>5
  <2>7. KeepFree \in Nat BY TileAssumption
  <2>8. m.known /\ Grows(m, t) > 0 => mac'.free >= KeepFree BY <1>2, <2>4, <2>6, <2>7
  <2>9. Uploads(m, t) BY <1>2, <2>2, <2>5, <2>6, <2>8 DEF Uploads, AskBoard
  <2> QED BY <2>9
<1> QED BY <1>1, <1>2 DEF NextFile

LEMMA DeleteMoves ==
  ASSUME NEW m, WorksWith(m), m.free \in Int, Disk(m.disk), m.delete \subseteq Tile, NextDelete(m)
  PROVE  (m.delete = {} /\ (Finishes(m) \/ \E t : Uploads(m, t))) \/ \E t : Deletes(m, t)
<1> DEFINE t == MostOf(m.delete)
<1>1. CASE m.delete = {} BY <1>1, FileMoves DEF NextDelete
<1>2. CASE m.delete # {} /\ mac' = [m EXCEPT !.state = "deleting", !.delete = @ \ {t}] /\ AskBoard([cmd |-> "rm", tile |-> t])
  <2>1. t \in m.delete BY <1>2, MostIn
  <2> HIDE DEF t
  <2>2. Deletes(m, t) BY <1>2, <2>1 DEF Deletes, AskBoard, WorksWith, MacFields
  <2> QED BY <2>2
<1> QED BY <1>1, <1>2 DEF NextDelete

LEMMA DiskSum ==
  ASSUME NEW disk, Disk(disk), NEW S, S \subseteq DOMAIN disk
  PROVE  Sum(disk, S) \in Int /\ \A t \in Tile : Part(disk, S, t) \in Nat
<1>1. \A t \in Tile : Part(disk, S, t) \in Nat
  <2>1. ASSUME NEW t \in Tile PROVE Part(disk, S, t) \in Nat
    <3>1. Chunks[t] \in Nat BY TilesAre
    <3>2. t \in DOMAIN disk => disk[t] \in Nat BY <3>1 DEF Disk
    <3> QED BY <3>2 DEF Part
  <2> QED BY <2>1
<1>2. \A t \in Tile : Part(disk, S, t) \in Int /\ Part(disk, S, t) <= Part(disk, S, t) + (IF t = 0 THEN 0 ELSE 0) BY <1>1
<1>3. 0 \in Int /\ 0 >= 0 OBVIOUS
<1>4. Sum(disk, S) \in Int
  <2>1. \A t \in Tile : Part(disk, S, t) \in Int BY <1>1
  <2>2. PICK g : SumsTo(g, disk, S, Len(Chunks)) /\ Sum(disk, S) = g[Len(Chunks)] BY <2>1, SumIs
  <2>3. Len(Chunks) \in 0 .. Len(Chunks) BY TilesAre
  <2> QED BY <2>2, <2>3 DEF SumsTo
<1> QED BY <1>1, <1>4

\* What the Mac queues.
Queues(m, gone) ==
  /\ WorksWith(m) /\ m.free \in Int /\ m.disk = mac.disk /\ m.plan = mac.plan /\ m.known = mac.known /\ m.done = mac.done
  /\ m.send \subseteq Wanted(mac, mac.plan) /\ m.delete = gone /\ m.free = mac.free + Sum(mac.disk, gone)
  /\ gone \subseteq DOMAIN mac.disk \ mac.plan
  /\ DOMAIN lostTo = {"job", "mac"} => mac.plan \subseteq DOMAIN mac.disk \union lostTo'.mac \union m.send

LEMMA SendMoves ==
  ASSUME TileInv, MacSend, mac.free \in Int, Disk(mac.disk)
  PROVE  (mac' = Failed(mac) /\ UNCHANGED toBoard) \/ \E m, gone : Queues(m, gone) /\ NextDelete(m)
<1> DEFINE p == [mac EXCEPT !.planned = FALSE]
<1>1. DOMAIN p = MacFields /\ p.planned = FALSE /\ p.plan = mac.plan /\ p.send = mac.send /\ p.sent = mac.sent
      /\ p.disk = mac.disk /\ p.known = mac.known /\ p.free = mac.free /\ p.done = mac.done
  BY DEF TileInv, MacOK, MacFields
<1>2. PICK cached, readable :
        /\ cached \subseteq mac.plan /\ readable \subseteq cached
        /\ (mac' = Failed(mac) /\ UNCHANGED toBoard) \/ NextDelete(Queued(p, cached, readable))
        /\ lostTo' = [lostTo EXCEPT !.mac = @ \union (mac.plan \ (readable \union DOMAIN mac.disk))]
  BY DEF MacSend
<1> HIDE DEF p
<1> DEFINE w == Wanted(p, cached)  m == Queued(p, cached, readable)
<1>3. w \subseteq Wanted(mac, mac.plan) /\ cached \ w \subseteq DOMAIN mac.disk BY <1>1, <1>2 DEF Wanted
<1>4. PICK gone : /\ gone \subseteq DOMAIN mac.disk \ mac.plan
                  /\ m = [p EXCEPT !.send = w \intersect readable, !.delete = gone, !.free = @ + Sum(mac.disk, gone)]
  BY <1>1 DEF Queued, Victims
<1> HIDE DEF m, w
<1>5. DOMAIN m = MacFields /\ m.planned = FALSE /\ m.plan = mac.plan /\ m.disk = mac.disk /\ m.known = mac.known /\ m.done = mac.done
      /\ m.send = w \intersect readable /\ m.delete = gone /\ m.free = mac.free + Sum(mac.disk, gone)
  BY <1>1, <1>4 DEF MacFields
<1>6. Sum(mac.disk, gone) \in Int BY <1>4, DiskSum
<1>7. Wanted(mac, mac.plan) \subseteq mac.plan /\ mac.plan \subseteq Tile BY DEF Wanted, TileInv, MacOK
<1>8. WorksWith(m) BY <1>3, <1>5, <1>7 DEF WorksWith
<1>9. m.free \in Int BY <1>5, <1>6
<1>10. ASSUME DOMAIN lostTo = {"job", "mac"}, NEW t \in mac.plan, t \notin DOMAIN mac.disk, t \notin m.send PROVE t \in lostTo'.mac
  <2>1. lostTo'.mac = lostTo.mac \union (mac.plan \ (readable \union DOMAIN mac.disk)) BY <1>2, <1>10
  <2>2. t \notin readable BY <1>2, <1>3, <1>5, <1>10
  <2> QED BY <1>10, <2>1, <2>2
<1>11. Queues(m, gone) BY <1>3, <1>4, <1>5, <1>8, <1>9, <1>10 DEF Queues
<1> QED BY <1>2, <1>11 DEF m

-----------------------------------------------------------------------------
(* What the lines say *)

StatsTrue == \A i \in DOMAIN toMac : toMac[i].type = "stat" => toMac[i].free \in Int /\ (~ran => toMac[i].free <= Free)
ListsTrue == \A i \in DOMAIN toMac : toMac[i].type = "list" => Disk(toMac[i].disk)
QuietTrue == \A i \in DOMAIN toBoard : ~Asks(i) => toMac = <<>>
MacRight == mac.free \in Int /\ Disk(mac.disk) /\ (mac.state = "awaitStat" => ~mac.known)

LEMMA LinesAre == LinesTrue <=> (tmp # 0 => ran) /\ QuietTrue /\ StatsTrue /\ ListsTrue /\ MacRight
BY DEF LinesTrue, QuietTrue, StatsTrue, ListsTrue, MacRight

LEMMA NoDisk == Disk(<<>>) BY DEF Disk

LEMMA ListedIs ==
  ASSUME FilesFit
  PROVE  Disk(Listed) /\ DOMAIN Listed = DOMAIN files
<1>1. DOMAIN Listed = DOMAIN files /\ FileSet(files) BY DEF Listed, FilesFit
<1>2. ASSUME NEW t \in DOMAIN files PROVE t \in Tile /\ Listed[t] \in 0 .. Chunks[t]
  <2>1. t \in Tile /\ Len(files[t]) \in Nat /\ Len(files[t]) <= Chunks[t] /\ Chunks[t] \in Nat
    <3>1. t \in Tile /\ files[t] \in Seq(Elems(files[t])) /\ Len(files[t]) <= Chunks[t] BY <1>1 DEF FileSet
    <3> QED BY <3>1, TilesAre
  <2>2. CASE t = open.tile
    <3>1. IsOpen BY <2>1, <2>2, TilesAre DEF IsOpen
    <3>2. Len(open.before) \in Nat /\ Len(open.before) <= Chunks[t] BY <2>2, <3>1, FreeIs DEF FilesFit
    <3> QED BY <2>1, <2>2, <3>2 DEF Listed
  <2>3. CASE t # open.tile BY <2>1, <2>3 DEF Listed
  <2> QED BY <2>1, <2>2, <2>3
<1> QED BY <1>1, <1>2 DEF Disk

Moved(m) == Finishes(m) \/ (\E t : Uploads(m, t)) \/ (\E t : Deletes(m, t))

LEMMA MovedRight ==
  ASSUME NEW m, m.free \in Int, Disk(m.disk), m.send \subseteq Tile, Moved(m)
  PROVE  MacRight'
<1>1. CASE Finishes(m) BY <1>1, NoDisk DEF Finishes, MacRight
<1>2. CASE \E t : Uploads(m, t)
  <2>1. PICK t : Uploads(m, t) BY <1>2
  <2>2. t \in Tile BY <2>1 DEF Uploads
  <2>3. Grows(m, t) \in Nat BY <2>2, GrowsIs
  <2> QED BY <2>1, <2>3 DEF Uploads, MacRight
<1>3. CASE \E t : Deletes(m, t) BY <1>3 DEF Deletes, MacRight
<1> QED BY <1>1, <1>2, <1>3 DEF Moved

\* The step of the Mac, in the one form or the other.
LEMMA MacMoves ==
  ASSUME TileInv, MacRight, mac.delete \subseteq Tile, MacStep
  PROVE  \/ MacPlan
         \/ /\ MacSend /\ toBoard = <<>> /\ toMac = <<>> /\ mac.state = "idle"
            /\ \E m, gone : Queues(m, gone) /\ ((gone = {} /\ (Finishes(m) \/ \E t : Uploads(m, t))) \/ \E t : Deletes(m, t))
         \/ mac' = Failed(mac) /\ UNCHANGED toBoard
         \/ mac.state = "awaitStat" /\ toMac' = toMac /\ ListDevice(mac)
         \/ /\ MacHandle /\ 1 \in DOMAIN toMac /\ toMac' = Tail(toMac)
            /\ \/ toMac[1].type = "stat" /\ mac.state = "awaitStat" /\ ListDevice([mac EXCEPT !.known = TRUE, !.free = toMac[1].free])
               \/ toMac[1].type = "list" /\ mac.state = "awaitList" /\ MakePlan(mac, toMac[1].disk) /\ toBoard' = <<>> /\ toMac' = <<>>
               \/ toMac[1].type = "ack" /\ mac.state = "awaitAck" /\ toBoard = <<>> /\ toMac' = <<>> /\ NextChunk(mac)
               \/ /\ toMac[1].type = "ok" /\ mac.state = "deleting" /\ toBoard = <<>> /\ toMac' = <<>>
                  /\ (mac.delete = {} /\ (Finishes(mac) \/ \E t : Uploads(mac, t))) \/ \E t : Deletes(mac, t)
               \/ /\ toMac[1].type = "ok" /\ mac.state = "awaitOk" /\ toBoard = <<>> /\ toMac' = <<>>
                  /\ Finishes(Sent(mac)) \/ \E t : Uploads(Sent(mac), t)
               \/ UNCHANGED <<mac, toBoard>>
<1>1. mac.free \in Int /\ Disk(mac.disk) BY DEF MacRight
<1>2. mac.state # "idle" => WorksWith(mac) BY DEF TileInv, MacOK, InStep, AskedNothing, WorksWith
<1>3. CASE MacSend
  <2>1. toBoard = <<>> /\ toMac = <<>> /\ mac.state = "idle" BY <1>3, NothingOut DEF MacSend
  <2>a. CASE mac' = Failed(mac) /\ UNCHANGED toBoard BY <2>a
  <2>b. SUFFICES ASSUME ~(mac' = Failed(mac) /\ UNCHANGED toBoard) PROVE \E m, gone : Queues(m, gone) /\ ((gone = {} /\ (Finishes(m) \/ \E t : Uploads(m, t))) \/ \E t : Deletes(m, t))
    BY <1>3, <2>1, <2>a
  <2>2. PICK m, gone : Queues(m, gone) /\ NextDelete(m) BY <1>1, <1>3, <2>b, SendMoves
  <2>3. WorksWith(m) /\ m.free \in Int /\ Disk(m.disk) /\ m.delete = gone /\ m.delete \subseteq Tile
    BY <1>1, <2>2 DEF Queues, Disk
  <2>4. (m.delete = {} /\ (Finishes(m) \/ \E t : Uploads(m, t))) \/ \E t : Deletes(m, t) BY <2>2, <2>3, DeleteMoves
  <2>5. (gone = {} /\ (Finishes(m) \/ \E t : Uploads(m, t))) \/ \E t : Deletes(m, t) BY <2>3, <2>4
  <2>6. \E n, g : Queues(n, g) /\ ((g = {} /\ (Finishes(n) \/ \E t : Uploads(n, t))) \/ \E t : Deletes(n, t)) BY <2>2, <2>5, Zenon
  <2> QED BY <2>6
<1>4. CASE MacTimeout BY <1>4 DEF MacTimeout
<1>5. CASE MacHandle
  <2>1. 1 \in DOMAIN toMac /\ toMac' = Tail(toMac) BY <1>5, MacHandles
  <2>4. mac.state = "deleting" /\ NextDelete(mac) => (mac.delete = {} /\ (Finishes(mac) \/ \E t : Uploads(mac, t))) \/ \E t : Deletes(mac, t)
    <3> SUFFICES ASSUME mac.state = "deleting", NextDelete(mac) PROVE (mac.delete = {} /\ (Finishes(mac) \/ \E t : Uploads(mac, t))) \/ \E t : Deletes(mac, t) OBVIOUS
    <3>1. WorksWith(mac) BY <1>2
    <3> QED BY <1>1, <3>1, DeleteMoves
  <2>5. mac.state = "awaitOk" /\ NextFile(Sent(mac)) => Finishes(Sent(mac)) \/ \E t : Uploads(Sent(mac), t)
    <3> SUFFICES ASSUME mac.state = "awaitOk", NextFile(Sent(mac)) PROVE Finishes(Sent(mac)) \/ \E t : Uploads(Sent(mac), t) OBVIOUS
    <3> DEFINE m == Sent(mac)
    <3>1. WorksWith(m) /\ m.free = mac.free /\ m.disk = mac.disk BY <1>2 DEF WorksWith, MacFields, Sent
    <3>2. m.free \in Int /\ Disk(m.disk) /\ NextFile(m) BY <1>1, <3>1
    <3> HIDE DEF m
    <3>3. Finishes(m) \/ \E t : Uploads(m, t) BY <3>1, <3>2, FileMoves
    <3> QED BY <3>3 DEF m
  <2> QED BY <1>5, <2>1, <2>4, <2>5, MacHandles
<1> QED BY <1>3, <1>4, <1>5 DEF MacStep

LEMMA MacRights ==
  ASSUME TileInv, LinesTrue, mac.delete \subseteq Tile, MacStep
  PROVE  MacRight'
<1>1. MacRight /\ StatsTrue /\ ListsTrue BY LinesAre
<1>2. DOMAIN mac = MacFields /\ mac.send \subseteq Tile BY DEF TileInv, MacOK
<1>3. CASE MacPlan
  <2>1. mac'.free = 0 /\ mac'.disk = <<>> /\ mac'.known = FALSE BY <1>3 DEF MacPlan, MacIdle
  <2> QED BY <2>1, NoDisk DEF MacRight
<1>4. CASE mac' = Failed(mac)
  <2>1. mac'.free = 0 /\ mac'.disk = <<>> /\ mac'.known = FALSE BY <1>4 DEF Failed, MacIdle
  <2> QED BY <2>1, NoDisk DEF MacRight
<1>5. ASSUME NEW m, NEW gone, Queues(m, gone), Moved(m) PROVE MacRight'
  <2>1. m.free \in Int /\ m.disk = mac.disk /\ m.send \subseteq Tile BY <1>5 DEF Queues, WorksWith
  <2> QED BY <1>1, <1>5, <2>1, MovedRight DEF MacRight
<1>6. ASSUME Moved(mac) PROVE MacRight' BY <1>1, <1>2, <1>6, MovedRight DEF MacRight
<1>7. ASSUME Moved(Sent(mac)) PROVE MacRight'
  <2> DEFINE m == Sent(mac)
  <2>1. m.free = mac.free /\ m.disk = mac.disk /\ m.send = mac.send BY <1>2 DEF Sent, MacFields
  <2>2. Moved(m) BY <1>7
  <2> HIDE DEF m
  <2> QED BY <1>1, <1>2, <2>1, <2>2, MovedRight DEF MacRight
<1>8. CASE ListDevice(mac)
  <2>1. mac'.free = mac.free /\ mac'.disk = mac.disk /\ mac'.state = "awaitList" BY <1>2, <1>8 DEF ListDevice, MacFields
  <2> QED BY <1>1, <2>1 DEF MacRight
<1>9. CASE 1 \in DOMAIN toMac /\ toMac[1].type = "stat" /\ ListDevice([mac EXCEPT !.known = TRUE, !.free = toMac[1].free])
  <2>1. mac'.free = toMac[1].free /\ mac'.disk = mac.disk /\ mac'.state = "awaitList" BY <1>2, <1>9 DEF ListDevice, MacFields
  <2> QED BY <1>1, <1>9, <2>1 DEF MacRight, StatsTrue
<1>10. CASE 1 \in DOMAIN toMac /\ toMac[1].type = "list" /\ MakePlan(mac, toMac[1].disk)
  <2>1. mac'.free = mac.free /\ mac'.disk = toMac[1].disk /\ mac'.state = "idle" BY <1>2, <1>10 DEF MakePlan, MacFields
  <2> QED BY <1>1, <1>10, <2>1 DEF MacRight, ListsTrue
<1>11. CASE mac.state = "awaitAck" /\ NextChunk(mac)
  <2>1. mac'.free = mac.free /\ mac'.disk = mac.disk /\ mac'.state # "awaitStat" BY <1>2, <1>11 DEF NextChunk, MacFields
  <2> QED BY <1>1, <2>1 DEF MacRight
<1>12. CASE UNCHANGED mac BY <1>1, <1>12 DEF MacRight
<1> QED BY <1>1, <1>3, <1>4, <1>5, <1>6, <1>7, <1>8, <1>9, <1>10, <1>11, <1>12, MacMoves DEF Moved

\* What the board answers to a question.
LEMMA HostSays ==
  ASSUME TileInv, HostLine
  PROVE  /\ toBoard[1].cmd = "stat" => toMac' = Append(toMac, [type |-> "stat", free |-> Free]) /\ UNCHANGED <<files, open, lostTo>>
         /\ toBoard[1].cmd = "ls" => /\ toMac' = Append(toMac, [type |-> "list", disk |-> Listed]) /\ UNCHANGED <<files, open>>
                                     /\ lostTo' = [lostTo EXCEPT !.mac = {}]
<1> DEFINE l == toBoard[1]
<1>1. Head(toBoard) = l BY FirstLine
<1> HIDE DEF l
<1>2. l.cmd = "stat" => Stat BY <1>1 DEF HostLine
<1>3. l.cmd = "ls" => List BY <1>1 DEF HostLine
<1> QED BY <1>2, <1>3 DEF Stat, List, Say, l

LEMMA HostLinesTrue ==
  ASSUME TileInv, FilesFit, LinesTrue, HostLine
  PROVE  LinesTrue'
<1> DEFINE l == toBoard[1]  m == Len(toMac)
<1>1. (tmp # 0 => ran) /\ QuietTrue /\ StatsTrue /\ ListsTrue /\ MacRight BY LinesAre
<1>2. (tmp # 0 => ran)' /\ MacRight' /\ ran' = ran BY <1>1 DEF HostLine, MacRight
<1>3. /\ 1 \in DOMAIN toBoard /\ l.cmd \in {"stat", "ls", "begin", "data", "end", "rm"} BY FirstLine
<1>4. /\ m \in Nat /\ DOMAIN toMac = 1 .. m
      /\ \A i \in DOMAIN toBoard' : toBoard'[i] = toBoard[i + 1] /\ i + 1 \in DOMAIN toBoard /\ i + 1 # 1
      /\ \/ toMac' = toMac /\ l.cmd = "end"
         \/ /\ DOMAIN toMac' = 1 .. m + 1 /\ \A i \in DOMAIN toMac : toMac'[i] = toMac[i]
            /\ AnswerTo(toMac'[m + 1], l)
  <2>1. DOMAIN toBoard' = 1 .. Len(toBoard) - 1 /\ Len(toBoard) \in Nat BY HostLines
  <2>2. \A i \in DOMAIN toBoard' : i + 1 # 1 BY <2>1
  <2> QED BY <2>2, HostLines
<1>5. QuietTrue'
  <2>1. \A i \in DOMAIN toBoard' : Asks(i)' BY <1>4 DEF TileInv, EndRight, Asks
  <2> QED BY <2>1 DEF QuietTrue
<1>6. \A i \in DOMAIN toMac' : i \in DOMAIN toMac \/ i = m + 1 BY <1>4
<1>7. Free \in Int /\ (Free' >= Free \/ l.cmd = "data") BY FreeIs, HostFits
<1>8. Free' \in Int
  <2>1. FilesFit' BY HostFits
  <2>2. FileSet(files') /\ OpenFits' /\ tmp' \in Nat BY <2>1 DEF FilesFit, OpenFits
  <2> QED BY <2>2, FreeAfter
<1>9. l.cmd = "data" => toMac = <<>> BY <1>1, <1>3 DEF QuietTrue, Asks
<1>10. toMac \in Seq(Elems(toMac)) /\ Free \in Int BY FreeIs DEF TileInv, SerialOK
<1> HIDE DEF l, m
<1>11. \A i \in DOMAIN toMac : toMac[i].type = "stat" => toMac[i].free \in Int /\ (~ran => toMac[i].free <= Free')
  <2>1. CASE l.cmd = "data" BY <1>9, <2>1
  <2>2. CASE l.cmd # "data"
    <3>1. ASSUME NEW f \in Int, f <= Free PROVE f <= Free' BY <1>7, <1>8, <2>2, <3>1
    <3> QED BY <1>1, <3>1 DEF StatsTrue
  <2> QED BY <2>1, <2>2
<1>12. CASE toMac' = toMac
  <2>1. StatsTrue' BY <1>2, <1>11, <1>12 DEF StatsTrue
  <2>2. ListsTrue' BY <1>1, <1>12 DEF ListsTrue, Disk
  <2>3. LinesTrue' BY <1>2, <1>5, <2>1, <2>2 DEF LinesTrue, QuietTrue, StatsTrue, ListsTrue, MacRight
  <2> QED BY <2>3
<1>13. CASE toMac' # toMac
  <2>1. DOMAIN toMac' = 1 .. m + 1 /\ (\A i \in DOMAIN toMac : toMac'[i] = toMac[i]) /\ AnswerTo(toMac'[m + 1], l) BY <1>4, <1>13
  <2>2. m + 1 \in Nat /\ m = Len(toMac) BY <1>4 DEF m
  <2>3. l.cmd = "stat" => toMac'[m + 1].free = Free /\ Free' = Free
    <3> SUFFICES ASSUME l.cmd = "stat" PROVE toMac'[m + 1].free = Free /\ Free' = Free OBVIOUS
    <3> DEFINE e == [type |-> "stat", free |-> Free]
    <3>1. toMac' = Append(toMac, e) /\ UNCHANGED <<files, open, tmp>> BY HostSays DEF l, HostLine
    <3>2. e.free = Free OBVIOUS
    <3> HIDE DEF e
    <3>3. toMac'[m + 1] = e BY <1>10, <2>2, <3>1, LineAppended
    <3>4. Free' = Free BY <3>1 DEF Free, Used
    <3> QED BY <3>2, <3>3, <3>4
  <2>4. l.cmd = "ls" => toMac'[m + 1].disk = Listed
    <3> SUFFICES ASSUME l.cmd = "ls" PROVE toMac'[m + 1].disk = Listed OBVIOUS
    <3> DEFINE e == [type |-> "list", disk |-> Listed]
    <3>1. toMac' = Append(toMac, e) BY HostSays DEF l
    <3>2. e.disk = Listed OBVIOUS
    <3> HIDE DEF e
    <3>3. toMac'[m + 1] = e BY <1>10, <2>2, <3>1, LineAppended
    <3> QED BY <3>2, <3>3
  <2>5. toMac'[m + 1].type = "stat" => l.cmd = "stat" BY <1>3, <2>1 DEF AnswerTo, l
  <2>6. toMac'[m + 1].type = "list" => l.cmd = "ls" BY <1>3, <2>1 DEF AnswerTo, l
  <2>7. StatsTrue'
    <3>1. ASSUME NEW i \in DOMAIN toMac', toMac'[i].type = "stat" PROVE toMac'[i].free \in Int /\ (~ran => toMac'[i].free <= Free')
      <4>1. CASE i \in DOMAIN toMac BY <1>11, <2>1, <3>1, <4>1
      <4>2. CASE i = m + 1 BY <1>8, <2>3, <2>5, <3>1, <4>2
      <4> QED BY <1>6, <4>1, <4>2
    <3> QED BY <1>2, <3>1 DEF StatsTrue
  <2>8. ListsTrue'
    <3>1. Disk(Listed) BY ListedIs
    <3> HIDE DEF Disk
    <3>2. ASSUME NEW i \in DOMAIN toMac', toMac'[i].type = "list" PROVE Disk(toMac'[i].disk)
      <4>1. CASE i \in DOMAIN toMac BY <1>1, <2>1, <3>2, <4>1 DEF ListsTrue
      <4>2. CASE i = m + 1 BY <2>4, <2>6, <3>1, <3>2, <4>2
      <4> QED BY <1>6, <4>1, <4>2
    <3> QED BY <3>2 DEF ListsTrue, Disk
  <2> QED BY <1>2, <1>5, <2>7, <2>8 DEF LinesTrue, QuietTrue, StatsTrue, ListsTrue, MacRight
<1> QED BY <1>12, <1>13

\* Fewer answers are out, and the free space has not shrunk but for the job.
LEMMA AnswersStay ==
  ASSUME FilesFit, FilesFit', StatsTrue, ListsTrue, Free' >= Free \/ ran', ~ran' => ~ran \/ toMac' = <<>>,
         \A i \in DOMAIN toMac' : \E j \in DOMAIN toMac : toMac'[i] = toMac[j]
  PROVE  StatsTrue' /\ ListsTrue'
<1>1. Free \in Int /\ Free' \in Int
  <2>1. FileSet(files') /\ OpenFits' /\ tmp' \in Nat BY DEF FilesFit, OpenFits
  <2> QED BY <2>1, FreeAfter, FreeIs
<1>2. ListsTrue'
  <2> HIDE DEF Disk
  <2>1. \A i \in DOMAIN toMac' : toMac'[i].type = "list" => Disk(toMac'[i].disk) BY DEF ListsTrue
  <2> QED BY <2>1 DEF ListsTrue, Disk
<1>3. ASSUME NEW i \in DOMAIN toMac', toMac'[i].type = "stat" PROVE toMac'[i].free \in Int /\ (~ran' => toMac'[i].free <= Free')
  <2>1. PICK j \in DOMAIN toMac : toMac'[i] = toMac[j] OBVIOUS
  <2>2. toMac[j].free \in Int /\ (~ran => toMac[j].free <= Free) BY <1>3, <2>1 DEF StatsTrue
  <2>3. ~ran' => ~ran
    <3>1. toMac' # <<>> BY <1>3
    <3> QED BY <3>1
  <2> DEFINE f == toMac[j].free  g == Free  h == Free'
  <2>4. f \in Int /\ g \in Int /\ h \in Int /\ (~ran => f <= g) /\ (h >= g \/ ran') BY <1>1, <2>2
  <2> HIDE DEF f, g, h
  <2>5. f \in Int /\ (~ran' => f <= h) BY <2>3, <2>4
  <2> QED BY <2>1, <2>5 DEF f, h
<1> QED BY <1>2, <1>3 DEF StatsTrue

LEMMA JobLinesTrue ==
  ASSUME FilesFit, FilesFit', LinesTrue, JobStep, Free' >= Free \/ ran'
  PROVE  LinesTrue'
<1>1. (tmp # 0 => ran) /\ QuietTrue /\ StatsTrue /\ ListsTrue /\ MacRight BY LinesAre
<1>2. UNCHANGED <<toBoard, toMac, mac>>
  BY DEF JobStep, Quiet, JobStart, Cancel, JobPlan, JobEvict, JobWalk, JobFetch, JobRename, jobOnly
<1>3. QuietTrue' /\ MacRight' BY <1>1, <1>2 DEF QuietTrue, Asks, MacRight, Disk
<1>4. (tmp' # 0 => ran') /\ (~ran' => ~ran)
  <2>1. CASE JobFetch BY <1>1, <2>1 DEF JobFetch
  <2>2. CASE ~JobFetch BY <1>1, <2>2 DEF JobStep, Quiet, JobStart, Cancel, JobPlan, JobEvict, JobWalk, JobRename, jobOnly
  <2> QED BY <2>1, <2>2
<1>5. \A i \in DOMAIN toMac' : \E j \in DOMAIN toMac : toMac'[i] = toMac[j] BY <1>2
<1>6. StatsTrue' /\ ListsTrue' BY <1>1, <1>4, <1>5, AnswersStay
<1> QED BY <1>3, <1>4, <1>6 DEF LinesTrue, QuietTrue, StatsTrue, ListsTrue, MacRight

LEMMA PowerLinesTrue ==
  ASSUME LinesTrue, CutPower
  PROVE  LinesTrue'
<1>1. toBoard' = <<>> /\ toMac' = <<>> /\ UNCHANGED <<tmp, mac, ran>> BY DEF CutPower
<1>2. MacRight' BY <1>1 DEF LinesTrue, MacRight, Disk
<1> QED BY <1>1, <1>2 DEF LinesTrue, MacRight

\* The lines after the first.
LEMMA TailIs ==
  ASSUME NEW s, s \in Seq(Elems(s)), s # <<>>
  PROVE  \A i \in DOMAIN Tail(s) : Tail(s)[i] = s[i + 1] /\ i + 1 \in DOMAIN s /\ i + 1 # 1
<1>1. DOMAIN Tail(s) = 1 .. Len(s) - 1 /\ Len(s) \in Nat BY LineTaken
<1>2. \A i \in DOMAIN Tail(s) : i + 1 # 1 BY <1>1
<1> QED BY <1>2, LineTaken

LEMMA LoseLinesTrue ==
  ASSUME TileInv, FilesFit, FilesFit', LinesTrue, LoseTileLine, Free' = Free
  PROVE  LinesTrue'
<1>1. (tmp # 0 => ran) /\ QuietTrue /\ StatsTrue /\ ListsTrue /\ MacRight BY LinesAre
<1>2. UNCHANGED <<tmp, mac, ran>> BY DEF LoseTileLine, tileBoard
<1>3. toBoard \in Seq(Elems(toBoard)) /\ toMac \in Seq(Elems(toMac)) BY DEF TileInv, SerialOK
<1>4. MacRight' BY <1>1, <1>2 DEF MacRight, Disk
<1>5. QuietTrue'
  <2>1. CASE toBoard # <<>> /\ toBoard' = Tail(toBoard)
    <3>1. \A i \in DOMAIN toBoard' : Asks(i)' BY <1>3, <2>1, TailIs DEF TileInv, EndRight, Asks
    <3> QED BY <3>1 DEF QuietTrue
  <2>2. CASE toMac # <<>> /\ toBoard' = toBoard BY <1>1, <2>2 DEF QuietTrue, Asks
  <2>3. ASSUME toBoard # <<>>, Head(toBoard).cmd = "data", toMac' = toMac PROVE QuietTrue'
    <3>1. 1 \in DOMAIN toBoard /\ toBoard[1].cmd = "data" BY <1>3, <2>3, LineTaken
    <3> QED BY <1>1, <2>3, <3>1 DEF QuietTrue, Asks
  <2> QED BY <2>1, <2>2, <2>3 DEF LoseTileLine
<1>6. \A i \in DOMAIN toMac' : \E j \in DOMAIN toMac : toMac'[i] = toMac[j]
  <2>1. CASE toMac' = toMac BY <2>1
  <2>2. CASE toMac # <<>> /\ toMac' = Tail(toMac) BY <1>3, <2>2, TailIs
  <2> QED BY <2>1, <2>2 DEF LoseTileLine
<1>7. Free' >= Free BY FreeIs
<1>8. StatsTrue' /\ ListsTrue' BY <1>1, <1>2, <1>6, <1>7, AnswersStay
<1> QED BY <1>1, <1>2, <1>4, <1>5, <1>8 DEF LinesTrue, QuietTrue, StatsTrue, ListsTrue, MacRight

LEMMA MacLinesTrue ==
  ASSUME TileInv, FilesFit, FilesFit', LinesTrue, mac.delete \subseteq Tile, MacStep, Free' = Free
  PROVE  LinesTrue'
<1>1. (tmp # 0 => ran) /\ QuietTrue /\ StatsTrue /\ ListsTrue /\ MacRight BY LinesAre
<1>2. MacRight' BY MacRights
<1>3. UNCHANGED tmp BY MacLeaves
<1>4. toBoard \in Seq(Elems(toBoard)) /\ toMac \in Seq(Elems(toMac)) BY DEF TileInv, SerialOK
<1>5. (tmp' # 0 => ran') /\ (~ran' => ~ran \/ toMac' = <<>>)
  <2>1. CASE MacPlan BY <1>3, <2>1 DEF MacPlan
  <2>2. CASE ~MacPlan BY <1>1, <1>3, <2>2 DEF MacStep, MacSend, MacHandle, MacTimeout
  <2> QED BY <2>1, <2>2
<1>6. \A i \in DOMAIN toMac' : \E j \in DOMAIN toMac : toMac'[i] = toMac[j]
  <2>1. CASE toMac' = toMac BY <2>1
  <2>2. CASE toMac # <<>> /\ toMac' = Tail(toMac) BY <1>4, <2>2, TailIs
  <2> QED BY <2>1, <2>2 DEF MacStep, MacPlan, MacSend, MacHandle, MacTimeout
<1>7. Free' >= Free BY FreeIs
<1>8. StatsTrue' /\ ListsTrue' BY <1>1, <1>5, <1>6, <1>7, AnswersStay
<1>9. QuietTrue'
  <2>1. toMac = <<>> => toMac' = <<>> BY DEF MacStep, MacPlan, MacSend, MacHandle, MacTimeout
  <2>2. CASE UNCHANGED toBoard BY <1>1, <2>1, <2>2 DEF QuietTrue, Asks
  <2>3. ASSUME NEW line, toBoard' = Append(toBoard, line), line.cmd \in {"stat", "ls"} \/ toMac' = <<>> PROVE QuietTrue'
    <3> DEFINE s == Append(toBoard, line)
    <3>1. DOMAIN s = 1 .. Len(toBoard) + 1 /\ DOMAIN toBoard = 1 .. Len(toBoard) /\ (\A i \in DOMAIN toBoard : s[i] = toBoard[i])
          /\ s[Len(toBoard) + 1] = line /\ Len(toBoard) \in Nat
      BY <1>4, LineAppended
    <3>2. toBoard' = s BY <2>3
    <3> HIDE DEF s
    <3>3. \A i \in DOMAIN s : i = Len(toBoard) + 1 \/ i \in DOMAIN toBoard BY <3>1
    <3> QED BY <1>1, <2>1, <2>3, <3>1, <3>2, <3>3 DEF QuietTrue, Asks
  <2> QED BY <2>2, <2>3, MacSays
<1> QED BY <1>2, <1>5, <1>8, <1>9 DEF LinesTrue, QuietTrue, StatsTrue, ListsTrue, MacRight

-----------------------------------------------------------------------------
(* The form of a sync *)

LEMMA WantsLack ==
  ASSUME Disk(mac.disk), mac.plan \subseteq Tile
  PROVE  Lacking(mac.disk, Wanted(mac, mac.plan)) /\ Wanted(mac, mac.plan) \subseteq mac.plan
<1>1. ASSUME NEW t \in Wanted(mac, mac.plan) PROVE t \in Tile /\ Size(mac.disk, t) < Chunks[t]
  <2>1. t \in Tile /\ (t \notin DOMAIN mac.disk \/ mac.disk[t] # Chunks[t]) BY DEF Wanted
  <2>2. Chunks[t] \in Nat \ {0} BY <2>1, TilesAre
  <2>3. t \in DOMAIN mac.disk => mac.disk[t] \in 0 .. Chunks[t] BY DEF Disk
  <2> QED BY <2>1, <2>2, <2>3 DEF Size
<1> QED BY <1>1 DEF Lacking, Wanted

LEMMA MovedForm ==
  ASSUME NEW m, Moved(m), toBoard = <<>>, m.send \subseteq m.plan, m.delete \subseteq Tile, Lacking(m.disk, m.send),
         (m.delete = {} /\ (Finishes(m) \/ \E t : Uploads(m, t))) \/ \E t : Deletes(m, t)
  PROVE  SyncForm'
<1>1. CASE Finishes(m)
  BY <1>1 DEF Finishes, SyncForm, Working
<1>2. CASE m.delete = {} /\ \E t : Uploads(m, t)
  <2>1. PICK t : Uploads(m, t) BY <1>2
  <2>2. mac'.state = "awaitAck" /\ mac'.plan = m.plan /\ mac'.disk = m.disk /\ mac'.send = m.send \ {t} /\ mac'.cur = t /\ mac'.delete = {} /\ t \in m.send
    BY <1>2, <2>1 DEF Uploads
  <2>3. Uploading' = {t} BY <2>2 DEF Uploading
  <2>4. (mac'.send \union Uploading') = m.send BY <2>2, <2>3
  <2>5. Lacking(mac.disk, mac.send \union Uploading)' BY <2>2, <2>4 DEF Lacking, Size
  <2> QED BY <2>2, <2>5 DEF SyncForm, Working
<1>3. CASE \E t : Deletes(m, t)
  <2>1. PICK t : Deletes(m, t) BY <1>3
  <2>2. mac'.state = "deleting" /\ mac'.plan = m.plan /\ mac'.disk = m.disk /\ mac'.send = m.send /\ mac'.delete \subseteq Tile
    BY <2>1 DEF Deletes
  <2>3. Uploading' = {} BY <2>2 DEF Uploading
  <2>4. Lacking(mac.disk, mac.send \union Uploading)' BY <2>2, <2>3 DEF Lacking, Size
  <2> DEFINE l == [cmd |-> "rm", tile |-> t]
  <2>5. toBoard' = <<l>> /\ l.cmd = "rm" BY <2>1 DEF Deletes
  <2> HIDE DEF l
  <2>6. \A i \in DOMAIN toBoard' : toBoard'[i].cmd = "rm" BY <2>5
  <2> QED BY <2>2, <2>4, <2>6 DEF SyncForm, Working
<1> QED BY <1>1, <1>2, <1>3

LEMMA MacForms ==
  ASSUME TileInv, LinesTrue, SyncForm, MacStep
  PROVE  SyncForm'
<1>1. MacRight /\ DOMAIN mac = MacFields /\ mac.plan \subseteq Tile /\ mac.delete \subseteq Tile /\ mac.send \subseteq mac.plan
  BY LinesAre DEF TileInv, MacOK, SyncForm
<1>2. CASE MacPlan \/ mac' = Failed(mac)
  <2>1. mac'.state \in {"idle", "awaitStat"} /\ mac'.send = {} /\ mac'.delete = {} BY <1>2 DEF MacPlan, Failed, MacIdle
  <2> QED BY <2>1 DEF SyncForm, Working
<1>3. ASSUME NEW m, NEW gone, toBoard = <<>>, Queues(m, gone), (gone = {} /\ (Finishes(m) \/ \E t : Uploads(m, t))) \/ \E t : Deletes(m, t)
      PROVE  SyncForm'
  <2>1. m.disk = mac.disk /\ m.plan = mac.plan /\ m.send \subseteq Wanted(mac, mac.plan) /\ m.delete = gone /\ gone \subseteq DOMAIN mac.disk
    BY <1>3 DEF Queues
  <2>2. Moved(m) BY <1>3 DEF Moved
  <2>3. Lacking(m.disk, m.send) /\ m.send \subseteq m.plan BY <1>1, <2>1, WantsLack DEF MacRight, Lacking
  <2>4. m.delete \subseteq Tile BY <1>1, <2>1 DEF MacRight, Disk
  <2> QED BY <1>3, <2>1, <2>2, <2>3, <2>4, MovedForm
<1>4. CASE mac.state = "deleting" /\ toBoard = <<>> /\ ((mac.delete = {} /\ (Finishes(mac) \/ \E t : Uploads(mac, t))) \/ \E t : Deletes(mac, t))
  <2>1. Lacking(mac.disk, mac.send) BY <1>4 DEF SyncForm, Working, Lacking
  <2>2. Moved(mac) BY <1>4 DEF Moved
  <2> QED BY <1>1, <1>4, <2>1, <2>2, MovedForm
<1>5. CASE mac.state = "awaitOk" /\ toBoard = <<>> /\ (Finishes(Sent(mac)) \/ \E t : Uploads(Sent(mac), t))
  <2> DEFINE m == Sent(mac)
  <2>1. m.disk = mac.disk /\ m.plan = mac.plan /\ m.send = mac.send /\ m.delete = mac.delete BY <1>1 DEF Sent, MacFields
  <2>2. Finishes(m) \/ \E t : Uploads(m, t) BY <1>5
  <2> HIDE DEF m
  <2>3. m.delete = {} /\ Lacking(m.disk, m.send) BY <1>5, <2>1 DEF SyncForm, Working, Lacking
  <2>4. Moved(m) BY <2>2 DEF Moved
  <2> QED BY <1>1, <1>5, <2>1, <2>2, <2>3, <2>4, MovedForm
<1>6. ASSUME NEW m, m.send = {} /\ m.delete = {} /\ DOMAIN m = MacFields, ListDevice(m) PROVE SyncForm'
  <2>1. mac'.state = "awaitList" /\ mac'.send = {} /\ mac'.delete = {} BY <1>6 DEF ListDevice, MacFields
  <2> QED BY <2>1 DEF SyncForm, Working
<1>7. CASE mac.state = "awaitStat" /\ ListDevice(mac)
  <2>1. mac.send = {} /\ mac.delete = {} BY <1>7 DEF SyncForm, Working
  <2> QED BY <1>1, <1>6, <1>7, <2>1
<1>8. CASE mac.state = "awaitStat" /\ ListDevice([mac EXCEPT !.known = TRUE, !.free = toMac[1].free])
  <2> DEFINE m == [mac EXCEPT !.known = TRUE, !.free = toMac[1].free]
  <2>1. mac.send = {} /\ mac.delete = {} BY <1>8 DEF SyncForm, Working
  <2>2. m.send = {} /\ m.delete = {} /\ DOMAIN m = MacFields BY <1>1, <2>1 DEF MacFields
  <2>3. ListDevice(m) BY <1>8
  <2> HIDE DEF m
  <2> QED BY <1>6, <2>2, <2>3
<1>9. CASE mac.state = "awaitList" /\ MakePlan(mac, toMac[1].disk)
  <2>1. mac'.state = "idle" /\ mac'.send = {} /\ mac'.delete = {} BY <1>1, <1>9 DEF MakePlan, MacFields, SyncForm, Working
  <2> QED BY <2>1 DEF SyncForm, Working
<1>10. CASE mac.state = "awaitAck" /\ NextChunk(mac)
  <2>1. /\ mac'.state \in {"awaitAck", "awaitOk"} /\ mac'.send = mac.send /\ mac'.delete = mac.delete /\ mac'.plan = mac.plan
        /\ mac'.disk = mac.disk /\ mac'.cur = mac.cur
    BY <1>1, <1>10 DEF NextChunk, MacFields
  <2>2. Uploading' = Uploading BY <1>10, <2>1 DEF Uploading
  <2> QED BY <1>1, <1>10, <2>1, <2>2 DEF SyncForm, Working, Lacking, Size
<1>11. CASE UNCHANGED <<mac, toBoard>> BY <1>11 DEF SyncForm, Working, Lacking, Size, Uploading
<1> QED BY <1>1, <1>2, <1>3, <1>4, <1>5, <1>7, <1>8, <1>9, <1>10, <1>11, MacMoves

LEMMA FormStays ==
  ASSUME TileInv, SyncForm, mac' = mac, \A i \in DOMAIN toBoard' : \E j \in DOMAIN toBoard : toBoard'[i].cmd = toBoard[j].cmd
  PROVE  SyncForm'
BY DEF SyncForm, Working, Lacking, Size, Uploading

LEMMA SyncsInForm ==
  ASSUME TileInv, LinesTrue, SyncForm, [TileNext]_tileVars
  PROVE  SyncForm'
<1>1. toBoard \in Seq(Elems(toBoard)) BY DEF TileInv, SerialOK
<1>2. CASE HostLine
  <2>1. \A i \in DOMAIN toBoard' : toBoard'[i] = toBoard[i + 1] /\ i + 1 \in DOMAIN toBoard BY <1>2, HostLines
  <2>2. mac' = mac BY <1>2 DEF HostLine
  <2> QED BY <2>1, <2>2, FormStays
<1>3. CASE UNCHANGED <<mac, toBoard>> BY <1>3, FormStays
<1>4. CASE JobStep BY <1>3, <1>4 DEF JobStep, Quiet, JobStart, Cancel, JobPlan, JobEvict, JobWalk, JobFetch, JobRename, jobOnly
<1>5. CASE CutPower BY <1>5, FormStays DEF CutPower
<1>6. CASE LoseTileLine
  <2>1. mac' = mac BY <1>6 DEF LoseTileLine
  <2>2. CASE toBoard # <<>> /\ toBoard' = Tail(toBoard) BY <1>1, <2>1, <2>2, TailIs, FormStays
  <2>3. CASE UNCHANGED toBoard BY <1>3, <2>1, <2>3
  <2>4. ASSUME toBoard # <<>>, Head(toBoard).cmd = "data", NEW e, e.cmd = "data", toBoard' = <<e>> \o Tail(toBoard) PROVE SyncForm'
    <3> DEFINE s == <<e>> \o Tail(toBoard)
    <3>1. DOMAIN s = DOMAIN toBoard /\ s[1] = e /\ \A i \in DOMAIN toBoard : i # 1 => s[i] = toBoard[i] BY <1>1, <2>4, LineReplaced
    <3>2. toBoard' = s /\ Head(toBoard) = toBoard[1] BY <1>1, <2>4, LineTaken
    <3> HIDE DEF s
    <3>3. \A i \in DOMAIN toBoard' : toBoard'[i].cmd = toBoard[i].cmd BY <2>4, <3>1, <3>2
    <3> QED BY <2>1, <3>1, <3>2, <3>3, FormStays
  <2> QED BY <1>6, <2>2, <2>3, <2>4 DEF LoseTileLine
<1>7. CASE MacStep BY <1>7, MacForms
<1>8. CASE UNCHANGED tileVars BY <1>3, <1>8 DEF tileVars
<1> QED BY <1>2, <1>4, <1>5, <1>6, <1>7, <1>8 DEF TileNext, MacStep, JobStep

-----------------------------------------------------------------------------
(* Room *)

\* A total that is no greater than another one that is, tile by tile, but for d at one.
LEMMA TotalAtMost ==
  ASSUME NEW v, NEW w, NEW one, NEW d \in Int, d >= 0 \/ one \in Tile,
         \A t \in Tile : v[t] \in Int /\ w[t] \in Int,
         \A t \in Tile : v[t] <= w[t] + (IF t = one THEN d ELSE 0)
  PROVE  Total(v) \in Int /\ Total(w) \in Int /\ Total(v) <= Total(w) + d
<1>1. \A t \in Tile : Part(v, Tile, t) = v[t] /\ Part(w, Tile, t) = w[t] BY DEF Part
<1>2. \A t \in Tile : Part(v, Tile, t) \in Int /\ Part(w, Tile, t) \in Int BY <1>1
<1>3. \A t \in Tile : Part(v, Tile, t) <= Part(w, Tile, t) + (IF t = one THEN d ELSE 0) BY <1>1
<1>4. Sum(v, Tile) \in Int /\ Sum(w, Tile) \in Int /\ Sum(v, Tile) <= Sum(w, Tile) + d BY <1>2, <1>3, SumAtMost
<1> QED BY <1>4 DEF Total

LEMMA TotalNoMore ==
  ASSUME NEW v, NEW w, \A t \in Tile : v[t] \in Int /\ w[t] \in Int, \A t \in Tile : v[t] <= w[t]
  PROVE  Total(v) \in Int /\ Total(w) \in Int /\ Total(v) <= Total(w)
<1>1. 0 \in Int /\ (0 >= 0 \/ NoTile \in Tile) OBVIOUS
<1>2. \A t \in Tile : v[t] <= w[t] + (IF t = NoTile THEN 0 ELSE 0) OBVIOUS
<1>3. Total(v) \in Int /\ Total(w) \in Int /\ Total(v) <= Total(w) + 0 BY <1>1, <1>2, TotalAtMost
<1> QED BY <1>3

LEMMA GreaterIs ==
  ASSUME NEW a \in Nat, NEW b \in Nat
  PROVE  Greater(a, b) \in Nat /\ Greater(a, b) >= a /\ Greater(a, b) >= b /\ (\A c \in Nat : a <= c /\ b <= c => Greater(a, b) <= c)
BY DEF Greater

LEMMA GreaterNoMore ==
  ASSUME NEW a \in Nat, NEW b \in Nat, NEW c \in Nat, b <= c
  PROVE  Greater(a, b) \in Nat /\ Greater(a, c) \in Nat /\ Greater(a, b) <= Greater(a, c)
BY DEF Greater

LEMMA HoldingIs ==
  ASSUME FilesFit
  PROVE  \A t \in Tile : /\ Had(files, t) \in Nat /\ Had(files, t) <= Chunks[t]
                         /\ Holding(t) \in Nat /\ Stays(t) \in Nat /\ Stays(t) <= Holding(t) /\ Stays(t) <= Had(files, t) /\ Had(files, t) <= Holding(t)
<1> SUFFICES ASSUME NEW t \in Tile
             PROVE  /\ Had(files, t) \in Nat /\ Had(files, t) <= Chunks[t]
                    /\ Holding(t) \in Nat /\ Stays(t) \in Nat /\ Stays(t) <= Holding(t) /\ Stays(t) <= Had(files, t) /\ Had(files, t) <= Holding(t)
  OBVIOUS
<1>1. Had(files, t) \in Nat /\ Had(files, t) <= Chunks[t] BY HadIs DEF FilesFit
<1>2. Len(open.before) \in Nat BY FreeIs
<1> DEFINE h == Had(files, t)  k == Len(open.before)
<1>3. Holding(t) = h + (IF t = open.tile THEN k ELSE 0) /\ Stays(t) = (IF t \in Stale THEN 0 ELSE h) BY DEF Holding, Stays
<1> HIDE DEF h, k
<1>4. h \in Nat /\ k \in Nat BY <1>1, <1>2 DEF h, k
<1>5. Holding(t) \in Nat /\ Stays(t) \in Nat /\ Stays(t) <= Holding(t) /\ Stays(t) <= h /\ h <= Holding(t) BY <1>3, <1>4
<1> QED BY <1>1, <1>5 DEF h

LEMMA SizeIs ==
  ASSUME NEW disk, Disk(disk)
  PROVE  \A t \in Tile : Size(disk, t) \in Nat /\ Size(disk, t) <= Chunks[t]
<1>1. \A t \in Tile : Chunks[t] \in Nat BY TilesAre
<1> QED BY <1>1 DEF Disk, Size

\* What the files and what they replace take.
LEMMA HoldingFits ==
  ASSUME FilesFit
  PROVE  Total([t \in Tile |-> Holding(t)]) \in Int /\ Free + Total([t \in Tile |-> Holding(t)]) <= Blocks
<1> DEFINE v == [t \in Tile |-> Holding(t)]  g == [t \in DOMAIN files |-> Len(files[t])]  T == DOMAIN files
           one == open.tile  d == IF open.tile \in Tile THEN Len(open.before) ELSE 0
<1>1. \A t \in Tile : Part(g, T, t) = Had(files, t) /\ Had(files, t) \in Nat BY HadIs DEF FilesFit
<1>2. Used(files) = Sum(g, T) BY DEF Used
<1>3. Len(open.before) \in Nat /\ d \in Int /\ d <= Len(open.before) /\ d >= 0 BY FreeIs
<1>4. \A t \in Tile : Part(v, Tile, t) = Holding(t) /\ Holding(t) = Had(files, t) + (IF t = one THEN d ELSE 0)
  BY DEF Part, Holding
<1> HIDE DEF v, g, T, d
<1>5. \A t \in Tile : Part(v, Tile, t) \in Int /\ Part(g, T, t) \in Int BY <1>1, <1>3, <1>4
<1>6. \A t \in Tile : Part(v, Tile, t) <= Part(g, T, t) + (IF t = one THEN d ELSE 0) BY <1>1, <1>3, <1>4
<1> HIDE DEF one
<1>7. Sum(v, Tile) \in Int /\ Sum(g, T) \in Int /\ Sum(v, Tile) <= Sum(g, T) + d BY <1>3, <1>5, <1>6, SumAtMost
<1>8. Total(v) \in Int /\ Total(v) <= Used(files) + Len(open.before) BY <1>2, <1>3, <1>7 DEF Total
<1> DEFINE x == Total(v)  y == Used(files)  k == Len(open.before)  r == Free
<1>9. r = Blocks - y - k - tmp /\ y \in Int /\ k \in Nat /\ tmp \in Nat /\ Blocks \in Nat /\ x \in Int /\ x <= y + k BY <1>8, FreeIs
<1> HIDE DEF x, y, k, r
<1>10. r + x <= Blocks BY <1>9
<1> QED BY <1>8, <1>10 DEF x, r, v

\* What is listed is no more than what flash holds.
LEMMA ListedHeld ==
  ASSUME FilesFit
  PROVE  \A t \in Tile : Size(Listed, t) \in Nat /\ Size(Listed, t) <= Holding(t)
<1> SUFFICES ASSUME NEW t \in Tile PROVE Size(Listed, t) \in Nat /\ Size(Listed, t) <= Holding(t) OBVIOUS
<1>1. Size(Listed, t) \in Nat BY ListedIs, SizeIs
<1>2. Had(files, t) \in Nat /\ Len(open.before) \in Nat /\ Holding(t) = Had(files, t) + (IF t = open.tile THEN Len(open.before) ELSE 0)
  BY HoldingIs, FreeIs DEF Holding
<1>3. t \in DOMAIN files => Size(Listed, t) = IF t = open.tile THEN Len(open.before) ELSE Had(files, t)
  BY DEF Size, Listed, Had
<1>4. t \notin DOMAIN files => Size(Listed, t) = 0 BY ListedIs DEF Size
<1> QED BY <1>1, <1>2, <1>3, <1>4

LEMMA RoomListed ==
  ASSUME FilesFit
  PROVE  TakesUp(Listed) \in Int /\ Free + TakesUp(Listed) <= Blocks
<1> DEFINE v == [t \in Tile |-> Greater(Size(Listed, t), Holding(t))]  w == [t \in Tile |-> Holding(t)]
<1>1. \A t \in Tile : v[t] \in Int /\ w[t] \in Int /\ v[t] <= w[t]
  <2> SUFFICES ASSUME NEW t \in Tile PROVE v[t] \in Int /\ w[t] \in Int /\ v[t] <= w[t] OBVIOUS
  <2> DEFINE a == Size(Listed, t)  b == Holding(t)
  <2>1. a \in Nat /\ b \in Nat /\ a <= b BY ListedHeld, HoldingIs
  <2>2. v[t] = Greater(a, b) /\ w[t] = b OBVIOUS
  <2> HIDE DEF a, b, v, w
  <2>3. Greater(a, b) \in Nat /\ (a <= b /\ b <= b => Greater(a, b) <= b) BY <2>1, GreaterIs
  <2>4. b <= b BY <2>1
  <2> QED BY <2>1, <2>2, <2>3, <2>4
<1>2. Total(w) \in Int /\ Free + Total(w) <= Blocks BY HoldingFits
<1> HIDE DEF v, w
<1>3. Total(v) \in Int /\ Total(v) <= Total(w) BY <1>1, TotalNoMore
<1> DEFINE x == Total(v)  y == Total(w)  r == Free
<1>4. r \in Int /\ Blocks \in Nat /\ x \in Int /\ y \in Int /\ r + y <= Blocks /\ x <= y BY <1>2, <1>3, FreeIs
<1> HIDE DEF x, y, r
<1>5. r + x <= Blocks BY <1>4
<1> QED BY <1>3, <1>5 DEF x, r, v, TakesUp

-----------------------------------------------------------------------------
(* What the Mac knows *)

LEMMA AfterIs ==
  ASSUME FilesFit'
  PROVE  \A t \in Tile : /\ Had(files', t) \in Nat /\ Had(files', t) <= Chunks[t]
                         /\ Holding(t)' \in Nat /\ Stays(t)' \in Nat /\ Stays(t)' <= Holding(t)' /\ Stays(t)' <= Had(files', t) /\ Had(files', t) <= Holding(t)'
<1> SUFFICES ASSUME NEW t \in Tile
             PROVE  /\ Had(files', t) \in Nat /\ Had(files', t) <= Chunks[t]
                    /\ Holding(t)' \in Nat /\ Stays(t)' \in Nat /\ Stays(t)' <= Holding(t)' /\ Stays(t)' <= Had(files', t) /\ Had(files', t) <= Holding(t)'
  OBVIOUS
<1>1. FileSet(files') /\ Len(open'.before) \in Nat BY DEF FilesFit
<1>2. Had(files', t) \in Nat /\ Had(files', t) <= Chunks[t] BY <1>1, HadIs
<1> DEFINE h == Had(files', t)  k == Len(open'.before)
<1>3. Holding(t)' = h + (IF t = open'.tile THEN k ELSE 0) /\ Stays(t)' = (IF t \in Stale' THEN 0 ELSE h) BY DEF Holding, Stays, Had
<1> HIDE DEF h, k
<1>4. h \in Nat /\ k \in Nat BY <1>1, <1>2 DEF h, k
<1>5. Holding(t)' \in Nat /\ Stays(t)' \in Nat /\ Stays(t)' <= Holding(t)' /\ Stays(t)' <= h /\ h <= Holding(t)' BY <1>3, <1>4
<1> QED BY <1>2, <1>5 DEF h

\* The list is still right after a step.
ListedAfter(disk) ==
  /\ DOMAIN disk \subseteq DOMAIN files' \union lostTo'.mac
  /\ mac'.known => mac'.free + Total([t \in Tile |-> Greater(Size(disk, t), Holding(t)')]) <= Blocks

LEMMA TakesNoMore ==
  ASSUME FilesFit, FilesFit', NEW disk, Disk(disk), \A t \in Tile : Holding(t)' <= Holding(t)
  PROVE  LET w == [t \in Tile |-> Greater(Size(disk, t), Holding(t)')]
         IN TakesUp(disk) \in Int /\ Total(w) \in Int /\ Total(w) <= TakesUp(disk)
<1> DEFINE v == [t \in Tile |-> Greater(Size(disk, t), Holding(t))]  w == [t \in Tile |-> Greater(Size(disk, t), Holding(t)')]
<1>1. \A t \in Tile : w[t] \in Int /\ v[t] \in Int /\ w[t] <= v[t]
  <2> SUFFICES ASSUME NEW t \in Tile PROVE w[t] \in Int /\ v[t] \in Int /\ w[t] <= v[t] OBVIOUS
  <2> DEFINE a == Size(disk, t)  b == Holding(t)'  c == Holding(t)
  <2>1. a \in Nat /\ b \in Nat /\ c \in Nat /\ b <= c BY SizeIs, HoldingIs, AfterIs
  <2>2. v[t] = Greater(a, c) /\ w[t] = Greater(a, b) OBVIOUS
  <2> HIDE DEF a, b, c, v, w
  <2>3. Greater(a, b) \in Nat /\ Greater(a, c) \in Nat /\ Greater(a, b) <= Greater(a, c) BY <2>1, GreaterNoMore
  <2> QED BY <2>2, <2>3
<1> HIDE DEF v, w
<1>2. Total(w) \in Int /\ Total(v) \in Int /\ Total(w) <= Total(v) BY <1>1, TotalNoMore
<1> QED BY <1>2 DEF TakesUp, v, w

LEMMA StillListed ==
  ASSUME FilesFit, FilesFit', mac.free \in Int, NEW disk, Disk(disk), AsListed(disk),
         mac'.known => mac.known /\ mac'.free = mac.free,
         DOMAIN files \union lostTo.mac \subseteq DOMAIN files' \union lostTo'.mac, \A t \in Tile : Holding(t)' <= Holding(t)
  PROVE  ListedAfter(disk)
<1> DEFINE x == TakesUp(disk)  y == Total([t \in Tile |-> Greater(Size(disk, t), Holding(t)')])  f == mac.free
<1>1. x \in Int /\ y \in Int /\ y <= x BY TakesNoMore
<1>2. mac'.known => f + x <= Blocks BY DEF AsListed
<1> HIDE DEF x, y
<1>3. mac'.known => mac'.free + y <= Blocks
  <2>1. f \in Int /\ Blocks \in Nat BY TileAssumption
  <2> HIDE DEF f
  <2>2. mac'.known => mac'.free = f BY DEF f
  <2> QED BY <1>1, <1>2, <2>1, <2>2
<1> QED BY <1>3 DEF ListedAfter, AsListed, y

LEMMA MacAre ==
  MacTrue' <=>
    /\ ~ran' /\ mac'.state = "awaitList" =>
         /\ mac'.known => mac'.free <= Free'
         /\ \A i \in DOMAIN toMac' : toMac'[i].type = "list" => ListedAfter(toMac'[i].disk)
    /\ ~ran' /\ mac'.planned => ListedAfter(mac'.disk)
    /\ mac'.done = "all" => /\ mac'.state = "idle" /\ ~mac'.planned /\ toBoard' = <<>> /\ toMac' = <<>>
                            /\ mac'.known /\ ~ran' => mac'.plan \subseteq DOMAIN files' \union lostTo'.mac
BY DEF MacTrue, HasPlan, ListedAfter, AsListed, TakesUp, Size

\* Nothing is lost without a word, and nothing takes more room.
NoneLost == /\ DOMAIN files \union lostTo.mac \subseteq DOMAIN files' \union lostTo'.mac /\ Free' >= Free
            /\ \A t \in Tile : Holding(t)' <= Holding(t)

LEMMA MacStays ==
  ASSUME FilesFit, FilesFit', LinesTrue, MacTrue, mac' = mac, ran' \/ (~ran /\ NoneLost),
         toBoard = <<>> => toBoard' = <<>>, toMac = <<>> => toMac' = <<>>,
         \A i \in DOMAIN toMac' : \E j \in DOMAIN toMac : toMac'[i] = toMac[j]
  PROVE  MacTrue'
<1>1. mac.free \in Int /\ Disk(mac.disk) /\ ListsTrue BY LinesAre DEF MacRight
<1>2. Free \in Int /\ Free' \in Int
  <2>1. FileSet(files') /\ OpenFits' /\ tmp' \in Nat BY DEF FilesFit, OpenFits
  <2> QED BY <2>1, FreeAfter, FreeIs
<1>3. ASSUME ~ran', NEW disk, Disk(disk), AsListed(disk) PROVE ListedAfter(disk) BY <1>1, <1>3, StillListed DEF NoneLost
<1>4. ASSUME ~ran', mac.state = "awaitList" PROVE /\ mac.known => mac.free <= Free'
                                                  /\ \A i \in DOMAIN toMac' : toMac'[i].type = "list" => ListedAfter(toMac'[i].disk)
  <2>1. mac.known => mac.free <= Free BY <1>4 DEF MacTrue
  <2> DEFINE f == mac.free  g == Free  h == Free'
  <2>2. f \in Int /\ g \in Int /\ h \in Int /\ h >= g /\ (mac.known => f <= g) BY <1>1, <1>2, <1>4, <2>1 DEF NoneLost
  <2> HIDE DEF f, g, h
  <2>3. mac.known => f <= h BY <2>2
  <2>4. ASSUME NEW i \in DOMAIN toMac', toMac'[i].type = "list" PROVE ListedAfter(toMac'[i].disk)
    <3>1. PICK j \in DOMAIN toMac : toMac'[i] = toMac[j] OBVIOUS
    <3> DEFINE d == toMac[j].disk
    <3>2. Disk(d) /\ AsListed(d) BY <1>1, <1>4, <2>4, <3>1 DEF ListsTrue, MacTrue
    <3>4. toMac'[i].disk = d BY <3>1
    <3> HIDE DEF d, Disk, AsListed, ListedAfter
    <3>3. ListedAfter(d) BY <1>3, <1>4, <3>2
    <3> QED BY <3>3, <3>4
  <2> QED BY <2>3, <2>4 DEF f, h
<1>5. ASSUME ~ran', mac.planned PROVE ListedAfter(mac.disk)
  <2>1. AsListed(mac.disk) BY <1>5 DEF MacTrue
  <2> HIDE DEF Disk, AsListed, ListedAfter
  <2> QED BY <1>1, <1>3, <1>5, <2>1
<1>6. ASSUME mac.done = "all" PROVE /\ mac.state = "idle" /\ ~mac.planned /\ toBoard' = <<>> /\ toMac' = <<>>
                                    /\ mac.known /\ ~ran' => mac.plan \subseteq DOMAIN files' \union lostTo'.mac
  <2>1. /\ mac.state = "idle" /\ ~mac.planned /\ toBoard = <<>> /\ toMac = <<>> /\ (mac.known /\ ~ran => mac.plan \subseteq DOMAIN files \union lostTo.mac)
    BY <1>6 DEF MacTrue, HasPlan
  <2> QED BY <2>1 DEF NoneLost
<1> HIDE DEF ListedAfter
<1> QED BY <1>4, <1>5, <1>6, MacAre

LEMMA SameHolding ==
  ASSUME UNCHANGED <<files, open>>
  PROVE  \A t : Holding(t)' = Holding(t)
BY DEF Holding, Had

LEMMA JobLosesNone ==
  ASSUME FilesFit, FilesFit', LinesTrue, JobTrue, JobStep, Free' >= Free \/ ran'
  PROVE  ran' \/ (~ran /\ NoneLost)
<1>1. SUFFICES ASSUME ~ran' PROVE ~ran /\ NoneLost OBVIOUS
<1>2. ~ran /\ Free' >= Free
  <2>0. Free' >= Free BY <1>1
  <2>1. CASE JobFetch
    <3>1. ran' = ran \/ ran' = TRUE BY <2>1 DEF JobFetch
    <3>2. ~ran BY <1>1, <3>1
    <3> QED BY <2>0, <3>2
  <2>2. CASE ~JobFetch
    <3>1. ran' = ran BY <2>2 DEF JobStep, Quiet, JobStart, Cancel, JobPlan, JobEvict, JobWalk, JobRename, jobOnly
    <3>2. ~ran BY <1>1, <3>1
    <3> QED BY <2>0, <3>2
  <2> QED BY <2>1, <2>2
<1>3. DOMAIN lostTo = {"job", "mac"} BY DEF JobTrue
<1>0. \A t \in Tile : Holding(t) \in Nat BY HoldingIs
<1>4. CASE UNCHANGED <<files, open>> /\ lostTo'.mac = lostTo.mac
  <2>1. \A t : Holding(t)' = Holding(t) BY <1>4, SameHolding
  <2>2. \A t \in Tile : Holding(t)' <= Holding(t) BY <1>0, <2>1
  <2> QED BY <1>2, <1>4, <2>2 DEF NoneLost
<1>5. CASE JobStart
  <2>1. lostTo' = lostTo \/ lostTo' = [lostTo EXCEPT !.job = {}] BY <1>5 DEF JobStart
  <2>2. lostTo'.mac = lostTo.mac BY <1>3, <2>1
  <2> QED BY <1>4, <1>5, <2>2 DEF JobStart, jobOnly
<1>6. CASE Quiet \/ Cancel \/ JobPlan \/ JobWalk \/ JobFetch BY <1>4, <1>6 DEF Quiet, Cancel, JobPlan, JobWalk, JobFetch, jobOnly
<1>7. CASE JobRename
  <2>1. job.at = "rename" /\ ran' = ran BY <1>7 DEF JobRename
  <2>2. tmp = Chunks[job.next] /\ job.next \in Tile BY <2>1 DEF FilesFit
  <2>3. tmp # 0 BY <2>2, TilesAre
  <2> QED BY <1>2, <2>3 DEF LinesTrue
<1>8. CASE JobEvict
  <2>1. PICK t : /\ files' = Without(files, {t} \ Stale) /\ lostTo' = [lostTo EXCEPT !.mac = @ \union ({t} \ Stale)]
    BY <1>8, Evicts
  <2> DEFINE gone == {t} \ Stale
  <2>2. lostTo'.mac = lostTo.mac \union gone BY <1>3, <2>1
  <2>3. files' = Without(files, gone) /\ open' = open BY <1>8, <2>1 DEF JobEvict, jobOnly
  <2> HIDE DEF gone
  <2>4. DOMAIN Without(files, gone) = DOMAIN files \ gone /\ \A u : Had(Without(files, gone), u) = IF u \in gone THEN 0 ELSE Had(files, u)
    BY WithoutIs DEF FilesFit
  <2>5. DOMAIN files' = DOMAIN files \ gone BY <2>3, <2>4
  <2>6. \A u \in Tile : Had(files', u) = (IF u \in gone THEN 0 ELSE Had(files, u)) BY <2>3, <2>4
  <2>7. ASSUME NEW u \in Tile PROVE Holding(u)' <= Holding(u)
    <3> DEFINE k == IF u = open.tile THEN Len(open.before) ELSE 0  h == Had(files, u)  n == Had(files', u)
    <3>1. Holding(u)' = n + k /\ Holding(u) = h + k BY <2>3 DEF Holding, Had
    <3>2. k \in Nat /\ h \in Nat /\ (n = 0 \/ n = h) BY <2>6, FreeIs, HoldingIs
    <3> HIDE DEF k, h, n
    <3> QED BY <3>1, <3>2
  <2> QED BY <1>2, <2>2, <2>5, <2>7 DEF NoneLost
<1> QED BY <1>5, <1>6, <1>7, <1>8 DEF JobStep

LEMMA PowerLosesNone ==
  ASSUME FilesFit, FilesFit', CutPower, Free' >= Free
  PROVE  NoneLost
<1>1. open' = Closed /\ lostTo' = lostTo /\ DOMAIN files' = DOMAIN files BY DEF CutPower
<1>2. ASSUME NEW t \in Tile PROVE Holding(t)' <= Holding(t)
  <2>1. Holding(t)' = Had(files', t)
    <3>1. t # open'.tile BY <1>1, TilesAre DEF Closed
    <3>2. Had(files', t) \in Nat BY AfterIs
    <3> QED BY <3>1, <3>2 DEF Holding, Had
  <2>2. Had(files, t) \in Nat /\ Holding(t) \in Nat /\ Had(files, t) <= Holding(t) /\ Len(open.before) \in Nat BY HoldingIs, FreeIs
  <2>3. CASE files' = files BY <2>1, <2>2, <2>3
  <2>4. CASE IsOpen /\ files' = [files EXCEPT ![open.tile] = open.before]
    <3>1. CASE t = open.tile
      <4>1. t \in DOMAIN files BY <2>4, <3>1 DEF FilesFit
      <4>2. Had(files', t) = Len(open.before) BY <2>4, <3>1, <4>1 DEF Had
      <4>3. Holding(t) = Had(files, t) + Len(open.before) BY <3>1 DEF Holding
      <4> QED BY <2>1, <2>2, <4>2, <4>3
    <3>2. CASE t # open.tile
      <4>1. Had(files', t) = Had(files, t) BY <1>1, <2>4, <3>2 DEF Had
      <4> QED BY <2>1, <2>2, <4>1
    <3> QED BY <3>1, <3>2
  <2> QED BY <2>3, <2>4 DEF CutPower
<1> QED BY <1>1, <1>2 DEF NoneLost

\* Steps that are not of the board's commands or of the Mac.
LEMMA MacTrueElse ==
  ASSUME TileInv, FilesFit, FilesFit', LinesTrue, JobTrue, MacTrue, Free' >= Free \/ ran',
         CutPower \/ LoseTileLine \/ JobStep \/ UNCHANGED tileVars
  PROVE  MacTrue'
<1>0. toMac \in Seq(Elems(toMac)) /\ toBoard \in Seq(Elems(toBoard)) BY DEF TileInv, SerialOK
<1>a. \A t \in Tile : Holding(t) \in Nat BY HoldingIs
<1>1. CASE CutPower
  <2>1. mac' = mac /\ toBoard' = <<>> /\ toMac' = <<>> /\ ran' = ran BY <1>1 DEF CutPower
  <2>2. ran' \/ (~ran /\ NoneLost) BY <1>1, <2>1, PowerLosesNone
  <2> QED BY <2>1, <2>2, MacStays
<1>2. CASE JobStep
  <2>1. UNCHANGED <<mac, toBoard, toMac>>
    BY <1>2 DEF JobStep, Quiet, JobStart, Cancel, JobPlan, JobEvict, JobWalk, JobFetch, JobRename, jobOnly
  <2>2. ran' \/ (~ran /\ NoneLost) BY <1>2, JobLosesNone
  <2> QED BY <2>1, <2>2, MacStays
<1>3. CASE LoseTileLine \/ UNCHANGED tileVars
  <2>1. UNCHANGED <<mac, ran, files, open, lostTo>> BY <1>3 DEF LoseTileLine, tileBoard, tileVars
  <2>2. \A t : Holding(t)' = Holding(t) BY <2>1, SameHolding
  <2>3. \A t \in Tile : Holding(t)' <= Holding(t) BY <1>a, <2>2
  <2>4. ran' \/ (~ran /\ NoneLost) BY <2>1, <2>3 DEF NoneLost
  <2>5. toBoard = <<>> => toBoard' = <<>> BY <1>3 DEF LoseTileLine, tileVars
  <2>6. toMac' = toMac \/ (toMac # <<>> /\ toMac' = Tail(toMac)) BY <1>3 DEF LoseTileLine, tileVars
  <2>7. \A i \in DOMAIN toMac' : \E j \in DOMAIN toMac : toMac'[i] = toMac[j] BY <1>0, <2>6, TailIs
  <2>8. toMac = <<>> => toMac' = <<>> BY <2>6
  <2> QED BY <2>1, <2>4, <2>5, <2>7, <2>8, MacStays
<1> QED BY <1>1, <1>2, <1>3

LEMMA MacTrueHost ==
  ASSUME TileInv, FilesFit, FilesFit', LinesTrue, MacTrue, HostLine
  PROVE  MacTrue'
<1> DEFINE l == toBoard[1]  m == Len(toMac)
<1>1. mac' = mac /\ ran' = ran /\ tmp' = tmp /\ toBoard # <<>> BY DEF HostLine
<1>2. mac.done # "all" BY <1>1 DEF MacTrue
<1>3. ~mac.planned BY <1>1, NothingOut
<1>4. ASSUME mac.state = "awaitList", ~ran
      PROVE  /\ mac.known => mac.free <= Free'
             /\ \A i \in DOMAIN toMac' : toMac'[i].type = "list" => ListedAfter(toMac'[i].disk)
  <2>1. l.cmd \in {"stat", "ls"} /\ \A i \in DOMAIN toMac : toMac[i].type # "list"
    <3>1. 1 \in DOMAIN toBoard BY FirstLine
    <3> QED BY <1>1, <1>4, <3>1 DEF TileInv, InStep, AskedList, Asks
  <2>2. UNCHANGED <<files, open>> BY <2>1, HostSays
  <2>3. Free' = Free /\ Free \in Int BY <1>1, <2>2, SameFit
  <2>4. mac.known => mac.free <= Free BY <1>4 DEF MacTrue
  <2>5. \A t \in Tile : Holding(t)' <= Holding(t)
    <3>1. \A t : Holding(t)' = Holding(t) BY <2>2, SameHolding
    <3>2. \A t \in Tile : Holding(t) \in Nat BY HoldingIs
    <3> QED BY <3>1, <3>2
  <2> DEFINE d == Listed
  <2>6. Disk(d) /\ DOMAIN d = DOMAIN files BY ListedIs
  <2>7. TakesUp(d) \in Int /\ Free + TakesUp(d) <= Blocks BY RoomListed
  <2>8. mac.free \in Int BY DEF LinesTrue
  <2> HIDE DEF d
  <2>9. ListedAfter(d)
    <3> DEFINE x == TakesUp(d)  y == Total([t \in Tile |-> Greater(Size(d, t), Holding(t)')])  f == mac.free  g == Free
    <3>1. x \in Int /\ y \in Int /\ y <= x BY <2>5, <2>6, TakesNoMore
    <3>2. g + x <= Blocks /\ f \in Int /\ g \in Int /\ (mac.known => f <= g) BY <2>3, <2>4, <2>7, <2>8
    <3>4. Blocks \in Nat BY TileAssumption
    <3> HIDE DEF x, y, f, g
    <3>3. mac.known => f + y <= Blocks BY <3>1, <3>2, <3>4
    <3> QED BY <1>1, <2>2, <2>6, <3>3 DEF ListedAfter, y, f
  <2>10. toMac \in Seq(Elems(toMac)) BY DEF TileInv, SerialOK
  <2>11. ASSUME NEW i \in DOMAIN toMac', toMac'[i].type = "list" PROVE toMac'[i].disk = d
    <3> DEFINE es == [type |-> "stat", free |-> Free]  el == [type |-> "list", disk |-> Listed]
    <3>1. es.type = "stat" /\ el.type = "list" /\ el.disk = d BY DEF d
    <3>2. toMac' = Append(toMac, es) \/ toMac' = Append(toMac, el) BY <2>1, HostSays
    <3> HIDE DEF es, el, m
    <3>3. ASSUME NEW e, toMac' = Append(toMac, e) PROVE toMac'[i] = e \/ (i \in DOMAIN toMac /\ toMac'[i] = toMac[i])
      <4>1. Len(toMac) \in Nat /\ DOMAIN toMac' = 1 .. Len(toMac) + 1 /\ (\A j \in DOMAIN toMac : toMac'[j] = toMac[j]) /\ toMac'[Len(toMac) + 1] = e
            /\ DOMAIN toMac = 1 .. Len(toMac)
        BY <2>10, <3>3, LineAppended
      <4>2. i = Len(toMac) + 1 \/ i \in DOMAIN toMac BY <4>1
      <4> QED BY <4>1, <4>2
    <3>4. toMac'[i] = es \/ toMac'[i] = el \/ (i \in DOMAIN toMac /\ toMac'[i] = toMac[i]) BY <3>2, <3>3
    <3> QED BY <2>1, <2>11, <3>1, <3>4
  <2>12. mac.known => mac.free <= Free' BY <2>3, <2>4
  <2> HIDE DEF ListedAfter
  <2> QED BY <2>9, <2>11, <2>12
<1> HIDE DEF ListedAfter
<1> QED BY <1>1, <1>2, <1>3, <1>4, MacAre

LEMMA MacNotAll ==
  ASSUME TileInv, MacTrue, mac.done = "all"
  PROVE  mac.state = "idle" /\ ~mac.planned /\ toMac = <<>> /\ toBoard = <<>>
BY DEF MacTrue

\* An answer is out.
LEMMA AnswerOut ==
  ASSUME TileInv, 1 \in DOMAIN toMac
  PROVE  Outstanding # 0 /\ toMac # <<>>
<1>1. toMac \in Seq(Elems(toMac)) /\ toBoard \in Seq(Elems(toBoard)) BY DEF TileInv, SerialOK
<1>2. Len(toMac) \in Nat /\ Len(toBoard) \in Nat /\ DOMAIN toMac = 1 .. Len(toMac) BY <1>1
<1>3. Len(toMac) >= 1 BY <1>2
<1> QED BY <1>2, <1>3 DEF Outstanding

\* The Mac went on with m.
LEMMA MovedTrue ==
  ASSUME NEW m, Moved(m), m.done # "all", toBoard = <<>>, toMac' = <<>>,
         m.send = {} /\ m.known /\ ~ran' => m.plan \subseteq DOMAIN files' \union lostTo'.mac
  PROVE  MacTrue'
<1>1. CASE Finishes(m)
  <2>1. mac'.state = "idle" /\ mac'.planned = FALSE /\ mac'.plan = m.plan /\ mac'.known = m.known /\ toBoard' = <<>>
        /\ mac'.done = IF m.send = {} THEN "all" ELSE "some"
    BY <1>1 DEF Finishes
  <2>2. mac'.done = "all" => m.send = {} BY <2>1
  <2> HIDE DEF ListedAfter
  <2> QED BY <2>1, <2>2, MacAre
<1>2. CASE (\E t : Uploads(m, t)) \/ (\E t : Deletes(m, t))
  <2>1. mac'.state \in {"awaitAck", "deleting"} /\ mac'.planned = FALSE /\ mac'.done = m.done BY <1>2 DEF Uploads, Deletes
  <2> HIDE DEF ListedAfter
  <2> QED BY <2>1, MacAre
<1> QED BY <1>1, <1>2 DEF Moved

LEMMA MacTrueMac ==
  ASSUME TileInv, TileInv', FilesFit, FilesFit', LinesTrue, MacTrue, SyncTrue, JobTrue, MacStep
  PROVE  MacTrue'
<1>1. UNCHANGED <<files, open, tmp>> /\ MacRight /\ DOMAIN mac = MacFields /\ mac.delete \subseteq Tile
  BY MacLeaves, LinesAre DEF TileInv, MacOK, SyncTrue, SyncForm
<1>0. DOMAIN lostTo = {"job", "mac"} /\ lostTo.mac \subseteq lostTo'.mac BY MacLoses DEF JobTrue
<1>2. Free' = Free /\ Free \in Int BY <1>1, SameFit
<1>3. NoneLost
  <2>1. \A t : Holding(t)' = Holding(t) BY <1>1, SameHolding
  <2>2. \A t \in Tile : Holding(t) \in Nat BY HoldingIs
  <2> QED BY <1>0, <1>1, <1>2, <2>1, <2>2 DEF NoneLost
<1>4. CASE MacPlan \/ mac' = Failed(mac)
  <2>1. mac'.state # "awaitList" /\ mac'.planned = FALSE /\ mac'.done # "all" BY <1>4 DEF MacPlan, Failed, MacIdle
  <2> HIDE DEF ListedAfter
  <2> QED BY <2>1, MacAre
<1>5. ~MacPlan => ran' = ran BY DEF MacStep, MacSend, MacHandle, MacTimeout
<1>6. ASSUME ~MacPlan, mac.state = "awaitStat", NEW m, DOMAIN m = MacFields, m.planned = mac.planned, m.done = mac.done, ListDevice(m),
             m.known /\ ~ran => m.free <= Free
      PROVE  MacTrue'
  <2>1. mac.done # "all" /\ ~mac.planned BY <1>6, MacNotAll DEF TileInv, InStep, AskedNothing
  <2>2. mac'.state = "awaitList" /\ mac'.planned = mac.planned /\ mac'.done = mac.done /\ mac'.known = m.known /\ mac'.free = m.free
    BY <1>6 DEF ListDevice, MacFields
  <2>3. \E l : toBoard' = Append(toBoard, l) BY <1>6 DEF ListDevice, AskBoard
  <2>4. toBoard \in Seq(Elems(toBoard)) BY DEF TileInv, SerialOK
  <2>5. toBoard' # <<>> BY <2>3, <2>4, LineAppended
  <2>6. \A i \in DOMAIN toMac' : toMac'[i].type # "list" BY <2>2, <2>5 DEF TileInv, InStep, AskedList
  <2>7. ~ran' /\ mac'.known => mac'.free <= Free' BY <1>2, <1>5, <1>6, <2>2
  <2> HIDE DEF ListedAfter
  <2> QED BY <2>1, <2>2, <2>6, <2>7, MacAre
<1>7. CASE ~MacPlan /\ mac.state = "awaitStat" /\ ListDevice(mac)
  <2>1. ~mac.known BY <1>7 DEF LinesTrue
  <2> QED BY <1>1, <1>6, <1>7, <2>1
<1>8. CASE ~MacPlan /\ 1 \in DOMAIN toMac /\ toMac[1].type = "stat" /\ mac.state = "awaitStat" /\ ListDevice([mac EXCEPT !.known = TRUE, !.free = toMac[1].free])
  <2> DEFINE m == [mac EXCEPT !.known = TRUE, !.free = toMac[1].free]
  <2>1. DOMAIN m = MacFields /\ m.planned = mac.planned /\ m.done = mac.done /\ m.free = toMac[1].free BY <1>1 DEF MacFields
  <2>2. ListDevice(m) BY <1>8
  <2>3. ~ran => toMac[1].free <= Free BY <1>8 DEF LinesTrue
  <2> HIDE DEF m
  <2> QED BY <1>6, <1>8, <2>1, <2>2, <2>3
<1>9. CASE ~MacPlan /\ 1 \in DOMAIN toMac /\ toMac[1].type = "list" /\ mac.state = "awaitList" /\ MakePlan(mac, toMac[1].disk) /\ toBoard' = <<>> /\ toMac' = <<>>
  <2> DEFINE d == toMac[1].disk
  <2>1. mac.done # "all" BY <1>9, MacNotAll
  <2>2. mac'.state = "idle" /\ mac'.done = mac.done /\ mac'.known = mac.known /\ mac'.free = mac.free /\ mac'.disk = d
    BY <1>1, <1>9 DEF MakePlan, MacFields
  <2>3. Disk(d) /\ (~ran => AsListed(d)) BY <1>9 DEF LinesTrue, MacTrue
  <2>4. mac.free \in Int BY <1>1 DEF MacRight
  <2> HIDE DEF d
  <2>5. ~ran => ListedAfter(d) BY <1>3, <2>2, <2>3, <2>4, StillListed DEF NoneLost
  <2> HIDE DEF ListedAfter
  <2> QED BY <1>5, <1>9, <2>1, <2>2, <2>5, MacAre
<1>10. CASE ~MacPlan /\ mac.state = "awaitAck" /\ NextChunk(mac)
  <2>1. mac.done # "all" /\ ~mac.planned BY <1>10, MacNotAll DEF TileInv, InStep, AskedNothing
  <2>2. mac'.state \in {"awaitAck", "awaitOk"} /\ mac'.planned = mac.planned /\ mac'.done = mac.done BY <1>1, <1>10 DEF NextChunk, MacFields
  <2> HIDE DEF ListedAfter
  <2> QED BY <2>1, <2>2, MacAre
<1>11. CASE ~MacPlan /\ UNCHANGED <<mac, toBoard>> /\ MacHandle
  <2>1. toMac # <<>> /\ toMac' = Tail(toMac) BY <1>11 DEF MacHandle
  <2>2. toMac \in Seq(Elems(toMac)) BY DEF TileInv, SerialOK
  <2>3. \A i \in DOMAIN toMac' : \E j \in DOMAIN toMac : toMac'[i] = toMac[j] BY <2>1, <2>2, TailIs
  <2>4. CASE ran' BY <1>11, <2>1, <2>3, <2>4, MacStays
  <2>5. CASE ~ran'
    <3>1. ~ran BY <1>5, <1>11, <2>5
    <3> QED BY <1>3, <1>11, <2>1, <2>3, <3>1, MacStays
  <2> QED BY <2>4, <2>5
<1>12. ASSUME MacSend, ~MacPlan, toBoard = <<>>, toMac = <<>>, NEW m, NEW gone, Queues(m, gone), Moved(m) PROVE MacTrue'
  <2>1. mac.planned /\ toMac' = toMac BY <1>12 DEF MacSend
  <2>2. m.done = mac.done /\ m.known = mac.known /\ m.plan = mac.plan BY <1>12 DEF Queues
  <2>3. mac.done # "all" BY <2>1, MacNotAll
  <2>4. m.send = {} => m.plan \subseteq DOMAIN mac.disk \union lostTo'.mac BY <1>0, <1>12 DEF Queues
  <2>5. ~ran => DOMAIN mac.disk \subseteq DOMAIN files \union lostTo.mac BY <2>1 DEF MacTrue, AsListed
  <2>6. m.send = {} /\ m.known /\ ~ran' => m.plan \subseteq DOMAIN files' \union lostTo'.mac BY <1>0, <1>1, <1>5, <1>12, <2>4, <2>5
  <2> QED BY <1>12, <2>1, <2>2, <2>3, <2>6, MovedTrue
<1>13. ASSUME ~MacPlan, toBoard = <<>>, toMac' = <<>>, 1 \in DOMAIN toMac, toMac[1].type = "ok", mac.state = "deleting", Moved(mac) PROVE MacTrue'
  <2>1. mac.done # "all" BY <1>13, MacNotAll
  <2>2. mac.send = {} /\ mac.known /\ ~ran => mac.plan \subseteq DOMAIN files \union lostTo.mac
    BY <1>13, AnswerOut DEF SyncTrue, SyncHolds, Working, HasPlan, Uploading
  <2>3. mac.send = {} /\ mac.known /\ ~ran' => mac.plan \subseteq DOMAIN files' \union lostTo'.mac BY <1>0, <1>1, <1>5, <1>13, <2>2
  <2> QED BY <1>13, <2>1, <2>3, MovedTrue
<1>14. ASSUME ~MacPlan, toBoard = <<>>, toMac' = <<>>, 1 \in DOMAIN toMac, toMac[1].type = "ok", mac.state = "awaitOk", Moved(Sent(mac)) PROVE MacTrue'
  <2> DEFINE m == Sent(mac)
  <2>0. m.done = mac.done /\ m.send = mac.send /\ m.known = mac.known /\ m.plan = mac.plan BY <1>1 DEF Sent, MacFields
  <2>1. mac.done # "all" BY <1>14, MacNotAll
  <2>2. mac.send = {} /\ mac.known /\ ~ran => mac.plan \subseteq DOMAIN files \union lostTo.mac
    <3>1. mac.known /\ ~ran => SyncHolds BY <1>14, AnswerOut DEF SyncTrue, Working
    <3>2. mac.known /\ ~ran => HasPlan(mac.send \union Uploading) /\ Uploading \subseteq DOMAIN files \union lostTo.mac BY <1>14, <3>1 DEF SyncHolds
    <3> QED BY <3>2 DEF HasPlan
  <2>4. Moved(m) BY <1>14
  <2> HIDE DEF m
  <2>3. m.send = {} /\ m.known /\ ~ran' => m.plan \subseteq DOMAIN files' \union lostTo'.mac BY <1>0, <1>1, <1>5, <1>14, <2>0, <2>2
  <2> QED BY <1>14, <2>0, <2>1, <2>3, <2>4, MovedTrue
<1>15. CASE MacPlan BY <1>4, <1>15
<1>16. CASE ~MacPlan BY <1>1, <1>4, <1>7, <1>8, <1>9, <1>10, <1>11, <1>12, <1>13, <1>14, <1>16, MacMoves DEF Moved
<1> QED BY <1>15, <1>16

-----------------------------------------------------------------------------
(* There is room for what is sent *)

LEMMA SumOfNone == \A f : Sum(f, {}) = 0
<1> SUFFICES ASSUME NEW f PROVE Sum(f, {}) = 0 OBVIOUS
<1>1. \A t \in Tile : Part(f, {}, t) = 0 BY DEF Part
<1> DEFINE S == {}
<1>0. S = {} OBVIOUS
<1> HIDE DEF S
<1>2. \A t \in Tile : Part(f, S, t) \in Int /\ Part(f, S, t) \in Int /\ Part(f, S, t) = Part(f, S, t) + Part(f, S, t) BY <1>0, <1>1
<1>3. Sum(f, S) \in Int /\ Sum(f, S) \in Int /\ Sum(f, S) = Sum(f, S) + Sum(f, S) BY <1>2, SumOfParts
<1> DEFINE x == Sum(f, {})
<1>4. x \in Int /\ x = x + x BY <1>0, <1>3
<1> HIDE DEF x
<1>5. x = 0 BY <1>4
<1> QED BY <1>5 DEF x

LEMMA SumNotLess ==
  ASSUME NEW f, NEW S, \A t \in Tile : Part(f, S, t) \in Nat
  PROVE  Sum(f, S) \in Int /\ Sum(f, S) >= 0
<1>1. \A t \in Tile : Part(f, {}, t) = 0 BY DEF Part
<1>2. \A t \in Tile : Part(f, {}, t) \in Int /\ Part(f, S, t) \in Int BY <1>1
<1>3. \A t \in Tile : Part(f, {}, t) <= Part(f, S, t) + (IF t = NoTile THEN 0 ELSE 0) BY <1>1
<1>4. 0 \in Int /\ (0 >= 0 \/ NoTile \in Tile) OBVIOUS
<1>5. Sum(f, {}) \in Int /\ Sum(f, S) \in Int /\ Sum(f, {}) <= Sum(f, S) + 0 BY <1>2, <1>3, <1>4, SumAtMost, Zenon
<1> QED BY <1>5, SumOfNone

LEMMA ClaimIs ==
  ASSUME NEW disk, Disk(disk), NEW send, NEW gone, NEW sending, NEW begins, NEW t \in Tile, NEW s \in Nat, NEW r \in Nat, r <= s
  PROVE  /\ ClaimOf(disk, send, gone, sending, begins, r, t) \in Int /\ ClaimOf(disk, send, gone, sending, begins, s, t) \in Int
         /\ ClaimOf(disk, send, gone, sending, begins, r, t) <= ClaimOf(disk, send, gone, sending, begins, s, t)
<1> DEFINE a == Size(disk, t)  c == Chunks[t]  x == Greater(a, r)  y == Greater(a, s)
<1>1. a \in Nat /\ c \in Nat BY SizeIs, TilesAre
<1>2. ClaimOf(disk, send, gone, sending, begins, r, t) = IF t \in sending THEN IF begins THEN c - a + x ELSE c
                                                         ELSE IF t \in send THEN x ELSE IF t \in gone THEN 0 ELSE r
  BY DEF ClaimOf
<1>3. ClaimOf(disk, send, gone, sending, begins, s, t) = IF t \in sending THEN IF begins THEN c - a + y ELSE c
                                                         ELSE IF t \in send THEN y ELSE IF t \in gone THEN 0 ELSE s
  BY DEF ClaimOf
<1> HIDE DEF a, c
<1>4. x \in Nat /\ y \in Nat /\ x <= y BY <1>1, GreaterNoMore
<1> HIDE DEF x, y
<1>5. c - a + x \in Int /\ c - a + y \in Int /\ c - a + x <= c - a + y /\ c <= c /\ 0 <= 0 /\ 0 \in Int BY <1>1, <1>4
<1> QED BY <1>1, <1>2, <1>3, <1>4, <1>5

LEMMA ClaimsAre ==
  /\ Claims = [t \in Tile |-> ClaimOf(mac.disk, mac.send, Doomed, Uploading, Begins, Stays(t), t)]
  /\ Claims' = [t \in Tile |-> ClaimOf(mac'.disk, mac'.send, Doomed', Uploading', Begins', Stays(t)', t)]
BY DEF Claims, ClaimOf, Size, Greater

LEMMA ClaimsFit ==
  /\ MacRight /\ FilesFit => \A t \in Tile : Claims[t] \in Int
  /\ MacRight' /\ FilesFit' => \A t \in Tile : Claims'[t] \in Int
<1>1. ASSUME MacRight, FilesFit, NEW t \in Tile PROVE Claims[t] \in Int
  <2>1. Disk(mac.disk) /\ Stays(t) \in Nat BY <1>1, HoldingIs DEF MacRight
  <2>2. Stays(t) <= Stays(t) BY <2>1
  <2>3. ClaimOf(mac.disk, mac.send, Doomed, Uploading, Begins, Stays(t), t) \in Int BY <2>1, <2>2, ClaimIs, Zenon
  <2> QED BY <2>3, ClaimsAre
<1>2. ASSUME MacRight', FilesFit', NEW t \in Tile PROVE Claims'[t] \in Int
  <2>1. Disk(mac'.disk) /\ Stays(t)' \in Nat BY <1>2, AfterIs DEF MacRight, Disk
  <2>2. Stays(t)' <= Stays(t)' BY <2>1
  <2>3. ClaimOf(mac'.disk, mac'.send, Doomed', Uploading', Begins', Stays(t)', t) \in Int BY <2>1, <2>2, ClaimIs, Zenon
  <2> QED BY <2>3, ClaimsAre
<1> QED BY <1>1, <1>2

\* With the Mac waiting, and no tile's claim greater, there is room still.
LEMMA HoldsOn ==
  ASSUME MacRight, FilesFit, FilesFit', mac' = mac, SyncHolds, \A t \in Tile : Claims'[t] <= Claims[t], Doomed' \subseteq Doomed,
         mac.plan \intersect (DOMAIN files \union lostTo.mac) \subseteq DOMAIN files' \union lostTo'.mac \union Uploading,
         \A i \in DOMAIN toMac' : toMac'[i].type = "ok" => Uploading \subseteq DOMAIN files' \union lostTo'.mac
  PROVE  SyncHolds'
<1>1. MacRight' BY DEF MacRight, Disk
<1>2. Uploading' = Uploading BY DEF Uploading
<1> DEFINE v == Claims'  w == Claims  f == mac.free
<1>3. \A t \in Tile : v[t] \in Int /\ w[t] \in Int /\ v[t] <= w[t] BY <1>1, ClaimsFit
<1>4. f \in Int /\ f + Total(w) <= Blocks /\ Blocks \in Nat BY TileAssumption DEF MacRight, SyncHolds
<1> HIDE DEF v, w, f
<1>5. Total(v) \in Int /\ Total(w) \in Int /\ Total(v) <= Total(w) BY <1>3, TotalNoMore
<1>6. f + Total(v) <= Blocks BY <1>4, <1>5
<1>7. (mac.free + Total(Claims) <= Blocks)'
  <2>1. mac'.free + Total(Claims') <= Blocks BY <1>6 DEF f, v
  <2>2. Total(Claims)' = Total(Claims') BY DEF Total, Sum
  <2> QED BY <2>1, <2>2
<1>8. HasPlan(mac.send \union Uploading)' BY <1>2 DEF SyncHolds, HasPlan
<1> QED BY <1>2, <1>7, <1>8 DEF SyncHolds

LEMMA StaysLess ==
  ASSUME FilesFit, FilesFit', NEW u \in Tile, Had(files', u) <= Had(files, u) /\ (u \in Stale => u \in Stale' \/ Had(files', u) = 0)
  PROVE  Stays(u)' <= Stays(u)
<1> DEFINE h == Had(files, u)  n == Had(files', u)
<1>1. h \in Nat /\ n \in Nat BY HoldingIs, AfterIs
<1>2. Stays(u)' = (IF u \in Stale' THEN 0 ELSE n) /\ Stays(u) = (IF u \in Stale THEN 0 ELSE h) BY DEF Stays, Had
<1>3. n <= h /\ (u \in Stale => u \in Stale' \/ n = 0) OBVIOUS
<1> HIDE DEF h, n
<1> QED BY <1>1, <1>2, <1>3

\* While the Mac works, at most one line is out.
LEMMA OneOut ==
  ASSUME TileInv, Working
  PROVE  /\ Outstanding <= 1 /\ toBoard \in Seq(Elems(toBoard)) /\ toMac \in Seq(Elems(toMac))
         /\ toBoard # <<>> => DOMAIN toBoard = {1} /\ toMac = <<>> /\ Tail(toBoard) = <<>>
         /\ toMac # <<>> => DOMAIN toMac = {1} /\ toBoard = <<>> /\ Tail(toMac) = <<>>
<1>1. Outstanding <= 1 BY DEF TileInv, InStep, AskedAck, AskedOk, AskedNothing, Working
<1>2. toBoard \in Seq(Elems(toBoard)) /\ toMac \in Seq(Elems(toMac)) BY DEF TileInv, SerialOK
<1> DEFINE b == Len(toBoard)  k == Len(toMac)
<1>3. b + k <= 1 BY <1>1 DEF Outstanding
<1>4. b \in Nat /\ k \in Nat /\ DOMAIN toBoard = 1 .. b /\ DOMAIN toMac = 1 .. k BY <1>2
<1>5. (toBoard # <<>> => b # 0) /\ (toMac # <<>> => k # 0) BY <1>2
<1>6. (b = 0 => toBoard = <<>>) /\ (k = 0 => toMac = <<>>) BY <1>2
<1>7. toBoard # <<>> => Len(Tail(toBoard)) = b - 1 /\ Tail(toBoard) \in Seq(Elems(Tail(toBoard))) BY <1>2, LineTaken
<1>8. toMac # <<>> => Len(Tail(toMac)) = k - 1 /\ Tail(toMac) \in Seq(Elems(Tail(toMac))) BY <1>2, LineTaken
<1> HIDE DEF b, k
<1>9. (b # 0 => b = 1 /\ k = 0) /\ (k # 0 => k = 1 /\ b = 0) BY <1>3, <1>4
<1>10. toBoard # <<>> => Tail(toBoard) = <<>>
  <2> SUFFICES ASSUME toBoard # <<>> PROVE Tail(toBoard) = <<>> OBVIOUS
  <2> DEFINE s == Tail(toBoard)
  <2>1. Len(s) = 0 /\ s \in Seq(Elems(s)) BY <1>5, <1>7, <1>9
  <2> HIDE DEF s
  <2>2. s = <<>> BY <2>1
  <2> QED BY <2>2 DEF s
<1>11. toMac # <<>> => Tail(toMac) = <<>>
  <2> SUFFICES ASSUME toMac # <<>> PROVE Tail(toMac) = <<>> OBVIOUS
  <2> DEFINE s == Tail(toMac)
  <2>1. Len(s) = 0 /\ s \in Seq(Elems(s)) BY <1>5, <1>8, <1>9
  <2> HIDE DEF s
  <2>2. s = <<>> BY <2>1
  <2> QED BY <2>2 DEF s
<1>12. 1 .. 1 = {1} OBVIOUS
<1> QED BY <1>1, <1>2, <1>4, <1>5, <1>6, <1>9, <1>10, <1>11, <1>12

LEMMA NoneOut ==
  ASSUME toBoard' = <<>>, toMac' = <<>>
  PROVE  Outstanding' = 0
BY DEF Outstanding

\* What the board makes of the one line.
LEMMA HostOne ==
  ASSUME TileInv, HostLine, Working
  PROVE  /\ DOMAIN toBoard = {1} /\ toMac = <<>> /\ toBoard' = <<>> /\ DOMAIN toBoard' = {} /\ mac' = mac /\ ran' = ran
         /\ Doomed' = mac.delete /\ Doomed = mac.delete \union (IF toBoard[1].cmd = "rm" THEN {toBoard[1].tile} ELSE {})
         /\ (Begins <=> toBoard[1].cmd = "begin") /\ ~Begins'
         /\ (toMac' = <<>> /\ toBoard[1].cmd = "end") \/ (DOMAIN toMac' = {1} /\ AnswerTo(toMac'[1], toBoard[1]))
<1>1. toBoard # <<>> /\ toBoard' = Tail(toBoard) /\ mac' = mac /\ ran' = ran BY DEF HostLine
<1>2. DOMAIN toBoard = {1} /\ toMac = <<>> /\ toBoard' = <<>> BY <1>1, OneOut
<1>3. DOMAIN toBoard' = {} BY <1>2
<1>4. (toMac' = <<>> /\ toBoard[1].cmd = "end") \/ (DOMAIN toMac' = {1} /\ AnswerTo(toMac'[1], toBoard[1]))
  <2> DEFINE k == Len(toMac)
  <2>1. k = 0 BY <1>2
  <2>2. \/ toMac' = toMac /\ toBoard[1].cmd = "end"
        \/ DOMAIN toMac' = 1 .. k + 1 /\ AnswerTo(toMac'[k + 1], toBoard[1])
    BY HostLines
  <2> HIDE DEF k
  <2>3. k + 1 = 1 /\ 1 .. k + 1 = {1} BY <2>1
  <2> QED BY <1>2, <2>2, <2>3
<1> QED BY <1>1, <1>2, <1>3, <1>4 DEF Doomed, Begins

\* Of what the one line is.
LEMMA LineIs ==
  ASSUME TileInv, SyncTrue, HostLine, Working
  PROVE  \/ mac.state = "deleting" /\ toBoard[1].cmd = "rm" /\ Uploading = {}
         \/ mac.state = "awaitAck" /\ toBoard[1].cmd = "begin" /\ toBoard[1].tile = mac.cur /\ Uploading = {mac.cur}
         \/ mac.state \in {"awaitAck", "awaitOk"} /\ toBoard[1].cmd \in {"data", "end"} /\ Uploading = {mac.cur} /\ Stale \subseteq {mac.cur}
<1> DEFINE l == toBoard[1]
<1>1. 1 \in DOMAIN toBoard BY FirstLine
<1>2. mac.state = "deleting" => l.cmd = "rm" BY <1>1 DEF SyncTrue, SyncForm
<1>3. mac.state = "awaitAck" => l.cmd \in {"begin", "data"} /\ (l.cmd = "begin" => l.tile = mac.cur) BY <1>1 DEF TileInv, InStep, AskedAck
<1>4. mac.state = "awaitOk" => l.cmd = "end" /\ (IsOpen => open.tile = mac.cur) BY <1>1 DEF TileInv, InStep, AskedOk
<1>5. Outstanding # 0
  <2>1. toBoard \in Seq(Elems(toBoard)) /\ toMac \in Seq(Elems(toMac)) BY OneOut
  <2>2. Len(toBoard) \in Nat /\ Len(toMac) \in Nat /\ DOMAIN toBoard = 1 .. Len(toBoard) BY <2>1
  <2>3. Len(toBoard) >= 1 BY <1>1, <2>2
  <2> QED BY <2>2, <2>3 DEF Outstanding
<1>6. mac.state = "awaitAck" /\ l.cmd = "data" => (IsOpen => open.tile = mac.cur) BY <1>5 DEF TileInv, InStep, AskedAck
<1> HIDE DEF l
<1> QED BY <1>2, <1>3, <1>4, <1>6 DEF Working, Uploading, Stale, l

\* A tile that no command of the Mac is about stays as it was.
LEMMA HostStays ==
  ASSUME TileInv, FilesFit, FilesFit', LinesTrue, SyncTrue, HostLine, Working
  PROVE  \A u \in Tile : u \notin Uploading => Stays(u)' <= Stays(u) /\ (toBoard[1].cmd = "rm" /\ u = toBoard[1].tile => Stays(u)' = 0)
<1> DEFINE l == toBoard[1]
<1>1. 1 \in DOMAIN toBoard /\ Head(toBoard) = l /\ l.cmd \in {"stat", "ls", "begin", "data", "end", "rm"} BY FirstLine
<1>2. \A u \in Tile : Had(files, u) \in Nat /\ Had(files', u) \in Nat BY HoldingIs, AfterIs
<1>3. l.cmd = "rm" \/ (l.cmd = "begin" /\ Uploading = {l.tile}) \/ (l.cmd \in {"data", "end"} /\ Stale \subseteq Uploading) BY LineIs
<1>7. FileSet(files) BY DEF FilesFit
<1> HIDE DEF l
<1>8. CASE l.cmd = "rm"
  <2>1. Erase(l.tile) BY <1>1, <1>8 DEF HostLine
  <2> DEFINE gone == {l.tile} \ Stale
  <2>2. files' = Without(files, gone) /\ open' = open BY <2>1 DEF Erase
  <2>0. gone = {l.tile} \ Stale OBVIOUS
  <2> HIDE DEF gone
  <2>3. \A u : Had(Without(files, gone), u) = IF u \in gone THEN 0 ELSE Had(files, u) BY <1>7, WithoutIs
  <2>4. \A u : Had(files', u) = IF u \in gone THEN 0 ELSE Had(files, u) BY <2>2, <2>3
  <2>5. Stale' = Stale BY <2>2 DEF Stale, IsOpen
  <2>6. ASSUME NEW u \in Tile PROVE Stays(u)' <= Stays(u)
    <3>1. Had(files', u) <= Had(files, u) BY <1>2, <2>4
    <3> QED BY <2>5, <2>6, <3>1, StaysLess
  <2>7. ASSUME NEW u \in Tile, u = l.tile PROVE Stays(u)' = 0
    <3>1. u \in Stale' \/ Had(files', u) = 0 BY <2>0, <2>4, <2>5, <2>7
    <3> QED BY <3>1 DEF Stays, Had
  <2> QED BY <2>6, <2>7 DEF l
<1>9. CASE l.cmd = "begin" /\ Uploading = {l.tile}
  <2>1. Begin(l.tile, l.size) BY <1>1, <1>9 DEF HostLine
  <2> DEFINE kept == Without(files, Superseded)
  <2>2. PICK gone : files' = Without(kept, gone) \/ files' = With(Without(kept, gone), l.tile, <<>>)
    BY <2>1 DEF Begin
  <2>3. FileSet(kept) /\ \A u : Had(kept, u) = IF u \in Superseded THEN 0 ELSE Had(files, u) BY <1>7, WithoutIs
  <2> HIDE DEF kept
  <2>4. \A u : Had(Without(kept, gone), u) = IF u \in gone THEN 0 ELSE Had(kept, u) BY <2>3, WithoutIs
  <2>5. \A u : u # l.tile => Had(files', u) = IF u \in gone THEN 0 ELSE Had(kept, u) BY <2>2, <2>4, WithHad
  <2>6. ASSUME NEW u \in Tile, u \notin Uploading PROVE Stays(u)' <= Stays(u)
    <3>1. Had(files', u) = 0 \/ (Had(files', u) = Had(files, u) /\ u \notin Stale) BY <1>9, <2>3, <2>5, <2>6 DEF Superseded
    <3>2. Had(files', u) <= Had(files, u) /\ (u \in Stale => Had(files', u) = 0) BY <1>2, <3>1
    <3> QED BY <2>6, <3>2, StaysLess
  <2> QED BY <1>9, <2>6 DEF l
<1>10. CASE l.cmd \in {"data", "end"} /\ Stale \subseteq Uploading
  <2>1. Data(l.q, l.chunk) \/ EndFile(l.crc) BY <1>1, <1>10 DEF HostLine
  <2>2. UNCHANGED files \/ files' = Without(files, Stale) \/ (IsOpen /\ \E c : files' = [files EXCEPT ![open.tile] = c])
    BY <2>1 DEF Data, EndFile, Dropped
  <2>3. \A u : Had(Without(files, Stale), u) = IF u \in Stale THEN 0 ELSE Had(files, u) BY <1>7, WithoutIs
  <2>4. ASSUME NEW u \in Tile, u \notin Uploading PROVE Stays(u)' <= Stays(u)
    <3>1. u \notin Stale BY <1>10, <2>4
    <3>2. Had(files', u) = Had(files, u) BY <2>2, <2>3, <3>1 DEF Had, Stale
    <3>3. Had(files', u) <= Had(files, u) BY <1>2, <3>2
    <3> QED BY <2>4, <3>1, <3>3, StaysLess
  <2> QED BY <1>10, <2>4 DEF l
<1> QED BY <1>3, <1>8, <1>9, <1>10

\* The tiles it counts on stay when the board takes the line; with room for what
\* is sent nothing has to go.
LEMMA NoneEvicted ==
  ASSUME FilesFit, MacRight, SyncTrue, SyncHolds, tmp = 0, Begins, Doomed = {}, NEW t \in Tile, Uploading = {t}, Working
  PROVE  Evicted(Without(files, Superseded), Chunks[t] + Slack) = {}
<1> DEFINE kept == Without(files, Superseded)  v == Claims  w == Used(kept)  f == mac.free  c == Chunks[t]
           sizes == [u \in DOMAIN kept |-> Len(kept[u])]  S(v0) == {u \in DOMAIN kept : u > v0}
<1>1. FileSet(files) BY DEF FilesFit
<1>2. FileSet(kept) /\ \A u : Had(kept, u) = IF u \in Superseded THEN 0 ELSE Had(files, u) BY <1>1, WithoutIs
<1>3. \A u \in Tile : Part(sizes, DOMAIN kept, u) = Had(kept, u) /\ Had(kept, u) \in Nat BY <1>2, HadIs
<1>4. w = Sum(sizes, DOMAIN kept) BY DEF Used
<1>5. \A u \in Tile : Had(kept, u) = Stays(u) BY <1>2 DEF Stays, Superseded
<1>6. \A u \in Tile : v[u] \in Int BY ClaimsFit
<1>7. Lacking(mac.disk, mac.send \union {t}) BY DEF SyncTrue, SyncForm
<1>8. ASSUME NEW u \in Tile PROVE Stays(u) <= v[u] + (IF u = t THEN -1 ELSE 0)
  <2> DEFINE a == Size(mac.disk, u)  k == Chunks[u]  s == Stays(u)  g == Greater(a, s)
  <2>1. a \in Nat /\ s \in Nat /\ k \in Nat BY SizeIs, HoldingIs, TilesAre DEF MacRight
  <2>2. v[u] = IF u = t THEN k - a + g ELSE IF u \in mac.send THEN g ELSE s BY ClaimsAre DEF ClaimOf
  <2>3. u = t => a < k BY <1>7 DEF Lacking
  <2> HIDE DEF a, k, s, v
  <2>4. g \in Nat /\ g >= s BY <2>1, GreaterIs
  <2> HIDE DEF g
  <2>5. s <= v[u] + (IF u = t THEN -1 ELSE 0) BY <2>1, <2>2, <2>3, <2>4
  <2> QED BY <2>5 DEF s
<1> HIDE DEF v, sizes
<1>9. w <= Total(v) + -1 /\ w \in Int /\ Total(v) \in Int
  <2>1. \A u \in Tile : Part(v, Tile, u) = v[u] BY DEF Part
  <2>2. \A u \in Tile : Part(sizes, DOMAIN kept, u) \in Int /\ Part(v, Tile, u) \in Int BY <1>3, <1>6, <2>1
  <2>3. \A u \in Tile : Part(sizes, DOMAIN kept, u) <= Part(v, Tile, u) + (IF u = t THEN -1 ELSE 0) BY <1>3, <1>5, <1>8, <2>1
  <2>4. -1 \in Int /\ (-1 >= 0 \/ t \in Tile) OBVIOUS
  <2> DEFINE T == DOMAIN kept
  <2> HIDE DEF T
  <2>5. \A u \in Tile : Part(sizes, T, u) \in Int /\ Part(v, Tile, u) \in Int BY <2>2 DEF T
  <2>6. \A u \in Tile : Part(sizes, T, u) <= Part(v, Tile, u) + (IF u = t THEN -1 ELSE 0) BY <2>3 DEF T
  <2>7. Sum(sizes, T) \in Int /\ Sum(v, Tile) \in Int /\ Sum(sizes, T) <= Sum(v, Tile) + -1 BY <2>4, <2>5, <2>6, SumAtMost, Zenon
  <2> QED BY <1>4, <2>7 DEF Total, T
<1>10. f \in Int /\ f >= KeepFree /\ f + Total(v) <= Blocks
  <2>1. Uploading # {} OBVIOUS
  <2>2. mac.state \in {"awaitAck", "awaitOk"} BY <2>1 DEF Uploading
  <2> QED BY <2>2 DEF SyncHolds, MacRight, v
<1>11. {Blocks, KeepFree, Slack} \subseteq Nat /\ c \in Nat /\ Slack + c - 1 <= KeepFree BY TileAssumption, ReserveAssumption, TilesAre
<1> DEFINE x == Total(v)
<1> HIDE DEF w, f, c, x
<1>12. Blocks - w >= c + Slack BY <1>9, <1>10, <1>11 DEF x
<1>13. SpaceIn(kept) = Blocks - w - tmp BY DEF SpaceIn, w
<1>14. SpaceIn(kept) \in Int /\ SpaceIn(kept) >= c + Slack BY <1>9, <1>11, <1>12, <1>13
<1> DEFINE room == SpaceIn(kept)
<1>15. \A u \in DOMAIN kept : ~(room + Sum(sizes, S(u)) < c + Slack)
  <2> SUFFICES ASSUME NEW u \in DOMAIN kept PROVE ~(room + Sum(sizes, S(u)) < c + Slack) OBVIOUS
  <2> DEFINE T == S(u)  y == Sum(sizes, T)
  <2>1. \A r \in Tile : Part(sizes, T, r) \in Nat
    <3>1. ASSUME NEW r \in Tile PROVE Part(sizes, T, r) \in Nat
      <4>1. r \in T => Part(sizes, T, r) = Part(sizes, DOMAIN kept, r) BY DEF Part
      <4>2. r \notin T => Part(sizes, T, r) = 0 BY DEF Part
      <4> QED BY <1>3, <4>1, <4>2
    <3> QED BY <3>1
  <2> HIDE DEF T
  <2>2. y \in Int /\ y >= 0 BY <2>1, SumNotLess
  <2>3. room \in Int /\ room >= c + Slack BY <1>14
  <2> HIDE DEF room, y
  <2>4. ~(room + y < c + Slack) BY <1>11, <2>2, <2>3
  <2> QED BY <2>4 DEF y, T
<1> HIDE DEF kept
<1>16. Evicted(kept, c + Slack) = {} BY <1>15 DEF Evicted, sizes
<1> QED BY <1>16 DEF kept, c

\* What the board takes of the plan it does not take from the Mac unsaid.
LEMMA HostKeepsPlan ==
  ASSUME TileInv, FilesFit, LinesTrue, JobTrue, SyncTrue, SyncHolds, HostLine, Working, ~ran
  PROVE  mac.plan \intersect (DOMAIN files \union lostTo.mac) \subseteq DOMAIN files' \union lostTo'.mac \union Uploading
<1> DEFINE l == toBoard[1]
<1>1. 1 \in DOMAIN toBoard /\ Head(toBoard) = l BY FirstLine
<1>2. DOMAIN lostTo = {"job", "mac"} /\ FileSet(files) /\ MacRight BY LinesAre DEF JobTrue, FilesFit
<1>3. l.cmd = "begin" => l.size = Chunks[l.tile] /\ l.tile \in Tile BY <1>1 DEF FilesFit, TileInv, SerialOK
<1>4. Doomed = mac.delete \union (IF l.cmd = "rm" THEN {l.tile} ELSE {}) /\ (Begins <=> l.cmd = "begin") BY HostOne
<1>5. \/ mac.state = "deleting" /\ l.cmd = "rm"
      \/ mac.state = "awaitAck" /\ l.cmd = "begin" /\ Uploading = {l.tile}
      \/ l.cmd \in {"data", "end"} /\ Stale \subseteq Uploading
  BY LineIs
<1> HIDE DEF l
<1>6. CASE l.cmd = "rm"
  <2>1. Erase(l.tile) BY <1>1, <1>6 DEF HostLine
  <2>2. files' = Without(files, {l.tile} \ Stale) /\ lostTo'.mac = lostTo.mac BY <1>2, <2>1 DEF Erase, TakenFromJob
  <2>3. DOMAIN files' = DOMAIN files \ ({l.tile} \ Stale) BY <1>2, <2>2, WithoutIs
  <2>4. l.tile \notin mac.plan BY <1>4, <1>6 DEF SyncHolds
  <2> QED BY <2>2, <2>3, <2>4
<1>7. CASE mac.state = "awaitAck" /\ l.cmd = "begin" /\ Uploading = {l.tile}
  <2> DEFINE kept == Without(files, Superseded)  needed == Chunks[l.tile] + Slack
             gone == IF needed > Blocks THEN {} ELSE Evicted(kept, needed)  rest == Without(kept, gone)
  <2>1. Begin(l.tile, Chunks[l.tile]) BY <1>1, <1>3, <1>7 DEF HostLine
  <2>2. lostTo'.mac = lostTo.mac \union Superseded /\ (files' = rest \/ files' = With(rest, l.tile, <<>>)) BY <2>1 DEF Begin
  <2>3. Doomed = {} /\ Begins /\ tmp = 0 BY <1>4, <1>7 DEF SyncTrue, SyncForm, LinesTrue
  <2>4. gone = {} BY <1>2, <1>3, <1>7, <2>3, NoneEvicted
  <2>5. FileSet(kept) /\ DOMAIN kept = DOMAIN files \ Superseded BY <1>2, WithoutIs
  <2> HIDE DEF kept, gone
  <2>6. DOMAIN rest = DOMAIN kept \ gone BY <2>5, WithoutIs
  <2> HIDE DEF rest
  <2>8. DOMAIN With(rest, l.tile, <<>>) = DOMAIN rest \union {l.tile} BY DEF With
  <2>7. DOMAIN rest \subseteq DOMAIN files' BY <2>2, <2>8
  <2> QED BY <2>2, <2>4, <2>5, <2>6, <2>7
<1>8. CASE l.cmd \in {"data", "end"} /\ Stale \subseteq Uploading
  <2>1. Data(l.q, l.chunk) \/ EndFile(l.crc) BY <1>1, <1>8 DEF HostLine
  <2>2. UNCHANGED files \/ files' = Without(files, Stale) \/ \E c : files' = [files EXCEPT ![open.tile] = c]
    BY <2>1 DEF Data, EndFile, Dropped
  <2>3. lostTo'.mac = lostTo.mac BY <1>2, <2>1 DEF Data, EndFile, Dropped, TakenFromJob
  <2>4. DOMAIN Without(files, Stale) = DOMAIN files \ Stale BY <1>2, WithoutIs
  <2>5. DOMAIN files \subseteq DOMAIN files' \union Uploading BY <1>8, <2>2, <2>4
  <2> QED BY <2>3, <2>5
<1> QED BY <1>5, <1>6, <1>7, <1>8

\* The board says that a tile is stored when it is there.
LEMMA HostSaysOk ==
  ASSUME TileInv, FilesFit, JobTrue, SyncTrue, HostLine, Working, DOMAIN toMac' = {1}, toMac'[1].type = "ok"
  PROVE  Uploading \subseteq DOMAIN files' \union lostTo'.mac
<1> DEFINE l == toBoard[1]
<1>1. 1 \in DOMAIN toBoard /\ Head(toBoard) = l /\ toMac = <<>> /\ AnswerTo(toMac'[1], l) BY FirstLine, HostOne
<1>2. l.cmd # "rm" => l.cmd = "end" /\ Stale \subseteq Uploading /\ Uploading = {mac.cur} /\ IsOpen BY <1>1, LineIs DEF AnswerTo
<1>3. l.cmd = "rm" => Uploading = {} BY LineIs
<1> HIDE DEF l
<1>4. CASE l.cmd = "end"
  <2>1. EndFile(l.crc) BY <1>1, <1>4 DEF HostLine
  <2>2. Stale = {open.tile} /\ open.tile = mac.cur /\ open.tile \in DOMAIN files BY <1>2, <1>4 DEF Stale, FilesFit
  <2>3. files' = files
    <3>1. CASE Say([type |-> "err"])
      <4> DEFINE e == [type |-> "err"]
      <4>1. toMac' = Append(<<>>, e) /\ e.type = "err" BY <1>1, <3>1 DEF Say
      <4> HIDE DEF e
      <4>2. toMac'[1] = e BY <4>1
      <4> QED BY <4>1, <4>2
    <3>2. CASE ~Say([type |-> "err"]) BY <2>1, <3>2 DEF EndFile, Dropped
    <3> QED BY <3>1, <3>2
  <2> QED BY <1>2, <1>4, <2>2, <2>3
<1> QED BY <1>2, <1>3, <1>4

LEMMA SyncHost ==
  ASSUME TileInv, FilesFit, FilesFit', LinesTrue, JobTrue, SyncTrue, SyncForm', HostLine
  PROVE  SyncTrue'
<1>1. SUFFICES ASSUME Working', mac'.known, ~ran', Outstanding' # 0 PROVE SyncHolds' BY DEF SyncTrue
<1>2. mac' = mac /\ Working /\ ran' = ran /\ toBoard # <<>> BY <1>1 DEF HostLine, Working
<1>3. Outstanding # 0
  <2>1. toBoard \in Seq(Elems(toBoard)) /\ toMac \in Seq(Elems(toMac)) BY <1>2, OneOut
  <2>2. Len(toBoard) \in Nat \ {0} /\ Len(toMac) \in Nat BY <1>2, <2>1
  <2> QED BY <2>2 DEF Outstanding
<1>4. SyncHolds /\ MacRight /\ ~ran BY <1>1, <1>2, <1>3, LinesAre DEF SyncTrue
<1>5. /\ toBoard' = <<>> /\ Doomed' = mac.delete /\ Doomed = mac.delete \union (IF toBoard[1].cmd = "rm" THEN {toBoard[1].tile} ELSE {})
      /\ ~Begins' /\ (toMac' = <<>> \/ DOMAIN toMac' = {1})
  BY <1>2, HostOne
<1>6. toMac' # <<>> BY <1>1, <1>5, NoneOut
<1>7. DOMAIN toMac' = {1} BY <1>5, <1>6
<1>8. \A i \in DOMAIN toMac' : toMac'[i].type = "ok" => Uploading \subseteq DOMAIN files' \union lostTo'.mac BY <1>2, <1>7, HostSaysOk
<1>9. mac.plan \intersect (DOMAIN files \union lostTo.mac) \subseteq DOMAIN files' \union lostTo'.mac \union Uploading BY <1>2, <1>4, HostKeepsPlan
<1>10. Uploading' = Uploading BY <1>2 DEF Uploading
<1>11. ASSUME NEW t \in Tile PROVE Claims'[t] <= Claims[t]
  <2> DEFINE disk == mac.disk  send == mac.send  a == Size(disk, t)  c == Chunks[t]  s == Stays(t)  r == Stays(t)'
  <2>1. Disk(disk) /\ s \in Nat /\ r \in Nat /\ a \in Nat /\ a <= c /\ c \in Nat BY <1>4, SizeIs, HoldingIs, AfterIs, TilesAre DEF MacRight
  <2>2. Claims[t] = ClaimOf(disk, send, Doomed, Uploading, Begins, s, t) BY ClaimsAre
  <2>3. Claims'[t] = ClaimOf(disk, send, Doomed', Uploading, Begins', r, t) BY <1>2, <1>10, ClaimsAre
  <2>4. t \notin Uploading => r <= s /\ (toBoard[1].cmd = "rm" /\ t = toBoard[1].tile => r = 0) BY <1>2, HostStays
  <2> HIDE DEF a, c, s, r, Disk
  <2> DEFINE g == Greater(a, s)  h == Greater(a, r)
  <2>5. g \in Nat /\ h \in Nat /\ g >= a /\ (r <= s => h <= g)
    <3>1. a \in Nat /\ s \in Nat /\ r \in Nat BY <2>1
    <3> QED BY <3>1, GreaterIs, GreaterNoMore
  <2>6. /\ Claims[t] = IF t \in Uploading THEN IF Begins THEN c - a + g ELSE c ELSE IF t \in send THEN g ELSE IF t \in Doomed THEN 0 ELSE s
        /\ Claims'[t] = IF t \in Uploading THEN c ELSE IF t \in send THEN h ELSE IF t \in Doomed' THEN 0 ELSE r
    BY <1>5, <2>2, <2>3 DEF ClaimOf, a, c
  <2> HIDE DEF g, h
  <2>7. CASE t \in Uploading
    <3>1. Claims'[t] = c /\ (Claims[t] = c \/ Claims[t] = c - a + g) BY <2>6, <2>7
    <3> QED BY <2>1, <2>5, <3>1
  <2>8. CASE t \notin Uploading
    <3>1. r <= s /\ h <= g BY <2>4, <2>5, <2>8
    <3>2. CASE t \in send
      <4>1. Claims'[t] = h /\ Claims[t] = g BY <2>6, <2>8, <3>2
      <4> QED BY <3>1, <4>1
    <3>3. CASE t \notin send /\ t \in Doomed
      <4>1. Claims[t] = 0 /\ (Claims'[t] = 0 \/ Claims'[t] = r) /\ (t \notin Doomed' => r = 0) BY <1>5, <2>4, <2>6, <2>8, <3>3
      <4>2. Claims'[t] = 0 BY <2>6, <2>8, <3>3, <4>1
      <4> QED BY <4>1, <4>2
    <3>4. CASE t \notin send /\ t \notin Doomed
      <4>1. t \notin Doomed' BY <1>5, <3>4
      <4>2. Claims[t] = s /\ Claims'[t] = r BY <2>6, <2>8, <3>4, <4>1
      <4> QED BY <3>1, <4>2
    <3> QED BY <3>2, <3>3, <3>4
  <2> QED BY <2>7, <2>8
<1>12. Doomed' \subseteq Doomed BY <1>5
<1> QED BY <1>2, <1>4, <1>8, <1>9, <1>11, <1>12, HoldsOn

\* Steps that are not of the board's commands or of the Mac.
LEMMA SyncElse ==
  ASSUME TileInv, FilesFit, FilesFit', LinesTrue, JobTrue, SyncTrue, SyncForm', Free' >= Free \/ ran',
         CutPower \/ LoseTileLine \/ JobStep \/ UNCHANGED tileVars
  PROVE  SyncTrue'
<1>1. SUFFICES ASSUME Working', mac'.known, ~ran', Outstanding' # 0 PROVE SyncHolds' BY DEF SyncTrue
<1>2. MacRight BY LinesAre
<1>3. ASSUME NoneLost, open' = open, mac' = mac, ~ran, Outstanding # 0, Doomed' = Doomed, Begins' = Begins,
             \A i \in DOMAIN toMac' : \E j \in DOMAIN toMac : toMac'[i] = toMac[j]
      PROVE  SyncHolds'
  <2>1. SyncHolds /\ Uploading' = Uploading BY <1>1, <1>3 DEF SyncTrue, Working, Uploading
  <2>2. ASSUME NEW t \in Tile PROVE Claims'[t] <= Claims[t]
    <3>1. Stays(t)' <= Stays(t)
      <4> DEFINE h == Had(files, t)  n == Had(files', t)  k == IF t = open.tile THEN Len(open.before) ELSE 0
      <4>1. Holding(t) = h + k /\ Holding(t)' = n + k BY <1>3 DEF Holding, Had
      <4>2. h \in Nat /\ n \in Nat /\ k \in Nat BY HoldingIs, AfterIs, FreeIs
      <4>3. Holding(t)' <= Holding(t) BY <1>3 DEF NoneLost
      <4> HIDE DEF h, n, k
      <4>4. n <= h BY <4>1, <4>2, <4>3
      <4>5. Stale' = Stale BY <1>3 DEF Stale, IsOpen
      <4> QED BY <4>4, <4>5, StaysLess DEF h, n
    <3> DEFINE disk == mac.disk  s == Stays(t)  r == Stays(t)'
    <3>2. Disk(disk) /\ s \in Nat /\ r \in Nat /\ r <= s BY <1>2, <3>1, HoldingIs, AfterIs DEF MacRight
    <3>3. Claims[t] = ClaimOf(disk, mac.send, Doomed, Uploading, Begins, s, t) BY ClaimsAre
    <3>4. Claims'[t] = ClaimOf(disk, mac.send, Doomed, Uploading, Begins, r, t) BY <1>3, <2>1, ClaimsAre
    <3> HIDE DEF disk, s, r, Disk
    <3>5. ClaimOf(disk, mac.send, Doomed, Uploading, Begins, r, t) <= ClaimOf(disk, mac.send, Doomed, Uploading, Begins, s, t)
      BY <3>2, ClaimIs, Zenon
    <3> QED BY <3>3, <3>4, <3>5
  <2>3. \A i \in DOMAIN toMac' : toMac'[i].type = "ok" => Uploading \subseteq DOMAIN files' \union lostTo'.mac
    BY <1>3, <2>1 DEF SyncHolds, NoneLost
  <2>4. mac.plan \intersect (DOMAIN files \union lostTo.mac) \subseteq DOMAIN files' \union lostTo'.mac \union Uploading
    BY <1>3 DEF NoneLost
  <2>5. Doomed' \subseteq Doomed BY <1>3
  <2> QED BY <1>2, <1>3, <2>1, <2>2, <2>3, <2>4, <2>5, HoldsOn
<1>4. ASSUME UNCHANGED <<toBoard, mac>> PROVE Doomed' = Doomed /\ Begins' = Begins BY <1>4 DEF Doomed, Begins
<1>5. \A t \in Tile : Holding(t) \in Nat BY HoldingIs
<1>6. ASSUME UNCHANGED <<files, open, lostTo>>, Free' >= Free PROVE NoneLost
  <2>1. \A t : Holding(t)' = Holding(t) BY <1>6, SameHolding
  <2> QED BY <1>5, <1>6, <2>1 DEF NoneLost
<1>7. CASE CutPower BY <1>1, <1>7, NoneOut DEF CutPower
<1>8. CASE JobStep
  <2>1. UNCHANGED <<mac, toBoard, toMac, open>>
    BY <1>8 DEF JobStep, Quiet, JobStart, Cancel, JobPlan, JobEvict, JobWalk, JobFetch, JobRename, jobOnly
  <2>2. ~ran /\ NoneLost BY <1>1, <1>8, JobLosesNone
  <2>3. Outstanding # 0 BY <1>1, <2>1 DEF Outstanding
  <2> QED BY <1>3, <1>4, <2>1, <2>2, <2>3
<1>9. CASE UNCHANGED tileVars
  <2>1. UNCHANGED <<mac, toBoard, toMac, open, files, lostTo, ran>> BY <1>9 DEF tileVars
  <2>2. ran' = ran BY <2>1
  <2>3. Free' >= Free /\ ~ran BY <1>1, <2>2
  <2>4. Outstanding # 0 BY <1>1, <2>1 DEF Outstanding
  <2> QED BY <1>3, <1>4, <1>6, <2>1, <2>3, <2>4
<1>10. CASE LoseTileLine
  <2>1. UNCHANGED <<mac, open, files, lostTo, ran>> BY <1>10 DEF LoseTileLine, tileBoard
  <2>2. Working BY <1>1, <2>1 DEF Working
  <2>3. ran' = ran BY <2>1
  <2>4. Free' >= Free /\ ~ran BY <1>1, <2>3
  <2>5. CASE toBoard # <<>> /\ toBoard' = Tail(toBoard) /\ UNCHANGED toMac BY <1>1, <2>2, <2>5, NoneOut, OneOut
  <2>6. CASE toMac # <<>> /\ toMac' = Tail(toMac) /\ UNCHANGED toBoard BY <1>1, <2>2, <2>6, NoneOut, OneOut
  <2>7. ASSUME NEW e, e.cmd = "data", toBoard # <<>>, Head(toBoard).cmd = "data", toBoard' = <<e>> \o Tail(toBoard), UNCHANGED toMac
        PROVE  SyncHolds'
    <3>1. Tail(toBoard) = <<>> /\ DOMAIN toBoard = {1} /\ toBoard \in Seq(Elems(toBoard)) BY <2>2, <2>7, OneOut
    <3>2. Head(toBoard) = toBoard[1] BY <2>7, <3>1, LineTaken
    <3> DEFINE s == <<e>> \o Tail(toBoard)
    <3>3. DOMAIN s = DOMAIN toBoard /\ s[1] = e BY <2>7, <3>1, LineReplaced
    <3>8. toBoard' = s BY <2>7
    <3> HIDE DEF s
    <3>4. DOMAIN toBoard' = {1} /\ toBoard'[1] = e BY <3>1, <3>3, <3>8
    <3>5. toBoard[1].cmd = "data" BY <2>7, <3>2
    <3>6. Doomed' = Doomed /\ Begins' = Begins BY <2>1, <2>7, <3>1, <3>4, <3>5 DEF Doomed, Begins
    <3>7. Outstanding # 0
      <4>1. toMac \in Seq(Elems(toMac)) BY <2>2, OneOut
      <4>2. Len(toBoard) \in Nat \ {0} /\ Len(toMac) \in Nat BY <2>7, <3>1, <4>1
      <4> QED BY <4>2 DEF Outstanding
    <3> QED BY <1>3, <1>6, <2>1, <2>4, <2>7, <3>6, <3>7
  <2> QED BY <1>10, <2>5, <2>6, <2>7 DEF LoseTileLine
<1> QED BY <1>7, <1>8, <1>9, <1>10

\* The Mac, when it goes on with m: there is room for what is still to be sent.
Asking(m) == [t \in Tile |-> ClaimOf(m.disk, m.send, m.delete, {}, FALSE, Stays(t), t)]
Ready(m) ==
  /\ m.free \in Int /\ Disk(m.disk) /\ Lacking(m.disk, m.send)
  /\ m.free + Total(Asking(m)) <= Blocks
  /\ m.plan \subseteq DOMAIN files \union lostTo'.mac \union m.send
  /\ m.delete \intersect m.plan = {}

LEMMA AskingIs ==
  ASSUME FilesFit, NEW m, Disk(m.disk)
  PROVE  \A t \in Tile : /\ Asking(m)[t] \in Int
                         /\ Asking(m)[t] = IF t \in m.send THEN Greater(Size(m.disk, t), Stays(t)) ELSE IF t \in m.delete THEN 0 ELSE Stays(t)
<1> SUFFICES ASSUME NEW t \in Tile
             PROVE  /\ Asking(m)[t] \in Int
                    /\ Asking(m)[t] = IF t \in m.send THEN Greater(Size(m.disk, t), Stays(t)) ELSE IF t \in m.delete THEN 0 ELSE Stays(t)
  OBVIOUS
<1>1. Asking(m)[t] = IF t \in m.send THEN Greater(Size(m.disk, t), Stays(t)) ELSE IF t \in m.delete THEN 0 ELSE Stays(t)
  BY DEF Asking, ClaimOf
<1>2. Size(m.disk, t) \in Nat /\ Stays(t) \in Nat BY SizeIs, HoldingIs
<1>3. Greater(Size(m.disk, t), Stays(t)) \in Nat BY <1>2, GreaterIs
<1> QED BY <1>1, <1>2, <1>3

LEMMA MovedHolds ==
  ASSUME FilesFit, FilesFit', NEW m, Ready(m), m.known, toBoard = <<>>, toMac' = <<>>, UNCHANGED <<files, open>>,
         (m.delete = {} /\ \E t : Uploads(m, t)) \/ \E t : Deletes(m, t)
  PROVE  SyncHolds'
<1>1. \A t : Stays(t)' = Stays(t) BY DEF Stays, Had, Stale, IsOpen
<1>2. DOMAIN toMac' = {} OBVIOUS
<1>3. Total(Claims)' = Total(Claims') BY DEF Total, Sum
<1>4. CASE \E t : Deletes(m, t)
  <2>1. PICK t : Deletes(m, t) BY <1>4
  <2> DEFINE l == [cmd |-> "rm", tile |-> t]
  <2>2. toBoard' = <<l>> /\ l.cmd = "rm" /\ l.tile = t BY <2>1 DEF Deletes
  <2> HIDE DEF l
  <2>3. DOMAIN toBoard' = {1} /\ toBoard'[1] = l BY <2>2
  <2>4. /\ mac'.state = "deleting" /\ mac'.disk = m.disk /\ mac'.send = m.send /\ mac'.delete = m.delete \ {t} /\ t \in m.delete
        /\ mac'.free = m.free /\ mac'.plan = m.plan
    BY <2>1 DEF Deletes
  <2>5. Doomed' = m.delete BY <2>2, <2>3, <2>4 DEF Doomed
  <2>6. Uploading' = {} /\ Begins' = FALSE BY <2>2, <2>3, <2>4 DEF Uploading, Begins
  <2>7. Claims' = Asking(m) BY <1>1, <2>4, <2>5, <2>6, ClaimsAre DEF Asking
  <2>8. (mac.free + Total(Claims) <= Blocks)' BY <1>3, <2>4, <2>7 DEF Ready
  <2> QED BY <1>2, <2>4, <2>5, <2>6, <2>8 DEF Ready, SyncHolds, HasPlan
<1>5. CASE m.delete = {} /\ \E t : Uploads(m, t)
  <2>1. PICK t : Uploads(m, t) BY <1>5
  <2> DEFINE l == [cmd |-> "begin", tile |-> t, size |-> Chunks[t]]
  <2>2. toBoard' = <<l>> /\ l.cmd = "begin" /\ l.tile = t BY <2>1 DEF Uploads
  <2> HIDE DEF l
  <2>3. DOMAIN toBoard' = {1} /\ toBoard'[1] = l BY <2>2
  <2>4. /\ mac'.state = "awaitAck" /\ mac'.disk = m.disk /\ mac'.send = m.send \ {t} /\ mac'.delete = {} /\ t \in m.send
        /\ mac'.cur = t /\ mac'.plan = m.plan /\ mac'.free = m.free - Grows(m, t) /\ (Grows(m, t) > 0 => mac'.free >= KeepFree)
    BY <1>5, <2>1 DEF Uploads
  <2>5. Doomed' = {} BY <2>2, <2>3, <2>4 DEF Doomed
  <2>6. Uploading' = {t} /\ Begins' = TRUE BY <2>2, <2>3, <2>4 DEF Uploading, Begins
  <2>7. t \in Tile /\ Size(m.disk, t) < Chunks[t] /\ Disk(m.disk) BY <2>4 DEF Ready, Lacking
  <2> DEFINE v == Claims'  w == Asking(m)  d == Grows(m, t)
  <2>8. d \in Nat /\ d > 0 /\ d = Chunks[t] - Size(m.disk, t) BY <2>7, GrowsIs, SizeIs, TilesAre
  <2>9. ASSUME NEW u \in Tile PROVE v[u] \in Int /\ w[u] \in Int /\ v[u] <= w[u] + (IF u = t THEN d ELSE 0)
    <3> DEFINE a == Size(m.disk, u)  s == Stays(u)  g == Greater(a, s)  c == Chunks[u]
    <3>1. a \in Nat /\ s \in Nat /\ c \in Nat BY <2>7, SizeIs, HoldingIs, TilesAre
    <3>2. w[u] = IF u \in m.send THEN g ELSE s BY <1>5, <2>7, AskingIs
    <3>3. v[u] = IF u = t THEN c - a + g ELSE IF u \in m.send THEN g ELSE s
      BY <1>1, <2>4, <2>5, <2>6, ClaimsAre DEF ClaimOf
    <3>4. u = t => d = c - a BY <2>8
    <3> HIDE DEF a, s, c, v, w, d
    <3>5. g \in Nat BY <3>1, GreaterIs
    <3> HIDE DEF g
    <3>6. CASE u = t
      <4>1. w[u] = g /\ v[u] = c - a + g /\ d = c - a BY <2>4, <3>2, <3>3, <3>4, <3>6
      <4> QED BY <3>1, <3>5, <3>6, <4>1
    <3>7. CASE u # t BY <3>1, <3>2, <3>3, <3>5, <3>7
    <3> QED BY <3>6, <3>7
  <2> HIDE DEF v, w, d
  <2>10. Total(v) \in Int /\ Total(w) \in Int /\ Total(v) <= Total(w) + d
    <3>1. d \in Int /\ (d >= 0 \/ t \in Tile) BY <2>7, <2>8
    <3>2. \A u \in Tile : v[u] \in Int /\ w[u] \in Int BY <2>9
    <3>3. \A u \in Tile : v[u] <= w[u] + (IF u = t THEN d ELSE 0) BY <2>9
    <3> QED BY <3>1, <3>2, <3>3, TotalAtMost, Zenon
  <2> DEFINE x == Total(v)  y == Total(w)  f == m.free
  <2>11. f \in Int /\ f + y <= Blocks /\ Blocks \in Nat BY TileAssumption DEF Ready, w
  <2>12. mac'.free = f - d BY <2>4 DEF d
  <2> HIDE DEF x, y, f
  <2>13. (f - d) + x <= Blocks BY <2>8, <2>10, <2>11 DEF x, y
  <2>14. (mac.free + Total(Claims) <= Blocks)' BY <1>3, <2>12, <2>13 DEF x, v
  <2>15. mac'.free >= KeepFree BY <2>4, <2>8 DEF d
  <2> QED BY <1>2, <2>4, <2>5, <2>6, <2>14, <2>15 DEF Ready, SyncHolds, HasPlan
<1> QED BY <1>4, <1>5

\* The queue is made from the list.
LEMMA QueuesReady ==
  ASSUME FilesFit, mac.plan \subseteq Tile, MacRight, mac.known, AsListed(mac.disk), NEW m, NEW gone, Queues(m, gone),
         DOMAIN lostTo = {"job", "mac"}, lostTo.mac \subseteq lostTo'.mac
  PROVE  Ready(m)
<1> DEFINE disk == mac.disk  v == Asking(m)  w == [t \in Tile |-> Greater(Size(disk, t), Holding(t))]
<1>1. /\ m.free \in Int /\ m.disk = disk /\ m.plan = mac.plan /\ m.send \subseteq Wanted(mac, mac.plan) /\ m.delete = gone
      /\ m.free = mac.free + Sum(disk, gone) /\ gone \subseteq DOMAIN disk \ mac.plan
  BY DEF Queues
<1>2. Disk(disk) /\ mac.free \in Int BY DEF MacRight
<1>3. Lacking(disk, m.send) /\ m.send \subseteq mac.plan BY <1>1, <1>2, WantsLack DEF Lacking
<1>4. DOMAIN disk \subseteq DOMAIN files \union lostTo.mac /\ mac.free + Total(w) <= Blocks BY DEF AsListed, TakesUp
<1>5. m.plan \subseteq DOMAIN files \union lostTo'.mac \union m.send BY <1>1, <1>4 DEF Queues
<1>6. \A t \in Tile : Part(disk, gone, t) \in Nat BY <1>1, <1>2, DiskSum
<1> DEFINE h == [t \in Tile |-> Part(disk, gone, t) + v[t]]
<1>7. \A t \in Tile : /\ Part(disk, gone, t) \in Int /\ Part(v, Tile, t) \in Int
                      /\ Part(h, Tile, t) = Part(disk, gone, t) + Part(v, Tile, t)
  <2>1. \A t \in Tile : v[t] \in Int BY <1>1, <1>2, AskingIs
  <2> HIDE DEF v
  <2>2. \A t \in Tile : Part(v, Tile, t) = v[t] /\ Part(h, Tile, t) = Part(disk, gone, t) + v[t] BY DEF Part
  <2> HIDE DEF h
  <2>3. \A t \in Tile : Part(disk, gone, t) \in Int BY <1>6
  <2> HIDE DEF disk
  <2> QED BY <2>1, <2>2, <2>3, Zenon
<1>8. ASSUME NEW t \in Tile PROVE h[t] \in Int /\ w[t] \in Int /\ h[t] <= w[t]
  <2> DEFINE a == Size(disk, t)  s == Stays(t)  k == Holding(t)
  <2>1. a \in Nat /\ s \in Nat /\ k \in Nat /\ s <= k BY <1>2, SizeIs, HoldingIs
  <2>2. v[t] = IF t \in m.send THEN Greater(a, s) ELSE IF t \in m.delete THEN 0 ELSE s BY <1>1, <1>2, AskingIs
  <2>3. Part(disk, gone, t) = IF t \in gone THEN a ELSE 0 BY <1>1 DEF Part, Size
  <2>4. t \in gone => t \notin m.send BY <1>1, <1>3
  <2> DEFINE p == Part(disk, gone, t)
  <2>5. h[t] = p + v[t] /\ w[t] = Greater(a, k) OBVIOUS
  <2> HIDE DEF a, s, k, h, v, w, p
  <2> DEFINE g == Greater(a, s)  e == Greater(a, k)
  <2>6. g \in Nat /\ e \in Nat /\ g <= e /\ a <= e /\ k <= e BY <2>1, GreaterIs, GreaterNoMore
  <2> HIDE DEF g, e
  <2>7. p = IF t \in gone THEN a ELSE 0 BY <2>3 DEF p
  <2>8. v[t] = IF t \in m.send THEN g ELSE IF t \in gone THEN 0 ELSE s BY <1>1, <2>2 DEF g
  <2>9. w[t] = e BY <2>5 DEF e
  <2>10. CASE t \in gone
    <3>1. h[t] = a + 0 BY <2>4, <2>5, <2>7, <2>8, <2>10
    <3> QED BY <2>1, <2>6, <2>9, <3>1
  <2>11. CASE t \notin gone
    <3>1. h[t] = 0 + g \/ h[t] = 0 + s BY <2>5, <2>7, <2>8, <2>11
    <3> QED BY <2>1, <2>6, <2>9, <3>1
  <2> QED BY <2>10, <2>11
<1> HIDE DEF v, w, h, disk
<1>9. Sum(disk, gone) \in Int /\ Sum(v, Tile) \in Int /\ Sum(h, Tile) = Sum(disk, gone) + Sum(v, Tile) BY <1>7, SumOfParts
<1>10. Total(h) \in Int /\ Total(w) \in Int /\ Total(h) <= Total(w) BY <1>8, TotalNoMore
<1> DEFINE x == Total(w)  y == Total(v)  r == Sum(disk, gone)  f == mac.free  q == Total(h)
<1>11. q = r + y /\ r \in Int /\ y \in Int /\ x \in Int /\ q <= x BY <1>9, <1>10 DEF Total
<1>12. f \in Int /\ f + x <= Blocks /\ Blocks \in Nat /\ m.free = f + r BY <1>1, <1>2, <1>4, TileAssumption
<1> HIDE DEF x, y, r, f, q
<1>13. (f + r) + y <= Blocks BY <1>11, <1>12
<1>14. m.free + Total(v) <= Blocks BY <1>12, <1>13 DEF y
<1>15. m.delete \intersect m.plan = {} BY <1>1
<1> QED BY <1>1, <1>2, <1>3, <1>5, <1>14, <1>15 DEF Ready, v, disk

\* While an upload waits for its end, with the tile stored, the rest is ready.
LEMMA SentReady ==
  ASSUME TileInv, FilesFit, MacRight, SyncForm, SyncHolds, mac.state = "awaitOk", toBoard = <<>>, 1 \in DOMAIN toMac, toMac[1].type = "ok",
         lostTo.mac \subseteq lostTo'.mac
  PROVE  Ready(Sent(mac))
<1> DEFINE m == Sent(mac)  v == Asking(m)  w == Claims  f == mac.free
<1>1. m.disk = mac.disk /\ m.plan = mac.plan /\ m.send = mac.send /\ m.delete = mac.delete /\ m.free = mac.free BY DEF Sent, MacFields, TileInv, MacOK
<1>2. Uploading = {mac.cur} /\ ~Begins /\ Doomed = mac.delete /\ mac.delete = {} /\ Working /\ DOMAIN toBoard = {}
  BY DEF Uploading, Begins, Doomed, SyncForm, Working
<1>3. Lacking(mac.disk, mac.send \union {mac.cur}) /\ Disk(mac.disk) BY <1>2 DEF SyncForm, MacRight
<1>4. {mac.cur} \subseteq DOMAIN files \union lostTo.mac BY <1>2 DEF SyncHolds
<1>5. m.plan \subseteq DOMAIN files \union lostTo'.mac \union m.send BY <1>1, <1>2, <1>4 DEF SyncHolds, HasPlan
<1> HIDE DEF m
<1>6. ASSUME NEW t \in Tile PROVE v[t] \in Int /\ w[t] \in Int /\ v[t] <= w[t]
  <2> DEFINE a == Size(mac.disk, t)  s == Stays(t)  g == Greater(a, s)  c == Chunks[t]
  <2>1. a \in Nat /\ s \in Nat /\ c \in Nat /\ a <= c /\ s <= c
    <3>1. a \in Nat /\ c \in Nat /\ a <= c BY <1>3, SizeIs, TilesAre
    <3>2. s \in Nat /\ Had(files, t) \in Nat /\ s <= Had(files, t) /\ Had(files, t) <= c BY HoldingIs
    <3> DEFINE n == Had(files, t)
    <3> HIDE DEF s, n, c, a
    <3>3. s <= c BY <3>1, <3>2 DEF n
    <3> QED BY <3>1, <3>2, <3>3
  <2>2. v[t] = IF t \in mac.send THEN g ELSE s BY <1>1, <1>2, <1>3, AskingIs
  <2>3. w[t] = IF t = mac.cur THEN c ELSE IF t \in mac.send THEN g ELSE s BY <1>2, ClaimsAre DEF ClaimOf
  <2> HIDE DEF a, s, c, v, w
  <2>4. g \in Nat /\ g <= c BY <2>1, GreaterIs
  <2> HIDE DEF g
  <2>5. CASE t = mac.cur
    <3>1. w[t] = c /\ (v[t] = g \/ v[t] = s) BY <2>2, <2>3, <2>5
    <3> QED BY <2>1, <2>4, <3>1
  <2>6. CASE t # mac.cur
    <3>1. w[t] = v[t] /\ (v[t] = g \/ v[t] = s) BY <2>2, <2>3, <2>6
    <3> QED BY <2>1, <2>4, <3>1
  <2> QED BY <2>5, <2>6
<1>7. f \in Int /\ f + Total(w) <= Blocks /\ Blocks \in Nat BY TileAssumption DEF SyncHolds, MacRight
<1> HIDE DEF v, w, f
<1>8. Total(v) \in Int /\ Total(w) \in Int /\ Total(v) <= Total(w) BY <1>6, TotalNoMore
<1>9. f + Total(v) <= Blocks BY <1>7, <1>8
<1>10. Lacking(m.disk, m.send) BY <1>1, <1>3 DEF Lacking
<1>11. m.free + Total(v) <= Blocks /\ m.free \in Int BY <1>1, <1>7, <1>9 DEF f
<1>12. m.delete \intersect m.plan = {} BY <1>1, <1>2
<1> QED BY <1>1, <1>3, <1>5, <1>10, <1>11, <1>12 DEF Ready, v, m

\* And so it is once a tile is deleted.
LEMMA DeletedReady ==
  ASSUME TileInv, FilesFit, MacRight, SyncForm, SyncHolds, mac.state = "deleting", toBoard = <<>>, lostTo.mac \subseteq lostTo'.mac
  PROVE  Ready(mac)
<1>1. Uploading = {} /\ ~Begins /\ Doomed = mac.delete /\ Working BY DEF Uploading, Begins, Doomed, Working
<1>2. Claims = Asking(mac)
  <2>1. \A t \in Tile : ClaimOf(mac.disk, mac.send, Doomed, Uploading, Begins, Stays(t), t) = ClaimOf(mac.disk, mac.send, mac.delete, {}, FALSE, Stays(t), t)
    BY <1>1 DEF ClaimOf
  <2> QED BY <2>1, ClaimsAre DEF Asking
<1>3. Lacking(mac.disk, mac.send) BY <1>1 DEF SyncForm, Lacking
<1>4. mac.plan \subseteq DOMAIN files \union lostTo'.mac \union mac.send BY <1>1 DEF SyncHolds, HasPlan
<1>5. mac.free + Total(Asking(mac)) <= Blocks BY <1>2 DEF SyncHolds
<1> QED BY <1>1, <1>3, <1>4, <1>5 DEF Ready, MacRight, SyncHolds

LEMMA SyncMac ==
  ASSUME TileInv, FilesFit, FilesFit', LinesTrue, MacTrue, SyncTrue, JobTrue, SyncForm', MacStep
  PROVE  SyncTrue'
<1>1. SUFFICES ASSUME Working', mac'.known, ~ran', Outstanding' # 0 PROVE SyncHolds' BY DEF SyncTrue
<1>0. DOMAIN lostTo = {"job", "mac"} /\ lostTo.mac \subseteq lostTo'.mac BY MacLoses DEF JobTrue
<1>2. /\ UNCHANGED <<files, open>> /\ MacRight /\ DOMAIN mac = MacFields /\ mac.delete \subseteq Tile /\ mac.plan \subseteq Tile /\ SyncForm
  BY MacLeaves, LinesAre DEF TileInv, MacOK, SyncTrue, SyncForm
<1>3. mac'.state \notin {"idle", "awaitStat", "awaitList"} BY <1>1 DEF Working
<1>4. ~MacPlan /\ mac' # Failed(mac) BY <1>3 DEF MacPlan, Failed, MacIdle
<1>5. ran' = ran BY <1>4 DEF MacStep, MacSend, MacHandle, MacTimeout
<1>6. ASSUME NEW m, DOMAIN m = MacFields, ListDevice(m) PROVE FALSE BY <1>3, <1>6 DEF ListDevice, MacFields
<1>7. ASSUME NEW d, MakePlan(mac, d) PROVE FALSE BY <1>2, <1>3, <1>7 DEF MakePlan, MacFields
<1>8. ASSUME NEW m, Finishes(m) PROVE FALSE BY <1>3, <1>8 DEF Finishes
<1>9. ASSUME NEW m, (\E t : Uploads(m, t)) \/ \E t : Deletes(m, t) PROVE m.known = mac'.known BY <1>9 DEF Uploads, Deletes
<1>10. ASSUME MacSend, toBoard = <<>>, toMac = <<>>, NEW m, NEW gone, Queues(m, gone), (gone = {} /\ \E t : Uploads(m, t)) \/ \E t : Deletes(m, t)
       PROVE  SyncHolds'
  <2>1. mac.planned /\ toMac' = <<>> BY <1>10 DEF MacSend
  <2>2. m.known = mac.known /\ m.delete = gone /\ m.known = mac'.known BY <1>9, <1>10 DEF Queues
  <2>3. AsListed(mac.disk) BY <1>1, <1>5, <2>1 DEF MacTrue
  <2>4. Ready(m) BY <1>0, <1>1, <1>2, <1>10, <2>2, <2>3, QueuesReady
  <2>5. (m.delete = {} /\ \E t : Uploads(m, t)) \/ \E t : Deletes(m, t) BY <1>10, <2>2
  <2> QED BY <1>1, <1>2, <1>10, <2>1, <2>2, <2>4, <2>5, MovedHolds
<1>11. ASSUME 1 \in DOMAIN toMac, mac.state = "deleting", toBoard = <<>>, toMac' = <<>>,
              (mac.delete = {} /\ \E t : Uploads(mac, t)) \/ \E t : Deletes(mac, t)
       PROVE  SyncHolds'
  <2>1. mac.known /\ Outstanding # 0 BY <1>1, <1>9, <1>11, AnswerOut
  <2>2. SyncHolds BY <1>1, <1>5, <1>11, <2>1 DEF SyncTrue, Working
  <2>3. Ready(mac) BY <1>0, <1>2, <1>11, <2>2, DeletedReady
  <2> QED BY <1>2, <1>11, <2>1, <2>3, MovedHolds
<1>12. ASSUME 1 \in DOMAIN toMac, toMac[1].type = "ok", mac.state = "awaitOk", toBoard = <<>>, toMac' = <<>>, \E t : Uploads(Sent(mac), t)
       PROVE  SyncHolds'
  <2> DEFINE m == Sent(mac)
  <2>1. m.known = mac.known /\ m.delete = mac.delete /\ mac.delete = {} BY <1>2, <1>12 DEF Sent, MacFields, SyncForm
  <2>2. \E t : Uploads(m, t) BY <1>12
  <2>3. mac.known
    <3> HIDE DEF m
    <3> QED BY <1>1, <1>9, <2>1, <2>2
  <2>4. SyncHolds BY <1>1, <1>5, <1>12, <2>3, AnswerOut DEF SyncTrue, Working
  <2>5. Ready(m) BY <1>0, <1>2, <1>12, <2>4, SentReady
  <2> HIDE DEF m
  <2> QED BY <1>2, <1>12, <2>1, <2>2, <2>3, <2>5, MovedHolds
<1>13. ASSUME 1 \in DOMAIN toMac, mac.state = "awaitAck", toBoard = <<>>, toMac' = <<>>, NextChunk(mac)
       PROVE  SyncHolds'
  <2>1. /\ mac'.state \in {"awaitAck", "awaitOk"} /\ mac'.send = mac.send /\ mac'.delete = mac.delete /\ mac'.plan = mac.plan
        /\ mac'.disk = mac.disk /\ mac'.cur = mac.cur /\ mac'.free = mac.free /\ mac'.known = mac.known
    BY <1>2, <1>13 DEF NextChunk, MacFields
  <2>2. SyncHolds BY <1>1, <1>5, <1>13, <2>1, AnswerOut DEF SyncTrue, Working
  <2>3. \E l : toBoard' = <<l>> /\ l.cmd \in {"data", "end"} BY <1>13 DEF NextChunk, AskBoard
  <2>4. PICK l : toBoard' = <<l>> /\ l.cmd \in {"data", "end"} BY <2>3
  <2>5. DOMAIN toBoard' = {1} /\ toBoard'[1] = l /\ DOMAIN toBoard = {} BY <1>13, <2>4
  <2>6. Doomed' = Doomed /\ Begins' = FALSE /\ Begins = FALSE /\ Uploading' = Uploading BY <1>13, <2>1, <2>4, <2>5 DEF Doomed, Begins, Uploading
  <2>7. \A t : Stays(t)' = Stays(t) BY <1>2 DEF Stays, Had, Stale, IsOpen
  <2>8. Claims' = Claims BY <2>1, <2>6, <2>7, ClaimsAre
  <2>9. Total(Claims)' = Total(Claims) BY <2>8 DEF Total, Sum
  <2>10. DOMAIN toMac' = {} BY <1>13
  <2> QED BY <1>0, <1>2, <1>13, <2>1, <2>2, <2>6, <2>9, <2>10 DEF SyncHolds, HasPlan
<1>14. ASSUME UNCHANGED <<mac, toBoard>>, MacHandle PROVE FALSE
  <2>1. Working /\ toMac # <<>> /\ toMac' = Tail(toMac) BY <1>1, <1>14 DEF Working, MacHandle
  <2>2. toBoard' = <<>> /\ toMac' = <<>> BY <1>14, <2>1, OneOut
  <2> QED BY <1>1, <2>2, NoneOut
<1>15. ~ListDevice(mac) BY <1>2, <1>6
<1>16. ~ListDevice([mac EXCEPT !.known = TRUE, !.free = toMac[1].free])
  <2> DEFINE m == [mac EXCEPT !.known = TRUE, !.free = toMac[1].free]
  <2>1. DOMAIN m = MacFields BY <1>2
  <2> HIDE DEF m
  <2>2. ~ListDevice(m) BY <1>6, <2>1
  <2> QED BY <2>2 DEF m
<1> QED BY <1>2, <1>4, <1>7, <1>8, <1>10, <1>11, <1>12, <1>13, <1>14, <1>15, <1>16, MacMoves

-----------------------------------------------------------------------------
(* All of it *)

PlanInv == TileInv /\ FilesFit /\ LinesTrue /\ MacTrue /\ SyncTrue /\ JobTrue

LEMMA PlanInit == TileInit => PlanInv
<1> SUFFICES ASSUME TileInit PROVE PlanInv OBVIOUS
<1>1. /\ tmp = 0 /\ toBoard = <<>> /\ toMac = <<>> /\ mac = MacIdle /\ job = NoJob /\ lostTo = [job |-> {}, mac |-> {}] BY DEF TileInit
<1>2. TileInv /\ FilesFit BY TileInitInv, InitFits
<1>3. /\ mac.state = "idle" /\ mac.planned = FALSE /\ mac.free = 0 /\ mac.disk = <<>> /\ mac.send = {} /\ mac.delete = {} /\ mac.done = "not"
      /\ mac.plan = {}
  BY <1>1 DEF MacIdle
<1>4. Disk(mac.disk) BY <1>3 DEF Disk
<1>5. LinesTrue BY <1>1, <1>3, <1>4 DEF LinesTrue
<1>6. MacTrue BY <1>3 DEF MacTrue
<1>7. SyncTrue BY <1>3 DEF SyncTrue, SyncForm, Working
<1>8. JobTrue BY <1>1 DEF JobTrue, NoJob, JobFields
<1> QED BY <1>2, <1>5, <1>6, <1>7, <1>8 DEF PlanInv

LEMMA PlanStep ==
  ASSUME Timely
  PROVE  PlanInv /\ [TileNext]_tileVars => PlanInv'
<1> SUFFICES ASSUME PlanInv, [TileNext]_tileVars PROVE PlanInv' OBVIOUS
<1>1. TileInv /\ FilesFit /\ LinesTrue /\ MacTrue /\ SyncTrue /\ JobTrue /\ SyncForm /\ mac.delete \subseteq Tile /\ Free \in Int
  BY FreeIs DEF PlanInv, SyncTrue, SyncForm, FilesFit
<1>2. TileInv' BY <1>1, TileStep
<1>3. JobTrue' BY <1>1, JobStays
<1>4. SyncForm' BY <1>1, SyncsInForm
<1>5. CASE HostLine
  <2>1. FilesFit' BY <1>1, <1>5, HostFits
  <2>2. LinesTrue' BY <1>1, <1>5, <2>1, HostLinesTrue
  <2>3. MacTrue' BY <1>1, <1>5, <2>1, MacTrueHost
  <2>4. SyncTrue' BY <1>1, <1>4, <1>5, <2>1, SyncHost
  <2> QED BY <1>2, <1>3, <2>1, <2>2, <2>3, <2>4 DEF PlanInv
<1>6. CASE MacStep
  <2>1. FilesFit' /\ Free' = Free BY <1>1, <1>6, MacFits
  <2>2. LinesTrue' BY <1>1, <1>6, <2>1, MacLinesTrue
  <2>3. MacTrue' BY <1>1, <1>2, <1>6, <2>1, MacTrueMac
  <2>4. SyncTrue' BY <1>1, <1>4, <1>6, <2>1, SyncMac
  <2> QED BY <1>2, <1>3, <2>1, <2>2, <2>3, <2>4 DEF PlanInv
<1>7. CASE CutPower \/ LoseTileLine \/ JobStep \/ UNCHANGED tileVars
  <2>1. FilesFit' /\ LinesTrue' /\ (Free' >= Free \/ ran')
    <3>1. CASE CutPower BY <1>1, <3>1, PowerFits, PowerLinesTrue
    <3>2. CASE LoseTileLine
      <4>1. FilesFit' /\ Free' = Free BY <1>1, <3>2, LoseFits
      <4>2. Free' >= Free BY <1>1, <4>1
      <4> QED BY <1>1, <3>2, <4>1, <4>2, LoseLinesTrue
    <3>3. CASE JobStep
      <4>1. FilesFit' /\ (Free' >= Free \/ ran') BY <1>1, <3>3, JobKeepsFit
      <4> QED BY <1>1, <3>3, <4>1, JobLinesTrue
    <3>4. CASE UNCHANGED tileVars
      <4>1. UNCHANGED <<files, open, tmp, torn, toBoard, toMac, mac, job, ran>> BY <3>4 DEF tileVars
      <4>2. FileSet(files') /\ OpenFits' /\ Free' = Free BY <1>1, <4>1, SameFit
      <4>3. Free' >= Free BY <1>1, <4>2
      <4>4. FilesFit' BY <1>1, <4>1, <4>2, <4>3 DEF FilesFit, OpenFits
      <4>5. LinesTrue' BY <1>1, <4>1, <4>2 DEF LinesTrue, Asks, Disk
      <4> QED BY <4>3, <4>4, <4>5
    <3> QED BY <1>7, <3>1, <3>2, <3>3, <3>4
  <2>2. MacTrue' BY <1>1, <1>7, <2>1, MacTrueElse
  <2>3. SyncTrue' BY <1>1, <1>4, <1>7, <2>1, SyncElse
  <2> QED BY <1>2, <1>3, <2>1, <2>2, <2>3 DEF PlanInv
<1> QED BY <1>5, <1>6, <1>7 DEF TileNext, MacStep, JobStep

\* Both writers keep what they plan. When the Wi-Fi job says that nothing of its
\* plan is left (net_job_tiles), every tile of it is there, but for what uploads
\* have taken; when the Mac has nothing left to send of a plan that knew the
\* board's space (TileSync nextFile), every tile of that is there that the board
\* had or the Mac could send, but for what a job took or an upload of before left
\* open, unless the job wrote meanwhile: the board's own eviction (ts_evict)
\* never takes a tile of the plan, whatever of it the Mac's cache lacks. For every
\* set of tiles, of any lengths, every filesystem, estimate and budget.
THEOREM PlansAreKept == ASSUME Timely PROVE TileSpec => []PlanKept
<1>1. TileInit => PlanInv BY PlanInit
<1>2. PlanInv /\ [TileNext]_tileVars => PlanInv' BY PlanStep
<1>3. PlanInv => PlanKept
  <2> SUFFICES ASSUME PlanInv PROVE PlanKept OBVIOUS
  <2>1. MacTrue /\ JobTrue BY DEF PlanInv
  <2>2. job.at = "done" /\ job.left = 0 => job.plan \subseteq DOMAIN files \union lostTo.job BY <2>1 DEF JobTrue, HaveThose
  <2>3. mac.done = "all" /\ mac.known /\ ~ran => mac.plan \subseteq DOMAIN files \union lostTo.mac BY <2>1 DEF MacTrue, HasPlan
  <2> QED BY <2>2, <2>3 DEF PlanKept
<1> QED BY <1>1, <1>2, <1>3, PTL DEF TileSpec

LEMMA PlanTyped == PlanInv => TileTypeOK
BY DEF PlanInv, FilesFit, FileSet, LinesTrue, TileTypeOK

\* What is on the flash fits it, whatever writes: the files, the upload that is
\* open and what flash holds of its tile until it is closed, and the download;
\* no file grows past its tile (tile_store_host_line, net_job_tiles).
THEOREM TilesTyped == ASSUME Timely PROVE TileSpec => []TileTypeOK
<1>1. TileInit => PlanInv BY PlanInit
<1>2. PlanInv /\ [TileNext]_tileVars => PlanInv' BY PlanStep
<1>3. PlanInv => TileTypeOK BY PlanTyped
<1> QED BY <1>1, <1>2, <1>3, PTL DEF TileSpec

\* And those of the match log's copy with them: of every behaviour of the run's
\* specification (MCCopies's CopiesTypeOK).
THEOREM CopiesTyped == ASSUME Timely PROVE CopiesSpec => []CopiesTypeOK
<1> DEFINE BothTyped == SyncTypes /\ PlanInv
<1>1. CopiesInit => BothTyped
  BY SyncTypesStart, PlanInit DEF CopiesInit
<1>2. BothTyped /\ [CopiesNext]_<<vars, tileVars, part>> => BothTyped'
  <2> SUFFICES ASSUME BothTyped, [CopiesNext]_<<vars, tileVars, part>> PROVE BothTyped'
    OBVIOUS
  <2>1. [Next]_vars /\ [TileNext]_tileVars
    BY DEF CopiesNext
  <2> QED
    BY <2>1, SyncTypesStep, PlanStep
<1>3. BothTyped => CopiesTypeOK
  <2>1. PlanInv => TileTypeOK
    BY PlanTyped
  <2> QED
    BY <2>1, TypesOfSync DEF CopiesTypeOK
<1> QED
  BY <1>1, <1>2, <1>3, PTL DEF CopiesSpec
=============================================================================
