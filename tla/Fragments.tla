------------------------------ MODULE Fragments ------------------------------
(***************************************************************************)
(* How a receiver puts extended Bluetooth advertisements together           *)
(* (firmware/common/rx_core.h, rx_gap_event). An advertisement comes in     *)
(* pieces; those of several advertisers interleave, and any may be lost. A  *)
(* small table holds the pieces of the unfinished ones; a piece tells only  *)
(* its advertiser and whether it is the last.                               *)
(*                                                                         *)
(* Left out: the bytes, and the table's limit of 256 of them; what is done  *)
(* with a whole payload (handle_adv, rx_process).                           *)
(***************************************************************************)
EXTENDS Integers, Sequences, FiniteSets, SequencesExt

CONSTANTS
  Advertiser,  \* an address and an advertising set
  Pieces,      \* advertiser -> how many pieces its advertisements have
  FragSlots,   \* BLE_FRAG_N
  KeepFor,     \* 1000 ms
  Never,       \* no time, no advertiser
  MaxAds,      \* bound of the model: advertisements of each advertiser
  MaxMissed,   \* bound of the model: pieces lost
  LastMs       \* bound of the model: how long it runs

ASSUME FragmentsAssumption ==
  /\ IsFiniteSet(Advertiser) /\ Pieces \in [Advertiser -> Nat \ {0}] /\ FragSlots \in Nat \ {0}
  /\ {KeepFor, MaxAds, MaxMissed, LastMs} \subseteq Nat /\ Never \notin Nat \union Advertiser

VARIABLES
  frag,    \* s_frag; a slot's pieces are <<advertiser, advertisement, piece, when>>
  report,  \* the payload the last step reported
  adv,     \* the advertisement each sends: its number, pieces sent, whether all were heard in good order
  tail,    \* history: when the last piece was heard of an advertisement that did not end
  missed, ms

fragVars == <<frag, report, adv, tail, missed, ms>>

FragSlot == 1 .. FragSlots
Vacant == [used |-> FALSE, of |-> Never, since |-> 0, pieces |-> <<>>]

FragInit ==
  /\ frag = [s \in FragSlot |-> Vacant]
  /\ report = <<>>
  /\ adv = [a \in Advertiser |-> [no |-> 1, sent |-> 0, since |-> 0, good |-> TRUE]]
  /\ tail = [a \in Advertiser |-> Never]
  /\ missed = 0 /\ ms = 0

-----------------------------------------------------------------------------
Lowest(S) == CHOOSE s \in S : \A r \in S : s <= r

TooOld(t) == ms - t > KeepFor

\* A bug to compare with: a slot is free when its assembly was reported.
FreeIfReported(table) == {s \in FragSlot : ~table[s].used}

FreeSlots(table) == {s \in FragSlot : ~table[s].used \/ TooOld(table[s].since)}

\* A slot for a first piece; the first one when the table is full.
Taken(table) == IF FreeSlots(table) # {} THEN Lowest(FreeSlots(table)) ELSE 1

\* The advertiser's assembly that goes on; one too old is dropped.
Assembling(a) == {s \in FragSlot : frag[s].used /\ frag[s].of = a /\ ~TooOld(frag[s].since)}

\* A bug to compare with: an assembly too old is left where it is.
DroppedNot(a) == frag

Dropped(a) == [s \in FragSlot |-> IF frag[s].used /\ frag[s].of = a /\ TooOld(frag[s].since) THEN Vacant ELSE frag[s]]

Begun(s) == [used |-> TRUE, of |-> Never, since |-> ms, pieces |-> <<>>]

\* rx_gap_event, EXT_DISC: a piece joins its assembly, or begins one; the last
\* one makes the report. A payload of one piece needs no slot.
Join(a, piece, more) ==
  IF Assembling(a) = {} /\ ~more
  THEN frag' = Dropped(a) /\ report' = <<piece>>
  ELSE LET begins == Assembling(a) = {}
           s == IF begins THEN Taken(Dropped(a)) ELSE Lowest(Assembling(a))
           slot == IF begins THEN Begun(s) ELSE frag[s]
           pieces == Append(slot.pieces, piece)
       IN IF more
          THEN /\ frag' = [Dropped(a) EXCEPT ![s] = [slot EXCEPT !.of = a, !.pieces = pieces]]
               /\ report' = <<>>
          ELSE frag' = [Dropped(a) EXCEPT ![s] = Vacant] /\ report' = pieces

\* DISC_COMPLETE: the scan ended, and goes on with an empty table.
ScanEnded ==
  /\ \E s \in FragSlot : frag[s].used
  /\ frag' = [s \in FragSlot |-> Vacant]
  /\ adv' = [a \in Advertiser |-> [adv[a] EXCEPT !.good = FALSE]]
  /\ tail' = [a \in Advertiser |-> Never]
  /\ report' = <<>>
  /\ UNCHANGED <<missed, ms>>

Recent(tails) == {a \in Advertiser : tails[a] # Never /\ ~TooOld(tails[a])}

\* An advertiser sends the next piece. It is heard in good order when those
\* before it were, its advertisement began on no other one's tail, and no more
\* advertisers are under way than the table has slots.
SendPiece(a) ==
  /\ adv[a].sent = Pieces[a] => adv[a].no < MaxAds
  /\ \E heard \in (IF missed < MaxMissed THEN BOOLEAN ELSE {TRUE}) :
       LET first == adv[a].sent \in {0, Pieces[a]}
           no == IF adv[a].sent = Pieces[a] THEN adv[a].no + 1 ELSE adv[a].no
           i == IF first THEN 1 ELSE adv[a].sent + 1
           more == i < Pieces[a]
           good == heard /\ (IF first THEN a \notin Recent(tail) ELSE adv[a].good)
       IN /\ IF heard THEN Join(a, <<a, no, i, ms>>, more) ELSE frag' = frag /\ report' = <<>>
          /\ tail' = IF heard THEN [tail EXCEPT ![a] = IF more THEN ms ELSE Never] ELSE tail
          /\ LET crowded == Cardinality(Recent(tail')) > FragSlots
                 now == [no |-> no, sent |-> i, since |-> IF first THEN ms ELSE adv[a].since, good |-> good]
             IN adv' = [b \in Advertiser |-> [(IF b = a THEN now ELSE adv[b]) EXCEPT !.good = @ /\ ~crowded]]
          /\ missed' = IF heard THEN missed ELSE missed + 1
  /\ UNCHANGED ms

FragTick ==
  /\ ms < LastMs /\ ms' = ms + 1 /\ report' = <<>>
  /\ UNCHANGED <<frag, adv, tail, missed>>

FragNext == (\E a \in Advertiser : SendPiece(a)) \/ ScanEnded \/ FragTick
FragSpec == FragInit /\ [][FragNext]_fragVars

-----------------------------------------------------------------------------
FragTypeOK ==
  /\ \A s \in FragSlot : /\ frag[s].used => frag[s].of \in Advertiser /\ frag[s].pieces # <<>> /\ frag[s].since <= ms
                         /\ ~frag[s].used => frag[s] = Vacant
  /\ \A r, s \in FragSlot : frag[r].used /\ frag[s].used /\ frag[r].of = frag[s].of => r = s
  /\ \A a \in Advertiser : adv[a].sent \in 0 .. Pieces[a] /\ adv[a].since \in 0 .. ms
  /\ missed \in 0 .. MaxMissed /\ ms \in 0 .. LastMs

\* What is reported is of one advertiser, and "the next advertisement must not
\* land on [the] tail" of one whose last piece did not come within a second.
NotOnOldTail == \A i \in DOMAIN report' : report'[i][1] = report'[1][1] /\ ms - report'[i][4] <= KeepFor

\* An advertisement of which every piece is heard in time is reported whole and
\* alone, whatever was lost before and whoever sends in between.
WholeReported ==
  [][/\ NotOnOldTail
     /\ \A a \in Advertiser :
          /\ adv'[a] # adv[a] /\ adv'[a].sent = Pieces[a] /\ adv'[a].good /\ ms - adv'[a].since <= KeepFor
          => /\ Len(report') = Pieces[a]
             /\ \A i \in 1 .. Pieces[a] : SubSeq(report'[i], 1, 3) = <<a, adv'[a].no, i>>]_fragVars
=============================================================================
