------------------------------ MODULE Tracker ------------------------------
(***************************************************************************)
(* The table of contacts (firmware/common/tracker.h) as the decode task    *)
(* fills it and the loop reads it (tracker_ingest, rx_note_track, rx_tick  *)
(* in rx_core.h): which contact a frame belongs to, the addresses and      *)
(* names a contact keeps, eviction, expiry, and the events for the board.  *)
(*                                                                         *)
(* An aircraft is heard on several addresses, and an address may be that   *)
(* of two aircraft. A frame carries a position, the serial, the CAA        *)
(* registration, or the two names together ("pack"). Handling a frame      *)
(* takes a unit of time, so no two contacts are created in the same unit.  *)
(*                                                                         *)
(* Left out: what is known of an aircraft beside its names (position,      *)
(* speed, peaks), the pages of its signature (AuthPages), TFR polygons.     *)
(***************************************************************************)
EXTENDS Integers, Sequences, FiniteSets, SequencesExt

CONSTANTS
  Aircraft,
  Address,
  Heard,      \* pairs of an aircraft and an address it sends on
  Says,       \* pairs of an aircraft and what its frames carry
  Slots,      \* TRK_MAX
  AltMacs,    \* TRK_ALT_MACS
  EventRoom,  \* length of s_hev
  Expire,     \* TRK_EXPIRE_MS
  Clock,      \* millis() counts modulo this
  Start,      \* millis() in the first state
  None,
  MaxTime     \* bound of the model: how long it runs

Content == {"position", "serial", "registration", "pack"}

\* Names: the serial and the registration of an aircraft.
Name == Aircraft \X {"serial", "registration"}

ASSUME HeardAssumption == Heard \subseteq Aircraft \X Address /\ Says \subseteq Aircraft \X Content
ASSUME SizeAssumption ==
  /\ Slots \in Nat \ {0} /\ AltMacs \in Nat \ {0} /\ EventRoom \in Nat
  /\ Expire \in Nat \ {0} /\ Clock \in Nat \ {0} /\ Start \in 0 .. Clock - 1 /\ MaxTime \in Nat
ASSUME WrapAssumption == 2 * (MaxTime + 1) < Clock \* a silent contact is seen to long before the clock comes round
ASSUME NoneAssumption == None \notin Address \union Name

VARIABLES
  tab,     \* g_trk_live
  events,  \* s_hev
  seen,    \* g_seen_count: contacts created; each one's number
  ended,   \* history: numbers of the contacts given to the match log
  time,    \* history: units since the start
  now      \* the loop's `now`, read when its pass began

vars == <<tab, events, seen, ended, time, now>>

Slot == 1 .. Slots

Registration(n) == n[2] = "registration"

\* A slot nobody uses, as memset leaves it. `no` and `heard` are history: the
\* contact's number, and its addresses in the order they were last heard.
Unused == [used |-> FALSE, mac |-> None, alts |-> <<>>, uas |-> None, uas2 |-> None,
           first |-> 0, last |-> 0, no |-> 0, heard |-> <<>>]

Fresh == [Unused EXCEPT !.used = TRUE, !.first = time, !.no = seen + 1]

Init ==
  /\ tab = [s \in Slot |-> Unused]
  /\ events = <<>> /\ seen = 0 /\ ended = {}
  /\ time = 0 /\ now = 0

Millis(t) == (Start + t) % Clock

\* A bug to compare with: the difference as it is unsigned.
SinceUnsigned(a, b) == (Millis(a) - Millis(b)) % Clock

\* The int32_t difference of two readings of millis().
Since(a, b) == LET d == (Millis(a) - Millis(b)) % Clock IN IF d < Clock \div 2 THEN d ELSE d - Clock

-----------------------------------------------------------------------------
(* tracker_upsert: which slot *)

Used == {s \in Slot : tab[s].used}
Last1(S) == CHOOSE s \in S : \A r \in S : r <= s
First1(S) == CHOOSE s \in S : \A r \in S : s <= r

\* The contacts that have the frame's name, or its address.
ByName(n) == {s \in Used : tab[s].uas = n \/ (Registration(n) /\ tab[s].uas2 = n)}
ByAddress(m) == {s \in Used : tab[s].mac = m \/ \E i \in DOMAIN tab[s].alts : tab[s].alts[i] = m}

\* A bug to compare with: the address decides.
AgreesAlways(t, n) == TRUE

\* A contact heard on the address takes the frame unless their names
\* conflict: a serial and a registration never do.
Agrees(t, n) ==
  \/ n = None \/ t.uas = None
  \/ Registration(n) /\ ~Registration(t.uas) /\ t.uas2 = None
  \/ ~Registration(n) /\ Registration(t.uas)

\* The least recently heard contact; the comparison is of the readings.
Oldest == First1({s \in Used : \A r \in Used : Millis(tab[s].last) <= Millis(tab[r].last)})

Room == IF Used # Slot THEN First1(Slot \ Used) ELSE Oldest

\* Identity wins over the address. Of several contacts the last one counts.
Found(m, n) ==
  IF n # None /\ ByName(n) # {} THEN {Last1(ByName(n))}
  ELSE IF ByAddress(m) # {} /\ Agrees(tab[Last1(ByAddress(m))], n) THEN {Last1(ByAddress(m))}
  ELSE {}

-----------------------------------------------------------------------------
(* tracker_upsert: what the contact becomes *)

\* An address leaves the list it is in.
Without(q, m) == IF m \in ToSet(q) THEN RemoveAt(q, CHOOSE i \in DOMAIN q : q[i] = m) ELSE q

\* The address before joins the remembered ones, at the end; one that comes
\* back leaves them. A full list forgets its oldest.
Remember(alts, old, m) ==
  LET rest == Without(alts, m)
  IN IF Len(rest) = AltMacs THEN Append(Tail(rest), old) ELSE Append(rest, old)

Addressed(t, m) ==
  LET h == Append(Without(t.heard, m), m) IN
  IF t.mac = m THEN [t EXCEPT !.heard = h]
  ELSE IF t.mac = None THEN [t EXCEPT !.mac = m, !.heard = h]
  ELSE [t EXCEPT !.mac = m, !.alts = Remember(t.alts, t.mac, m), !.heard = h]

\* A registration goes beside a serial; a serial that arrives takes its place.
Named(t, n) ==
  IF n = None THEN t
  ELSE IF Registration(n) /\ t.uas # None /\ ~Registration(t.uas) THEN [t EXCEPT !.uas2 = n]
  ELSE IF ~Registration(n) /\ t.uas # None /\ Registration(t.uas) THEN [t EXCEPT !.uas2 = t.uas, !.uas = n]
  ELSE [t EXCEPT !.uas = n]

\* tracker_ingest: the registration beside the serial in a pack.
Beside(t, a, content) == IF content = "pack" THEN [t EXCEPT !.uas2 = <<a, "registration">>] ELSE t

NameIn(a, content) ==
  CASE content = "position" -> None
    [] content = "registration" -> <<a, "registration">>
    [] OTHER -> <<a, "serial">>

\* rx_note_track: an event the loop will hear of, if there is room.
Note(slot, t) == IF Len(events) < EventRoom THEN Append(events, [slot |-> slot, first |-> t.first, no |-> t.no]) ELSE events

\* The contact that makes room ends, and is logged (trk_on_end).
Evicted(slot) == IF tab[slot].used THEN {tab[slot].no} ELSE {}

\* The decode task handles a frame. Its position may be the first
\* one inside a TFR.
Ingest(a, m, content) ==
  /\ time < MaxTime
  /\ LET n == NameIn(a, content)
         found == Found(m, n)
         slot == IF found # {} THEN First1(found) ELSE Room
         t0 == IF found # {} THEN tab[slot] ELSE Fresh
         t == [Beside(Named(Addressed(t0, m), n), a, content) EXCEPT !.last = time]
     IN /\ tab' = [tab EXCEPT ![slot] = t]
        /\ seen' = IF found = {} THEN seen + 1 ELSE seen
        /\ ended' = IF found = {} THEN ended \union Evicted(slot) ELSE ended
        /\ \E entered \in (IF content \in {"position", "pack"} THEN BOOLEAN ELSE {FALSE}) :
             events' = IF found = {} \/ entered THEN Note(slot, t) ELSE events
  /\ time' = time + 1
  /\ UNCHANGED now

-----------------------------------------------------------------------------
(* The loop *)

Pass ==
  /\ now' = time
  /\ UNCHANGED <<tab, events, seen, ended, time>>

\* tracker_expire: a contact the decode task has refreshed since the pass
\* began is newer than `now`, so the difference is signed.
Stale(t) == t.used /\ Since(now, t.last) > Expire

TrackerExpire ==
  /\ \E s \in Slot : Stale(tab[s])
  /\ LET gone == {s \in Slot : Stale(tab[s])} IN
     /\ tab' = [s \in Slot |-> IF s \in gone THEN Unused ELSE tab[s]]  \* nobody reads what it held
     /\ ended' = ended \union {tab[s].no : s \in gone}
  /\ UNCHANGED <<events, seen, time, now>>

\* The board's hook is called for an event when the slot's copy is still of
\* the contact the event was about.
Hooked(e) == tab[e.slot].used /\ tab[e.slot].first = e.first

HookEvents ==
  /\ events # <<>>
  /\ events' = <<>>
  /\ UNCHANGED <<tab, seen, ended, time, now>>

Silence ==
  /\ time < MaxTime
  /\ time' = time + 1
  /\ UNCHANGED <<tab, events, seen, ended, now>>

Next ==
  \/ \E h \in Heard, s \in Says : h[1] = s[1] /\ Ingest(h[1], h[2], s[2])
  \/ Pass \/ TrackerExpire \/ HookEvents \/ Silence

Spec == Init /\ [][Next]_vars

-----------------------------------------------------------------------------
(* Properties *)

TypeOK ==
  /\ \A s \in Slot :
       LET t == tab[s] IN
       /\ t.used \in BOOLEAN /\ t.mac \in Address \union {None} /\ (t.used <=> t.mac # None)
       /\ ToSet(t.alts) \subseteq Address /\ Len(t.alts) <= AltMacs
       /\ t.uas \in Name \union {None}
       /\ t.uas2 # None => t.uas # None /\ Registration(t.uas2) /\ ~Registration(t.uas)
       /\ t.first \in 0 .. MaxTime /\ t.last \in t.first .. MaxTime /\ t.no \in 0 .. seen
  /\ \A i \in DOMAIN events : events[i] \in [slot : Slot, first : 0 .. MaxTime, no : 1 .. seen]
  /\ Len(events) <= EventRoom
  /\ time \in 0 .. MaxTime /\ now \in 0 .. time

\* Two contacts never have the same serial.
OneContactPerSerial ==
  \A r, s \in Used : r # s /\ tab[r].uas = tab[s].uas => tab[r].uas = None \/ Registration(tab[r].uas)

\* A contact is attached to the addresses it was last heard on, as many as it
\* can remember: it forgets the one that was not heard for longest.
AddressesRecent ==
  \A s \in Used :
    LET t == tab[s]
        held == Append(t.alts, t.mac)
        n == Len(t.heard)
    IN /\ Len(held) = IF n <= AltMacs THEN n ELSE AltMacs + 1
       /\ held = SubSeq(t.heard, n - Len(held) + 1, n)

\* A contact with a serial keeps it as long as it lives.
KeepsSerial ==
  \A s \in Slot :
    tab[s].used /\ tab'[s].used /\ tab[s].no = tab'[s].no /\ tab[s].uas # None /\ ~Registration(tab[s].uas)
      => tab'[s].uas = tab[s].uas

\* "A hook only ever sees the contact the event was about" (rx_tick), though
\* its slot may have changed hands since.
HookRight == \A i \in DOMAIN events : Hooked(events[i]) => tab[events[i].slot].no = events[i].no

\* Who a contact is, whatever addresses and registrations it was heard with
\* before and after: no serial is in two contacts ("Identity wins over hardware
\* address"), a contact with a serial keeps it (two aircraft that share an
\* address are two contacts, not one "whose ID flip-flops"), and the board's
\* hook is called for the contact the event was of.
IdentityKept == [][OneContactPerSerial' /\ KeepsSerial /\ HookRight']_vars

\* Every contact there ever was is in the table or went to the match log, and
\* one that went is not there any more.
InTableOrLog ==
  LET there == {tab[s].no : s \in Used} IN
  /\ there \union ended = 1 .. seen /\ there \intersect ended = {}
  /\ \A r, s \in Used : r # s => tab[r].no # tab[s].no

\* What is kept of a contact, and how long: its recent addresses; it ends once
\* ("about to leave the table: the match log's chance"), and for silence only
\* when it was silent for TRK_EXPIRE_MS, also when it was heard after the loop
\* read its clock, and when millis() wraps.
KeptTillSilent ==
  [][/\ AddressesRecent' /\ InTableOrLog'
     /\ seen' = seen => \A s \in Used : ~tab'[s].used => time - tab[s].last > Expire]_vars
=============================================================================
