--------------------------- MODULE ContactTracker ---------------------------
(***************************************************************************)
(* The phone's live contacts (mobile/lib/core/live/contact_tracker.dart):   *)
(* one for each drone, whoever heard it. Every frame carries the address    *)
(* its sensor knows the drone by - a detector the real one, an iPhone one   *)
(* of its own - and one of the drone's IDs or none; a contact is keyed by   *)
(* the ID, else by the address, and the contact an address led to is folded *)
(* into that of an ID heard on the address, or takes its name.             *)
(*                                                                         *)
(* A drone may have two IDs, a serial and a session's, and two aircraft may *)
(* share an address (the detectors, which hear aircraft relayed by one      *)
(* transmitter, know such: firmware/common/tracker.h). Left out: what the   *)
(* screens show of a contact, the verdict on its signature included.       *)
(***************************************************************************)
EXTENDS Integers, FiniteSets, Functions

CONSTANTS
  Drone,
  IdsOf(_),    \* drone -> the IDs it sends
  AddrsOf(_),  \* drone -> the addresses the sensors know it by
  Unsaid,      \* null
  ExpireAfter, \* 600 s
  MaxFrames,   \* bound of the model: frames heard
  LastSecond   \* bound of the model: how long it runs

Id == UNION {IdsOf(d) : d \in Drone}
Mac == UNION {AddrsOf(d) : d \in Drone}

ASSUME ContactAssumption ==
  /\ Id \cap Mac = {} /\ Unsaid \notin Id \union Mac
  /\ {ExpireAfter, MaxFrames, LastSecond} \subseteq Nat

VARIABLES
  contacts,  \* _contacts: key -> contact
  macIndex,  \* _macIndex: address -> key
  second,    \* the time
  named,     \* history: address -> the ID heard on it last, while that has a contact
  frames     \* how many frames were heard

contactVars == <<contacts, macIndex, second, named, frames>>

ContactInit ==
  contacts = <<>> /\ macIndex = <<>> /\ second = 0 /\ named = [m \in Mac |-> Unsaid] /\ frames = 0

-----------------------------------------------------------------------------
New == [uasId |-> Unsaid, macs |-> {}, last |-> second]

\* A map with one key entered.
Entered(f, k, v) == [x \in DOMAIN f \union {k} |-> IF x = k THEN v ELSE f[x]]

KeyOf(m) == IF m \in DOMAIN macIndex THEN macIndex[m] ELSE m

\* _absorb
Absorbed(c, o) == [c EXCEPT !.macs = @ \union o.macs, !.last = IF o.last > @ THEN o.last ELSE @]

\* The contact of the address, when it is another's than the ID's.
IsPrior(m, id) == m \in DOMAIN macIndex /\ macIndex[m] # id /\ macIndex[m] \in DOMAIN contacts

\* A bug to compare with: not into a contact there is.
MayFoldNew(m, id) == IsPrior(m, id) /\ id \notin DOMAIN contacts

MayFold(m, id) == IsPrior(m, id) /\ (id \notin DOMAIN contacts \/ contacts[macIndex[m]].uasId = Unsaid)

\* ingest's first half, for a frame with the ID: the contacts and the index
\* after the fold. An ID without a contact takes that of the address, the
\* contact of another ID included.
Folded(m, id) ==
  IF ~MayFold(m, id) THEN [contacts |-> contacts, index |-> macIndex]
  ELSE LET prior == macIndex[m]
           into == IF id \in DOMAIN contacts THEN Absorbed(contacts[id], contacts[prior]) ELSE contacts[prior]
       IN [contacts |-> Entered(Restrict(contacts, DOMAIN contacts \ {prior}), id, into),
           index |-> [a \in DOMAIN macIndex |-> IF macIndex[a] = prior THEN id ELSE macIndex[a]]]

\* ingest
Hear(m, id) ==
  LET at == IF id # Unsaid THEN Folded(m, id) ELSE [contacts |-> contacts, index |-> macIndex]
      key == IF id # Unsaid THEN id ELSE KeyOf(m)
      was == IF key \in DOMAIN at.contacts THEN at.contacts[key] ELSE New
      c == [was EXCEPT !.macs = @ \union {m}, !.last = second, !.uasId = IF id # Unsaid THEN id ELSE @]
  IN /\ contacts' = Entered(at.contacts, key, c)
     /\ macIndex' = Entered(at.index, m, key)
     /\ named' = IF id # Unsaid THEN [named EXCEPT ![m] = id] ELSE named

HearFrame ==
  /\ frames < MaxFrames /\ frames' = frames + 1
  /\ \E d \in Drone : \E m \in AddrsOf(d), id \in IdsOf(d) \union {Unsaid} : Hear(m, id)
  /\ UNCHANGED second

\* expire, once a second.
Expire ==
  /\ second < LastSecond /\ second' = second + 1
  /\ LET kept == {k \in DOMAIN contacts : second' - contacts[k].last <= ExpireAfter} IN
     /\ contacts' = Restrict(contacts, kept)
     /\ macIndex' = Restrict(macIndex, {m \in DOMAIN macIndex : macIndex[m] \in kept})
     /\ named' = [m \in Mac |-> IF named[m] \in kept THEN named[m] ELSE Unsaid]
  /\ UNCHANGED frames

\* clear
Clear ==
  /\ contacts # <<>> /\ contacts' = <<>> /\ macIndex' = <<>> /\ named' = [m \in Mac |-> Unsaid]
  /\ UNCHANGED <<second, frames>>

ContactNext == HearFrame \/ Expire \/ Clear
ContactSpec == ContactInit /\ [][ContactNext]_contactVars

-----------------------------------------------------------------------------
ContactTypeOK ==
  /\ DOMAIN contacts \subseteq Id \union Mac /\ DOMAIN macIndex \subseteq Mac
  /\ \A k \in DOMAIN contacts : contacts[k].uasId = (IF k \in Id THEN k ELSE Unsaid) /\ contacts[k].last <= second

IsSingle(S) == \A x, y \in S : x = y

\* A drone that shares neither an address nor an ID with another; the keys its
\* contacts can have; and its contacts, by what they were heard as.
Alone(d) == \A e \in Drone \ {d} : AddrsOf(d) \cap AddrsOf(e) = {} /\ IdsOf(d) \cap IdsOf(e) = {}
Names(d) == IdsOf(d) \union AddrsOf(d)
ContactsOf(d) == {k \in DOMAIN contacts : k \in Names(d) \/ contacts[k].macs \cap AddrsOf(d) # {}}

\* Every address leads to a contact that was heard on it; and a contact known
\* by an address only is what that address leads to, and has no other.
IndexLeads ==
  /\ \A m \in DOMAIN macIndex : macIndex[m] \in DOMAIN contacts /\ m \in contacts[macIndex[m]].macs
  /\ \A m \in Mac \cap DOMAIN contacts : contacts[m].macs = {m} /\ m \in DOMAIN macIndex /\ macIndex[m] = m

\* A contact of the drone's is no other drone's.
NotMixed(d) == \A k \in ContactsOf(d) : k \in Names(d) /\ contacts[k].macs \subseteq AddrsOf(d)

\* A drone of one ID: once that was heard on an address, what is heard there
\* is the ID's, beside which there is none of that address.
OneOfId(d) ==
  \A m \in AddrsOf(d) :
    /\ (named[m] # Unsaid => KeyOf(m) = named[m] /\ m \notin DOMAIN contacts)
    /\ \A k \in DOMAIN contacts : m \in contacts[k].macs => m \in DOMAIN macIndex /\ macIndex[m] = k

\* Two drones are never one contact, and a drone is one: the drones that share
\* no address and no ID with another, whatever those that do become. One known
\* by a single address is a single contact, though it sends two IDs; one with
\* a single ID is, from when that is heard, on every address it was heard on.
\* (Two IDs first heard on two addresses stay two contacts; and aircraft on one
\* address take turns in one.)
OneContact ==
  /\ IndexLeads
  /\ \A d \in Drone : Alone(d) =>
       /\ NotMixed(d)
       /\ (IsSingle(AddrsOf(d)) => \A k, l \in ContactsOf(d) : k = l)
       /\ (IsSingle(IdsOf(d)) => OneOfId(d))
=============================================================================
