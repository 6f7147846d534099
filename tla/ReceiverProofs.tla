--------------------------- MODULE ReceiverProofs ---------------------------
(***************************************************************************)
(* What is proved of the decode task: the table of contacts (Tracker) and  *)
(* the signature pages of one contact (AuthPages), each by itself and side *)
(* by side as in MCReceiver, whose model values play no part in it.        *)
(***************************************************************************)
EXTENDS MCReceiver, SequenceTheorems, WellFoundedInduction, TLAPS

(***************************************************************************)
(* Who a contact is, and which contact an event is of, for every table,    *)
(* every set of aircraft and whatever addresses they share:                *)
(*                                                                         *)
(*   - no serial is in two contacts (OneContactPerSerial);                 *)
(*   - a contact keeps its serial as long as it lives (KeepsSerial);       *)
(*   - the board's hook sees the contact the event was of (HookRight).     *)
(*                                                                         *)
(* The argument: a frame changes one slot (IngestedInto), and gives it a   *)
(* serial it did not have only when no contact has it (SerialsOfFrame).     *)
(* A contact that begins does so later than every contact and every event  *)
(* there is, so a slot that changed hands is told from what it was.         *)
(***************************************************************************)
Serial(n) == n \in Name /\ ~Registration(n)

Fields == {"used", "mac", "alts", "uas", "uas2", "first", "last", "no", "heard"}

\* The addresses of a contact: no address was last heard twice, and those it is
\* attached to are the last of them, as many as it can remember.
Attached(mac, alts, heard) ==
  /\ alts \in Seq(Address) /\ heard \in Seq(Address)
  /\ \A i, j \in DOMAIN heard : heard[i] = heard[j] => i = j
  /\ \/ mac = None /\ Len(alts) = 0 /\ Len(heard) = 0
     \/ /\ mac \in Address /\ Len(heard) >= 1 /\ heard[Len(heard)] = mac
        /\ Len(alts) = (IF Len(heard) <= AltMacs THEN Len(heard) - 1 ELSE AltMacs)
        /\ \A j \in 1 .. Len(alts) : alts[j] = heard[Len(heard) - 1 - Len(alts) + j]

EntryOK(t) ==
  /\ DOMAIN t = Fields /\ t.used \in BOOLEAN
  /\ t.uas \in Name \union {None} /\ {t.first, t.last, t.no} \subseteq Nat
  /\ Attached(t.mac, t.alts, t.heard)

TableOK == DOMAIN tab = Slot /\ \A s \in Slot : EntryOK(tab[s])

EventsOK == events \in Seq([slot : Slot, first : Nat, no : Nat])

\* Every contact and every event is of a unit that is over.
Earlier ==
  /\ time \in Nat /\ seen \in Nat
  /\ \A s \in Used : tab[s].first < time /\ tab[s].no <= seen
  /\ \A i \in DOMAIN events : events[i].first < time

IInv == TableOK /\ EventsOK /\ Earlier /\ HookRight /\ OneContactPerSerial

-----------------------------------------------------------------------------
(* The slot of a frame *)

LEMMA Least ==
  ASSUME NEW S \in SUBSET Nat, S # {}
  PROVE  \E s \in S : \A r \in S : s <= r
<1>1. PICK s \in S : \A r \in S : <<r, s>> \notin OpToRel(<, Nat)
  BY NatLessThanWellFounded, WFMin, Zenon
<1>2. \A r \in S : ~(r < s)
  BY <1>1 DEF OpToRel
<1> QED
  BY <1>2

LEMMA LowestIsOne ==
  ASSUME NEW S \in SUBSET Slot, S # {}
  PROVE  First1(S) \in S
<1>1. S \in SUBSET Nat
  BY SizeAssumption DEF Slot
<1>2. \E s \in S : \A r \in S : s <= r
  BY <1>1, Least
<1> QED
  BY <1>2 DEF First1

LEMMA HighestIsOne ==
  ASSUME NEW S \in SUBSET Slot, S # {}
  PROVE  Last1(S) \in S
<1> DEFINE T == {Slots - s : s \in S}
<1>1. T \in SUBSET Nat /\ T # {}
  <2>1. \A s \in S : s \in 1 .. Slots /\ Slots \in Nat
    BY SizeAssumption DEF Slot
  <2>2. \A s \in S : Slots - s \in Nat
    BY <2>1
  <2> QED
    BY <2>2
<1>2. PICK d \in T : \A e \in T : d <= e
  BY <1>1, Least
<1>3. PICK s \in S : d = Slots - s
  OBVIOUS
<1>4. \A r \in S : r <= s
  <2> TAKE r \in S
  <2>1. Slots - s <= Slots - r
    BY <1>2, <1>3
  <2> QED
    BY <2>1, SizeAssumption DEF Slot
<1> QED
  BY <1>4 DEF Last1

LEMMA Reading ==
  ASSUME NEW t \in Nat
  PROVE  Millis(t) \in Nat
BY SizeAssumption DEF Millis

LEMMA OldestIsOne ==
  ASSUME TableOK, Used = Slot
  PROVE  Oldest \in Slot
<1> DEFINE T == {Millis(tab[s].last) : s \in Used}
           S == {s \in Used : \A r \in Used : Millis(tab[s].last) <= Millis(tab[r].last)}
<1>1. \A s \in Slot : Millis(tab[s].last) \in Nat
  BY Reading DEF TableOK, EntryOK
<1>2. 1 \in Slot
  BY SizeAssumption DEF Slot
<1>3. T \in SUBSET Nat /\ T # {}
  BY <1>1, <1>2
<1>4. PICK d \in T : \A e \in T : d <= e
  BY <1>3, Least
<1>5. S # {} /\ S \in SUBSET Slot
  BY <1>4
<1> QED
  BY <1>5, LowestIsOne DEF Oldest

LEMMA RoomIsOne ==
  ASSUME TableOK
  PROVE  Room \in Slot
<1>1. Used \subseteq Slot
  BY DEF Used
<1>2. CASE Used # Slot
  BY <1>1, <1>2, LowestIsOne DEF Room
<1>3. CASE Used = Slot
  BY <1>3, OldestIsOne DEF Room
<1> QED
  BY <1>2, <1>3

\* A frame is taken by a contact that has its name, or by one heard on its
\* address whose names agree when none has the name.
LEMMA FoundIsOne ==
  ASSUME TableOK, NEW m, NEW n
  PROVE  \/ Found(m, n) = {} /\ (n # None => ByName(n) = {})
         \/ \E x \in Used : /\ Found(m, n) = {x}
                            /\ \/ x \in ByName(n)
                               \/ Agrees(tab[x], n) /\ (n = None \/ ByName(n) = {})
<1>1. ByName(n) \in SUBSET Slot /\ ByAddress(m) \in SUBSET Slot /\ ByName(n) \subseteq Used /\ ByAddress(m) \subseteq Used
  BY DEF ByName, ByAddress, Used
<1>2. CASE n # None /\ ByName(n) # {}
  <2>1. Last1(ByName(n)) \in ByName(n)
    BY <1>1, <1>2, HighestIsOne
  <2> QED
    BY <1>1, <1>2, <2>1 DEF Found
<1>3. CASE ~(n # None /\ ByName(n) # {})
  <2>1. CASE ByAddress(m) # {} /\ Agrees(tab[Last1(ByAddress(m))], n)
    <3>1. Last1(ByAddress(m)) \in Used
      BY <1>1, <2>1, HighestIsOne
    <3> QED
      BY <1>3, <2>1, <3>1 DEF Found
  <2>2. CASE ~(ByAddress(m) # {} /\ Agrees(tab[Last1(ByAddress(m))], n))
    BY <1>3, <2>2 DEF Found
  <2> QED
    BY <2>1, <2>2
<1> QED
  BY <1>2, <1>3

-----------------------------------------------------------------------------
(* The contact a frame makes of one *)

\* What an address leaves behind: the list without its place.
LEMMA LeftBehind ==
  ASSUME NEW q \in Seq(Address), NEW i \in DOMAIN q, \A j \in DOMAIN q : q[j] = q[i] => j = i
  PROVE  /\ Without(q, q[i]) \in Seq(Address) /\ Len(Without(q, q[i])) = Len(q) - 1
         /\ \A j \in 1 .. Len(q) - 1 : Without(q, q[i])[j] = IF j < i THEN q[j] ELSE q[j + 1]
<1> DEFINE before == SubSeq(q, 1, i - 1)
           after == SubSeq(q, i + 1, Len(q))
           n == Len(q)
<1>1. n \in Nat /\ DOMAIN q = 1 .. n /\ i \in 1 .. n /\ \A j \in 1 .. n : q[j] \in Address
  BY LenProperties, ElementOfSeq
<1>2. q[i] \in ToSet(q)
  BY DEF ToSet
<1>3. (CHOOSE j \in DOMAIN q : q[j] = q[i]) = i
  OBVIOUS
<1>4. Without(q, q[i]) = before \o after
  BY <1>2, <1>3 DEF Without, RemoveAt
<1>5. /\ before \in Seq(Address) /\ Len(before) = i - 1
      /\ \A j \in 1 .. i - 1 : before[j] = q[j]
  <2>1. /\ before \in Seq(Address) /\ Len(before) = (IF 1 <= i - 1 THEN (i - 1) - 1 + 1 ELSE 0)
        /\ \A j \in 1 .. (i - 1) - 1 + 1 : before[j] = q[1 + j - 1]
    <3>1. \A j \in 1 .. i - 1 : q[j] \in Address
      BY <1>1
    <3> HIDE DEF n
    <3>2. i - 1 \in Int /\ 1 \in Int
      BY <1>1
    <3> QED
      BY <3>1, <3>2, SubSeqProperties
  <2> HIDE DEF before, n
  <2> QED
    BY <1>1, <2>1
<1>6. /\ after \in Seq(Address) /\ Len(after) = n - i
      /\ \A j \in 1 .. n - i : after[j] = q[i + j]
  <2>1. /\ after \in Seq(Address) /\ Len(after) = (IF i + 1 <= n THEN n - (i + 1) + 1 ELSE 0)
        /\ \A j \in 1 .. n - (i + 1) + 1 : after[j] = q[(i + 1) + j - 1]
    <3>1. \A j \in i + 1 .. n : q[j] \in Address
      BY <1>1
    <3>2. i + 1 \in Int /\ n \in Int
      BY <1>1
    <3> QED
      BY <3>1, <3>2, SubSeqProperties
  <2> HIDE DEF after, n
  <2>2. Len(after) = n - i
    BY <1>1, <2>1
  <2>3. ASSUME NEW j \in 1 .. n - i PROVE after[j] = q[i + j]
    <3>1. j \in 1 .. n - (i + 1) + 1 /\ (i + 1) + j - 1 = i + j
      BY <1>1
    <3> QED
      BY <2>1, <3>1
  <2> QED
    BY <2>1, <2>2, <2>3
<1> HIDE DEF before, after
<1>7. /\ before \o after \in Seq(Address) /\ Len(before \o after) = Len(before) + Len(after)
      /\ \A j \in 1 .. Len(before) + Len(after) : (before \o after)[j] = IF j <= Len(before) THEN before[j] ELSE after[j - Len(before)]
  BY <1>5, <1>6, ConcatProperties
<1> HIDE DEF n
<1>8. Len(before) + Len(after) = n - 1
  BY <1>1, <1>5, <1>6
<1>9. ASSUME NEW j \in 1 .. n - 1
      PROVE  (before \o after)[j] = IF j < i THEN q[j] ELSE q[j + 1]
  <2>1. CASE j < i
    BY <1>1, <1>5, <1>7, <1>8, <2>1
  <2>2. CASE ~(j < i)
    <3>1. (before \o after)[j] = after[j - (i - 1)]
      BY <1>1, <1>5, <1>7, <1>8, <2>2
    <3>2. j - (i - 1) \in 1 .. n - i /\ i + (j - (i - 1)) = j + 1
      BY <1>1, <2>2
    <3> QED
      BY <1>6, <2>2, <3>1, <3>2
  <2> QED
    BY <2>1, <2>2
<1> QED
  BY <1>4, <1>7, <1>8, <1>9 DEF n

LEMMA NotThere == ASSUME NEW q, NEW m, \A j \in DOMAIN q : q[j] # m PROVE Without(q, m) = q
BY DEF Without, ToSet

LEMMA AppendIs ==
  ASSUME NEW q \in Seq(Address), NEW m \in Address
  PROVE  /\ Append(q, m) \in Seq(Address) /\ Len(Append(q, m)) = Len(q) + 1 /\ Append(q, m)[Len(q) + 1] = m
         /\ DOMAIN Append(q, m) = 1 .. Len(q) + 1
         /\ \A j \in 1 .. Len(q) : Append(q, m)[j] = q[j]
<1>1. Append(q, m) \in Seq(Address) /\ Len(Append(q, m)) = Len(q) + 1 /\ Append(q, m)[Len(q) + 1] = m
      /\ \A j \in 1 .. Len(q) : Append(q, m)[j] = q[j]
  BY AppendProperties
<1>2. DOMAIN Append(q, m) = 1 .. Len(q) + 1
  BY <1>1, LenProperties
<1> QED
  BY <1>1, <1>2

\* A list that is full forgets its oldest.
LEMMA RememberIs ==
  ASSUME NEW alts, NEW old \in Address, NEW m, NEW rest \in Seq(Address), rest = Without(alts, m), Len(rest) <= AltMacs,
         NEW k, k = IF Len(rest) = AltMacs THEN 1 ELSE 0
  PROVE  /\ Remember(alts, old, m) \in Seq(Address) /\ Len(Remember(alts, old, m)) = Len(rest) - k + 1
         /\ Remember(alts, old, m)[Len(rest) - k + 1] = old
         /\ \A j \in 1 .. Len(rest) - k : Remember(alts, old, m)[j] = rest[j + k]
<1>1. CASE Len(rest) = AltMacs
  <2>1. Len(rest) \in Nat \ {0}
    BY <1>1, SizeAssumption
  <2>2. rest # <<>>
    BY <2>1
  <2>3. Tail(rest) \in Seq(Address) /\ Len(Tail(rest)) = Len(rest) - 1 /\ \A j \in 1 .. Len(Tail(rest)) : Tail(rest)[j] = rest[j + 1]
    BY <2>2, HeadTailProperties
  <2>4. Remember(alts, old, m) = Append(Tail(rest), old)
    BY <1>1 DEF Remember
  <2> DEFINE w == Tail(rest)
  <2> HIDE DEF w
  <2>5. /\ Append(w, old) \in Seq(Address) /\ Len(Append(w, old)) = Len(w) + 1 /\ Append(w, old)[Len(w) + 1] = old
        /\ \A j \in 1 .. Len(w) : Append(w, old)[j] = w[j]
    BY <2>3, AppendIs DEF w
  <2> QED
    BY <1>1, <2>1, <2>3, <2>4, <2>5 DEF w
<1>2. CASE Len(rest) # AltMacs
  <2>1. Remember(alts, old, m) = Append(rest, old)
    BY <1>2 DEF Remember
  <2>2. Len(rest) \in Nat
    BY LenProperties
  <2> QED
    BY <1>2, <2>1, <2>2, AppendIs
<1> QED
  BY <1>1, <1>2

\* The addresses of a contact after one more frame.
LEMMA AttachedNext ==
  ASSUME NEW mac, NEW alts, NEW heard, Attached(mac, alts, heard), NEW m \in Address
  PROVE  Attached(m, IF mac \in {m, None} THEN alts ELSE Remember(alts, mac, m), Append(Without(heard, m), m))
<1> DEFINE n == Len(heard)
           a == Len(alts)
           w == Without(heard, m)
           h == Append(w, m)
           r == Remember(alts, mac, m)
<1>1. /\ alts \in Seq(Address) /\ heard \in Seq(Address) /\ n \in Nat /\ a \in Nat
      /\ DOMAIN heard = 1 .. n /\ DOMAIN alts = 1 .. a
      /\ \A i, j \in 1 .. n : heard[i] = heard[j] => i = j
      /\ AltMacs \in Nat \ {0} /\ m # None
  BY SizeAssumption, NoneAssumption, LenProperties DEF Attached
<1>2. \A j \in 1 .. n : heard[j] \in Address
  BY <1>1, ElementOfSeq
<1> HIDE DEF n, a, w, h, r
<1>3. ASSUME w \in Seq(Address), NEW k \in Nat, Len(w) = k
      PROVE  h \in Seq(Address) /\ Len(h) = k + 1 /\ h[k + 1] = m /\ DOMAIN h = 1 .. k + 1 /\ \A j \in 1 .. k : h[j] = w[j]
  BY <1>3, AppendIs DEF h
<1>4. CASE mac = None
  <2>1. n = 0 /\ a = 0
    BY <1>4, NoneAssumption DEF Attached, n, a
  <2>2. w = heard
    BY <1>1, <2>1, NotThere DEF w
  <2>3. h \in Seq(Address) /\ Len(h) = 1 /\ h[1] = m /\ DOMAIN h = 1 .. 1
    <3>1. w \in Seq(Address) /\ Len(w) = 0 /\ 0 \in Nat
      BY <1>1, <2>1, <2>2 DEF n
    <3>2. h \in Seq(Address) /\ Len(h) = 0 + 1 /\ h[0 + 1] = m /\ DOMAIN h = 1 .. 0 + 1
      BY <1>3, <3>1, Zenon
    <3> QED
      BY <3>2
  <2>4. Attached(m, alts, h)
    BY <1>1, <2>1, <2>3 DEF Attached, a
  <2> QED
    BY <1>4, <2>4 DEF h, w
<1>5. CASE mac # None
  <2>1. /\ mac \in Address /\ n >= 1 /\ heard[n] = mac /\ a = (IF n <= AltMacs THEN n - 1 ELSE AltMacs)
        /\ \A j \in 1 .. a : alts[j] = heard[n - 1 - a + j]
    BY <1>5 DEF Attached, n, a
  <2>2. ASSUME NEW i \in 1 .. n, heard[i] = m
        PROVE  /\ h \in Seq(Address) /\ Len(h) = n /\ h[n] = m /\ DOMAIN h = 1 .. n
               /\ \A j \in 1 .. n - 1 : h[j] = IF j < i THEN heard[j] ELSE heard[j + 1]
    <3>1. /\ w \in Seq(Address) /\ Len(w) = n - 1
          /\ \A j \in 1 .. n - 1 : w[j] = IF j < i THEN heard[j] ELSE heard[j + 1]
      <4>1. i \in DOMAIN heard /\ \A j \in DOMAIN heard : heard[j] = heard[i] => j = i
        BY <1>1
      <4>2. /\ Without(heard, heard[i]) \in Seq(Address) /\ Len(Without(heard, heard[i])) = Len(heard) - 1
            /\ \A j \in 1 .. Len(heard) - 1 : Without(heard, heard[i])[j] = IF j < i THEN heard[j] ELSE heard[j + 1]
        BY <1>1, <4>1, LeftBehind
      <4> QED
        BY <2>2, <4>2, Zenon DEF w, n
    <3>2. n - 1 \in Nat /\ n - 1 + 1 = n
      BY <1>1, <2>1
    <3>3. h \in Seq(Address) /\ Len(h) = n /\ h[n] = m /\ DOMAIN h = 1 .. n /\ \A j \in 1 .. n - 1 : h[j] = w[j]
      BY <1>3, <3>1, <3>2
    <3> QED
      BY <3>1, <3>3
  <2>3. ASSUME NEW i \in 1 .. n, heard[i] = m
        PROVE  \A j, k \in 1 .. n : h[j] = h[k] => j = k
    <3>1. /\ h[n] = m /\ \A j \in 1 .. n - 1 : h[j] = IF j < i THEN heard[j] ELSE heard[j + 1]
      BY <2>2, <2>3
    <3>2. \A j \in 1 .. n - 1 : h[j] # m
      BY <1>1, <2>3, <3>1
    <3>3. ASSUME NEW j \in 1 .. n - 1, NEW k \in 1 .. n - 1, h[j] = h[k] PROVE j = k
      <4> DEFINE at(x) == IF x < i THEN x ELSE x + 1
      <4>1. at(j) \in 1 .. n /\ at(k) \in 1 .. n
        BY <1>1
      <4>2. heard[at(j)] = heard[at(k)]
        BY <3>1, <3>3
      <4>3. at(j) = at(k)
        BY <1>1, <4>1, <4>2
      <4> QED
        BY <1>1, <4>3
    <3>4. \A j \in 1 .. n : j = n \/ j \in 1 .. n - 1
      BY <1>1
    <3> QED
      BY <3>1, <3>2, <3>3, <3>4
  <2>4. CASE mac = m
    <3>1. n \in 1 .. n /\ heard[n] = m
      BY <1>1, <2>1, <2>4
    <3>2. /\ h \in Seq(Address) /\ Len(h) = n /\ h[n] = m /\ DOMAIN h = 1 .. n
          /\ \A j \in 1 .. n - 1 : h[j] = IF j < n THEN heard[j] ELSE heard[j + 1]
      BY <2>2, <3>1
    <3>3. \A j, k \in 1 .. n : h[j] = h[k] => j = k
      BY <2>3, <3>1
    <3>4. \A j \in 1 .. a : n - 1 - a + j \in 1 .. n - 1 /\ alts[j] = h[n - 1 - a + j]
      BY <1>1, <2>1, <3>2
    <3>5. Attached(m, alts, h)
      BY <1>1, <2>1, <3>2, <3>3, <3>4 DEF Attached, n, a
    <3> QED
      BY <2>4, <3>5 DEF h, w
  <2>5. CASE mac # m /\ \A i \in 1 .. n : heard[i] # m
    <3>1. w = heard
      BY <1>1, <2>5, NotThere DEF w
    <3>2. h \in Seq(Address) /\ Len(h) = n + 1 /\ h[n + 1] = m /\ DOMAIN h = 1 .. n + 1 /\ \A j \in 1 .. n : h[j] = heard[j]
      <4>1. w \in Seq(Address) /\ Len(w) = n
        BY <1>1, <3>1 DEF n
      <4> QED
        BY <1>1, <1>3, <3>1, <4>1
    <3>3. Without(alts, m) = alts
      <4>1. \A j \in 1 .. a : n - 1 - a + j \in 1 .. n
        BY <1>1, <2>1
      <4>2. \A j \in DOMAIN alts : alts[j] # m
        BY <1>1, <2>1, <2>5, <4>1
      <4> QED
        BY <4>2, NotThere
    <3> DEFINE k == IF a = AltMacs THEN 1 ELSE 0
    <3>4. a <= AltMacs
      BY <1>1, <2>1
    <3>5. r \in Seq(Address) /\ Len(r) = a - k + 1 /\ r[a - k + 1] = mac /\ \A j \in 1 .. a - k : r[j] = alts[j + k]
      <4>1. Len(alts) <= AltMacs /\ k = (IF Len(alts) = AltMacs THEN 1 ELSE 0) /\ alts = Without(alts, m) /\ alts \in Seq(Address)
        BY <1>1, <3>3, <3>4 DEF a
      <4> HIDE DEF k
      <4> DEFINE rest == Without(alts, m)
      <4>2. mac \in Address /\ rest \in Seq(Address) /\ Len(rest) <= AltMacs /\ k = (IF Len(rest) = AltMacs THEN 1 ELSE 0)
        BY <2>1, <4>1
      <4>5. rest = alts
        BY <4>1
      <4>3. rest = Without(alts, m)
        OBVIOUS
      <4> HIDE DEF rest
      <4>4. /\ Remember(alts, mac, m) \in Seq(Address) /\ Len(Remember(alts, mac, m)) = Len(rest) - k + 1
            /\ Remember(alts, mac, m)[Len(rest) - k + 1] = mac
            /\ \A j \in 1 .. Len(rest) - k : Remember(alts, mac, m)[j] = rest[j + k]
        BY <4>2, <4>3, RememberIs
      <4> QED
        BY <4>4, <4>5 DEF r, a
    <3>6. \A i, j \in 1 .. n + 1 : h[i] = h[j] => i = j
      BY <1>1, <2>5, <3>2
    <3>7. Len(r) = (IF n + 1 <= AltMacs THEN n ELSE AltMacs)
      BY <1>1, <2>1, <3>5
    <3>8. ASSUME NEW j \in 1 .. Len(r) PROVE r[j] = h[n + 1 - 1 - Len(r) + j]
      <4>1. CASE j = a - k + 1
        BY <1>1, <2>1, <3>2, <3>5, <4>1
      <4>2. CASE j \in 1 .. a - k
        <5>1. j + k \in 1 .. a /\ n - 1 - a + (j + k) \in 1 .. n /\ n + 1 - 1 - Len(r) + j = n - 1 - a + (j + k)
          BY <1>1, <2>1, <3>5, <4>2
        <5> QED
          BY <2>1, <3>2, <3>5, <4>2, <5>1
      <4> QED
        BY <1>1, <3>5, <4>1, <4>2
    <3>9. Attached(m, r, h)
      <4>1. h[Len(h)] = m /\ Len(h) - 1 = n /\ ((Len(h) <= AltMacs) <=> (n + 1 <= AltMacs)) /\ Len(h) >= 1
        BY <1>1, <3>2
      <4>2. \A j \in 1 .. Len(r) : r[j] = h[Len(h) - 1 - Len(r) + j]
        <5> SUFFICES ASSUME NEW j \in 1 .. Len(r) PROVE r[j] = h[Len(h) - 1 - Len(r) + j]
          OBVIOUS
        <5>1. r[j] = h[n + 1 - 1 - Len(r) + j]
          BY <3>8
        <5>2. Len(h) = n + 1
          BY <3>2
        <5>3. n \in Nat /\ Len(r) \in Nat
          BY <1>1, <3>5, LenProperties
        <5>4. Len(h) - 1 - Len(r) + j = n + 1 - 1 - Len(r) + j
          BY <5>2, <5>3
        <5> QED
          BY <5>1, <5>4
      <4> QED
        BY <1>1, <3>2, <3>5, <3>6, <3>7, <4>1, <4>2 DEF Attached
    <3> QED
      BY <1>5, <2>5, <3>9 DEF h, r, w
  <2>6. ASSUME mac # m, NEW i \in 1 .. n, heard[i] = m
        PROVE  Attached(m, r, h)
    <3>1. /\ h \in Seq(Address) /\ Len(h) = n /\ h[n] = m /\ DOMAIN h = 1 .. n
          /\ \A j \in 1 .. n - 1 : h[j] = IF j < i THEN heard[j] ELSE heard[j + 1]
      BY <2>2, <2>6
    <3>2. \A j, k \in 1 .. n : h[j] = h[k] => j = k
      BY <2>3, <2>6
    <3>3. i \in 1 .. n - 1
      BY <1>1, <2>1, <2>6
    <3>4. a <= AltMacs /\ a <= n - 1
      BY <1>1, <2>1
    \* It is among the remembered.
    <3>5. CASE n - a <= i
      <4> DEFINE p == i - (n - 1 - a)
      <4>1. p \in 1 .. a /\ n - 1 - a + p = i
        BY <1>1, <3>3, <3>4, <3>5
      <4>2. alts[p] = m
        BY <2>1, <2>6, <4>1
      <4>3. \A j \in DOMAIN alts : alts[j] = alts[p] => j = p
        <5> SUFFICES ASSUME NEW j \in 1 .. a, alts[j] = m PROVE j = p
          BY <1>1, <4>2
        <5>1. n - 1 - a + j \in 1 .. n /\ heard[n - 1 - a + j] = m
          BY <1>1, <2>1, <3>4
        <5>2. n - 1 - a + j = i
          BY <1>1, <2>6, <5>1
        <5> QED
          BY <1>1, <3>3, <5>2
      <4> DEFINE rest == Without(alts, m)
      <4> HIDE DEF p, rest
      <4>4. /\ rest \in Seq(Address) /\ Len(rest) = a - 1
            /\ \A j \in 1 .. a - 1 : rest[j] = IF j < p THEN alts[j] ELSE alts[j + 1]
        <5>1. p \in DOMAIN alts /\ alts \in Seq(Address)
          BY <1>1, <4>1
        <5>2. /\ Without(alts, alts[p]) \in Seq(Address) /\ Len(Without(alts, alts[p])) = Len(alts) - 1
              /\ \A j \in 1 .. Len(alts) - 1 : Without(alts, alts[p])[j] = IF j < p THEN alts[j] ELSE alts[j + 1]
          BY <4>3, <5>1, LeftBehind
        <5> QED
          BY <4>2, <5>2, Zenon DEF rest, a
      <4>5. r \in Seq(Address) /\ Len(r) = a /\ r[a] = mac /\ \A j \in 1 .. a - 1 : r[j] = rest[j]
        <5>1. Len(rest) <= AltMacs /\ Len(rest) # AltMacs
          BY <1>1, <3>4, <4>4
        <5>2. /\ r \in Seq(Address) /\ Len(r) = Len(rest) - 0 + 1 /\ r[Len(rest) - 0 + 1] = mac
              /\ \A j \in 1 .. Len(rest) - 0 : r[j] = rest[j + 0]
          <6>1. 0 = (IF Len(rest) = AltMacs THEN 1 ELSE 0)
            BY <5>1
          <6>2. mac \in Address /\ rest = Without(alts, m) /\ rest \in Seq(Address)
            BY <2>1, <4>4 DEF rest
          <6>3. /\ Remember(alts, mac, m) \in Seq(Address) /\ Len(Remember(alts, mac, m)) = Len(rest) - 0 + 1
                /\ Remember(alts, mac, m)[Len(rest) - 0 + 1] = mac
                /\ \A j \in 1 .. Len(rest) - 0 : Remember(alts, mac, m)[j] = rest[j + 0]
            BY <5>1, <6>1, <6>2, RememberIs
          <6> QED
            BY <6>3 DEF r
        <5> QED
          BY <1>1, <4>4, <5>2
      <4>6. ASSUME NEW j \in 1 .. a PROVE r[j] = h[n - 1 - a + j]
        <5>1. CASE j = a
          <6>1. n - 1 - a + a = n - 1 /\ n - 1 \in 1 .. n - 1 /\ ~(n - 1 < i) /\ n - 1 + 1 = n
            BY <1>1, <2>1, <3>3
          <6>2. h[n - 1] = heard[n]
            BY <3>1, <6>1
          <6> QED
            BY <2>1, <4>5, <5>1, <6>1, <6>2
        <5>2. CASE j # a /\ j < p
          <6>1. r[j] = heard[n - 1 - a + j]
            BY <1>1, <2>1, <4>4, <4>5, <5>2
          <6>2. n - 1 - a + j \in 1 .. n - 1 /\ n - 1 - a + j < i
            BY <1>1, <3>4, <4>1, <5>2
          <6> QED
            BY <3>1, <6>1, <6>2
        <5>3. CASE j # a /\ ~(j < p)
          <6>1. r[j] = heard[n - 1 - a + (j + 1)]
            BY <1>1, <2>1, <4>4, <4>5, <5>3
          <6>2. n - 1 - a + j \in 1 .. n - 1 /\ ~(n - 1 - a + j < i) /\ n - 1 - a + (j + 1) = n - 1 - a + j + 1
            BY <1>1, <3>4, <4>1, <5>3
          <6> QED
            BY <3>1, <6>1, <6>2
        <5> QED
          BY <5>1, <5>2, <5>3
      <4> QED
        BY <1>1, <2>1, <3>1, <3>2, <4>5, <4>6 DEF Attached
    \* It was forgotten.
    <3>6. CASE ~(n - a <= i)
      <4>1. a = AltMacs
        BY <1>1, <2>1, <3>3, <3>6
      <4>2. Without(alts, m) = alts
        <5>1. \A j \in 1 .. a : n - 1 - a + j \in 1 .. n /\ n - 1 - a + j # i
          BY <1>1, <3>3, <3>4, <3>6
        <5>2. \A j \in DOMAIN alts : alts[j] # m
          <6> SUFFICES ASSUME NEW j \in 1 .. a, alts[j] = m PROVE FALSE
            BY <1>1
          <6>1. heard[n - 1 - a + j] = m
            BY <2>1
          <6> QED
            BY <1>1, <2>6, <5>1, <6>1
        <5> QED
          BY <5>2, NotThere
      <4>3. r \in Seq(Address) /\ Len(r) = a - 1 + 1 /\ r[a - 1 + 1] = mac /\ \A j \in 1 .. a - 1 : r[j] = alts[j + 1]
        <5>1. 1 = (IF Len(alts) = AltMacs THEN 1 ELSE 0) /\ Len(alts) <= AltMacs /\ alts = Without(alts, m) /\ alts \in Seq(Address)
          BY <1>1, <3>4, <4>1, <4>2 DEF a
        <5>2. mac \in Address
          BY <2>1
        <5>3. /\ Remember(alts, mac, m) \in Seq(Address) /\ Len(Remember(alts, mac, m)) = Len(alts) - 1 + 1
              /\ Remember(alts, mac, m)[Len(alts) - 1 + 1] = mac
              /\ \A j \in 1 .. Len(alts) - 1 : Remember(alts, mac, m)[j] = alts[j + 1]
          <6> DEFINE rest == Without(alts, m)
          <6>1. rest \in Seq(Address) /\ Len(rest) <= AltMacs /\ 1 = (IF Len(rest) = AltMacs THEN 1 ELSE 0)
            BY <5>1
          <6>4. rest = alts
            BY <5>1
          <6>2. rest = Without(alts, m)
            OBVIOUS
          <6> HIDE DEF rest
          <6>3. /\ Remember(alts, mac, m) \in Seq(Address) /\ Len(Remember(alts, mac, m)) = Len(rest) - 1 + 1
                /\ Remember(alts, mac, m)[Len(rest) - 1 + 1] = mac
                /\ \A j \in 1 .. Len(rest) - 1 : Remember(alts, mac, m)[j] = rest[j + 1]
            BY <5>2, <6>1, <6>2, RememberIs
          <6> QED
            BY <6>3, <6>4
        <5> QED
          BY <5>3 DEF r, a
      <4>4. ASSUME NEW j \in 1 .. a PROVE r[j] = h[n - 1 - a + j]
        <5>1. CASE j = a
          <6>1. n - 1 - a + a = n - 1 /\ n - 1 \in 1 .. n - 1 /\ ~(n - 1 < i) /\ n - 1 + 1 = n /\ a - 1 + 1 = a
            BY <1>1, <2>1, <3>3
          <6>2. h[n - 1] = heard[n]
            BY <3>1, <6>1
          <6> QED
            BY <2>1, <4>3, <5>1, <6>1, <6>2
        <5>2. CASE j # a
          <6>1. r[j] = heard[n - 1 - a + (j + 1)]
            <7>1. j \in 1 .. a - 1 /\ j + 1 \in 1 .. a
              BY <1>1, <5>2
            <7> QED
              BY <2>1, <4>3, <7>1
          <6>2. n - 1 - a + j \in 1 .. n - 1 /\ ~(n - 1 - a + j < i) /\ n - 1 - a + (j + 1) = n - 1 - a + j + 1
            BY <1>1, <3>3, <3>4, <3>6
          <6> QED
            BY <3>1, <6>1, <6>2
        <5> QED
          BY <5>1, <5>2
      <4>5. Len(r) = a
        BY <1>1, <4>3
      <4> QED
        BY <1>1, <2>1, <3>1, <3>2, <4>3, <4>4, <4>5 DEF Attached
    <3> QED
      BY <3>5, <3>6
  <2> QED
    BY <1>5, <2>4, <2>5, <2>6 DEF h, r, w
<1> QED
  BY <1>4, <1>5

LEMMA AddressedEntry ==
  ASSUME NEW t, EntryOK(t), NEW m \in Address
  PROVE  EntryOK(Addressed(t, m)) /\ Addressed(t, m).used = t.used /\ Addressed(t, m).uas = t.uas
         /\ Addressed(t, m).first = t.first /\ Addressed(t, m).no = t.no /\ Addressed(t, m).mac = m
<1> DEFINE x == Addressed(t, m)
<1>1. DOMAIN x = Fields /\ x.used = t.used /\ x.uas = t.uas /\ x.first = t.first /\ x.last = t.last /\ x.no = t.no
      /\ x.mac = m /\ x.heard = Append(Without(t.heard, m), m)
      /\ x.alts = (IF t.mac \in {m, None} THEN t.alts ELSE Remember(t.alts, t.mac, m))
  BY DEF EntryOK, Fields, Addressed
<1> HIDE DEF x
<1>2. Attached(m, IF t.mac \in {m, None} THEN t.alts ELSE Remember(t.alts, t.mac, m), Append(Without(t.heard, m), m))
  BY AttachedNext DEF EntryOK
<1>3. EntryOK(x)
  BY <1>1, <1>2 DEF EntryOK
<1> QED
  BY <1>1, <1>3 DEF x

LEMMA NamedEntry ==
  ASSUME NEW t, EntryOK(t), NEW n \in Name \union {None}
  PROVE  EntryOK(Named(t, n)) /\ Named(t, n).used = t.used /\ Named(t, n).first = t.first /\ Named(t, n).no = t.no
         /\ Named(t, n).mac = t.mac
BY DEF EntryOK, Fields, Named

LEMMA SerialNamed ==
  ASSUME NEW t, EntryOK(t), NEW n \in Name \union {None}
  PROVE  /\ n = None \/ Registration(n) => Named(t, n).uas = t.uas \/ ~Serial(Named(t, n).uas)
         /\ Serial(t.uas) /\ (n = None \/ Registration(n)) => Named(t, n).uas = t.uas
         /\ Serial(n) => Named(t, n).uas = n
BY NoneAssumption DEF EntryOK, Fields, Named, Serial

LEMMA BesideEntry ==
  ASSUME NEW t, EntryOK(t), NEW a, NEW content
  PROVE  EntryOK(Beside(t, a, content)) /\ Beside(t, a, content).used = t.used /\ Beside(t, a, content).uas = t.uas
         /\ Beside(t, a, content).first = t.first /\ Beside(t, a, content).no = t.no /\ Beside(t, a, content).mac = t.mac
BY DEF EntryOK, Fields, Beside

LEMMA NoneAttached == Attached(None, <<>>, <<>>)
BY DEF Attached

LEMMA FreshEntry ==
  ASSUME time \in Nat, seen \in Nat
  PROVE  EntryOK(Fresh) /\ Fresh.used /\ Fresh.uas = None /\ Fresh.first = time /\ Fresh.no = seen + 1
BY NoneAttached DEF EntryOK, Fields, Fresh, Unused

LEMMA UnusedEntry == EntryOK(Unused) /\ ~Unused.used
BY NoneAttached DEF EntryOK, Fields, Unused

\* A second name is the registration beside a serial.
Paired(t) == t.uas2 # None => Serial(t.uas) /\ t.uas2 \in Name /\ Registration(t.uas2)

LEMMA PairedStays ==
  ASSUME NEW t, EntryOK(t), Paired(t), NEW a \in Aircraft, NEW m, NEW content \in Content
  PROVE  Paired([Beside(Named(Addressed(t, m), NameIn(a, content)), a, content) EXCEPT !.last = time])
<1> DEFINE n == NameIn(a, content)  x == Addressed(t, m)  y == Named(x, n)  z == Beside(y, a, content)
<1>1. n \in Name \union {None} /\ (content = "pack" => n = <<a, "serial">>) /\ <<a, "registration">> \in Name
  BY DEF NameIn, Name, Content
<1>2. DOMAIN x = Fields /\ x.uas = t.uas /\ x.uas2 = t.uas2
  BY DEF EntryOK, Fields, Addressed
<1> HIDE DEF n, x
<1>3. t.uas \in Name \union {None}
  BY DEF EntryOK
<1>4. DOMAIN y = Fields /\ Paired(y)
  BY <1>1, <1>2, <1>3, NoneAssumption DEF Named, Paired, Serial, Fields
<1>5. content = "pack" => Serial(y.uas)
  <2> SUFFICES ASSUME content = "pack" PROVE Serial(y.uas)
    OBVIOUS
  <2>1. n \in Name /\ ~Registration(n) /\ n # None
    <3>1. n = <<a, "serial">> /\ n \in Name
      BY <1>1 DEF Name
    <3> QED
      BY <3>1, NoneAssumption DEF Registration
  <2> QED
    BY <1>2, <2>1 DEF Named, Serial, Fields
<1> HIDE DEF y
<1>6. DOMAIN z = Fields /\ Paired(z)
  BY <1>1, <1>4, <1>5 DEF Beside, Paired, Registration, Fields
<1> HIDE DEF z
<1>7. Paired([z EXCEPT !.last = time])
  BY <1>6 DEF Paired, Fields
<1> QED
  BY <1>7 DEF z, y, x, n

\* What a frame does: one slot becomes t, a new contact or the one it was, with
\* its serial if it had one; and a serial it did not have is in no contact.
IngestedInto(slot, t) ==
  /\ EntryOK(t) /\ t.used /\ t.mac # None /\ t.last = time /\ tab' = [tab EXCEPT ![slot] = t] /\ time' = time + 1
  /\ \/ t.first = time /\ t.no = seen + 1 /\ seen' = seen + 1 /\ ended' = ended \union Evicted(slot)
     \/ /\ slot \in Used /\ t.first = tab[slot].first /\ t.no = tab[slot].no /\ seen' = seen /\ ended' = ended
        /\ Serial(tab[slot].uas) => t.uas = tab[slot].uas
  /\ Serial(t.uas) => (seen' = seen /\ tab[slot].uas = t.uas) \/ \A r \in Used : tab[r].uas # t.uas
  /\ events' \in {events, Note(slot, t)}
  /\ (\A s \in Slot : Paired(tab[s])) => Paired(t)

LEMMA SerialsOfFrame ==
  ASSUME TableOK, NEW n \in Name \union {None}, NEW x \in Used,
         x \in ByName(n) \/ (Agrees(tab[x], n) /\ (n = None \/ ByName(n) = {}))
  PROVE  LET uas == Named(tab[x], n).uas IN
         /\ Serial(tab[x].uas) => uas = tab[x].uas
         /\ Serial(uas) => uas = tab[x].uas \/ \A r \in Used : tab[r].uas # uas
<1>1. x \in Slot /\ EntryOK(tab[x])
  BY DEF TableOK, Used
<1>2. CASE n = None \/ Registration(n)
  BY <1>1, <1>2, SerialNamed
<1>3. CASE n # None /\ ~Registration(n)
  <2>1. Serial(n) /\ Named(tab[x], n).uas = n
    BY <1>1, <1>3, SerialNamed DEF Serial
  <2>2. CASE x \in ByName(n)
    BY <1>3, <2>1, <2>2 DEF ByName
  <2>3. CASE Agrees(tab[x], n) /\ ByName(n) = {}
    <3>1. \A r \in Used : tab[r].uas # n
      BY <2>3 DEF ByName
    <3>2. ~Serial(tab[x].uas)
      BY <1>3, <2>3, NoneAssumption DEF Agrees, Serial
    <3> QED
      BY <2>1, <3>1, <3>2
  <2> QED
    BY <1>3, <2>2, <2>3
<1> QED
  BY <1>2, <1>3

LEMMA FrameIngested ==
  ASSUME IInv, NEW a \in Aircraft, NEW m \in Address, NEW content \in Content, Ingest(a, m, content)
  PROVE  \E slot, t : slot \in Slot /\ IngestedInto(slot, t)
<1> DEFINE n == NameIn(a, content)
           found == Found(m, n)
           slot == IF found # {} THEN First1(found) ELSE Room
           t0 == IF found # {} THEN tab[slot] ELSE Fresh
           t1 == Named(Addressed(t0, m), n)
           t2 == Beside(t1, a, content)
           t == [t2 EXCEPT !.last = time]
<1>1. TableOK /\ time \in Nat /\ seen \in Nat
  BY DEF IInv, Earlier
<1>2. n \in Name \union {None}
  BY DEF NameIn, Name, Content
<1>3. /\ tab' = [tab EXCEPT ![slot] = t] /\ time' = time + 1
      /\ seen' = (IF found = {} THEN seen + 1 ELSE seen)
      /\ ended' = (IF found = {} THEN ended \union Evicted(slot) ELSE ended)
      /\ events' \in {events, Note(slot, t)}
  BY DEF Ingest
<1> HIDE DEF n
<1>4. \/ found = {} /\ (n # None => ByName(n) = {})
      \/ \E x \in Used : /\ found = {x}
                         /\ x \in ByName(n) \/ (Agrees(tab[x], n) /\ (n = None \/ ByName(n) = {}))
  BY <1>1, FoundIsOne
<1> HIDE DEF found
<1>5. EntryOK(t0) => /\ EntryOK(t) /\ t.mac # None /\ t.last = time /\ t.used = t0.used /\ t.first = t0.first /\ t.no = t0.no
                     /\ t.uas = Named(Addressed(t0, m), n).uas /\ EntryOK(Addressed(t0, m)) /\ Addressed(t0, m).uas = t0.uas
  <2> HIDE DEF t0
  <2> SUFFICES ASSUME EntryOK(t0)
               PROVE  /\ EntryOK(t) /\ t.mac # None /\ t.last = time /\ t.used = t0.used /\ t.first = t0.first /\ t.no = t0.no
                      /\ t.uas = Named(Addressed(t0, m), n).uas /\ EntryOK(Addressed(t0, m)) /\ Addressed(t0, m).uas = t0.uas
    OBVIOUS
  <2>1. EntryOK(Addressed(t0, m)) /\ Addressed(t0, m).used = t0.used /\ Addressed(t0, m).uas = t0.uas
        /\ Addressed(t0, m).first = t0.first /\ Addressed(t0, m).no = t0.no /\ Addressed(t0, m).mac = m
    BY AddressedEntry
  <2>2. EntryOK(t1) /\ t1.mac = m /\ t1.used = t0.used /\ t1.first = t0.first /\ t1.no = t0.no
    BY <1>2, <2>1, NamedEntry
  <2> HIDE DEF t1
  <2>3. EntryOK(t2) /\ t2.mac = m /\ t2.used = t0.used /\ t2.uas = t1.uas /\ t2.first = t0.first /\ t2.no = t0.no
    BY <2>2, BesideEntry
  <2> HIDE DEF t2
  <2>4. EntryOK(t) /\ t.mac = m /\ t.last = time /\ t.used = t0.used /\ t.uas = t1.uas /\ t.first = t0.first /\ t.no = t0.no
    BY <1>1, <2>3 DEF EntryOK, Fields
  <2>5. m # None
    BY NoneAssumption
  <2> QED
    BY <2>1, <2>4, <2>5 DEF t1
<1>8. EntryOK(t0) /\ Paired(t0) => Paired(t)
  BY PairedStays DEF n
<1> HIDE DEF t
<1>6. CASE found = {}
  <2>1. slot \in Slot /\ t0 = Fresh
    BY <1>1, <1>6, RoomIsOne
  <2>2. EntryOK(Fresh) /\ Fresh.used /\ Fresh.uas = None /\ Fresh.first = time /\ Fresh.no = seen + 1
    BY <1>1, FreshEntry
  <2> HIDE DEF t0
  <2>3. EntryOK(t) /\ t.used /\ t.first = time /\ t.no = seen + 1 /\ t.mac # None /\ t.last = time
    BY <1>5, <2>1, <2>2
  <2>4. Serial(t.uas) => \A r \in Used : tab[r].uas # t.uas
    <3> SUFFICES ASSUME Serial(t.uas)
                 PROVE  \A r \in Used : tab[r].uas # t.uas
      OBVIOUS
    <3>1. Addressed(t0, m).uas = None
      BY <1>5, <2>1, <2>2
    <3>2. n # None /\ ~Registration(n) /\ t.uas = n
      BY <1>2, <1>5, <2>1, <2>2, <3>1, SerialNamed, NoneAssumption DEF Serial
    <3> QED
      BY <1>4, <1>6, <3>2 DEF ByName
  <2>5. Paired(t)
    BY <1>8, <2>1, <2>2 DEF Paired, Fresh, Unused
  <2> QED
    BY <1>3, <1>6, <2>1, <2>3, <2>4, <2>5 DEF IngestedInto
<1>7. CASE found # {}
  <2>1. PICK x \in Used : /\ found = {x}
                          /\ x \in ByName(n) \/ (Agrees(tab[x], n) /\ (n = None \/ ByName(n) = {}))
    BY <1>4, <1>7
  <2>2. slot = x /\ x \in Slot /\ t0 = tab[x] /\ EntryOK(tab[x]) /\ tab[x].used
    <3>1. x \in Slot /\ EntryOK(tab[x]) /\ tab[x].used
      BY <1>1 DEF TableOK, Used
    <3>2. First1({x}) = x
      BY <3>1, LowestIsOne
    <3> QED
      BY <1>7, <2>1, <3>1, <3>2
  <2> HIDE DEF t0, slot
  <2>3. EntryOK(t) /\ t.used /\ t.first = tab[x].first /\ t.no = tab[x].no /\ t.mac # None /\ t.last = time
    BY <1>5, <2>2
  <2>4. t.uas = Named(Addressed(tab[x], m), n).uas /\ EntryOK(Addressed(tab[x], m)) /\ Addressed(tab[x], m).uas = tab[x].uas
    BY <1>5, <2>2
  <2>5. Named(Addressed(tab[x], m), n).uas = Named(tab[x], n).uas
    BY <2>2, <2>4 DEF Named, EntryOK, Fields
  <2>6. /\ Serial(tab[x].uas) => t.uas = tab[x].uas
        /\ Serial(t.uas) => t.uas = tab[x].uas \/ \A r \in Used : tab[r].uas # t.uas
    BY <1>1, <1>2, <2>1, <2>4, <2>5, SerialsOfFrame
  <2>7. (\A s \in Slot : Paired(tab[s])) => Paired(t)
    BY <1>8, <2>2
  <2> QED
    BY <1>3, <1>7, <2>1, <2>2, <2>3, <2>6, <2>7 DEF IngestedInto
<1> QED
  BY <1>6, <1>7

-----------------------------------------------------------------------------
(* The invariant *)

LEMMA InitIndInv == Init => IInv
<1> SUFFICES ASSUME Init
             PROVE  IInv
  OBVIOUS
<1>1. Used = {} /\ events = <<>> /\ time = 0 /\ seen = 0
  BY UnusedEntry DEF Init, Used
<1>2. TableOK
  BY UnusedEntry DEF Init, TableOK
<1> QED
  BY <1>1, <1>2 DEF IInv, EventsOK, Earlier, HookRight, OneContactPerSerial

LEMMA EventOK ==
  ASSUME IInv, NEW i \in DOMAIN events
  PROVE  events[i].slot \in Slot /\ events[i].first < time /\ events[i].first \in Nat
<1> DEFINE E == [slot : Slot, first : Nat, no : Nat]
<1>1. events \in Seq(E)
  BY DEF IInv, EventsOK
<1> HIDE DEF E
<1>2. events[i] \in E
  BY <1>1
<1> QED
  BY <1>2 DEF E, IInv, Earlier

\* The events after a frame.
LEMMA NotedEvents ==
  ASSUME IInv, NEW slot \in Slot, NEW t, IngestedInto(slot, t)
  PROVE  /\ EventsOK'
         /\ \A i \in DOMAIN events' : \/ i \in DOMAIN events /\ events'[i] = events[i]
                                      \/ events'[i] = [slot |-> slot, first |-> t.first, no |-> t.no]
<1> DEFINE e == [slot |-> slot, first |-> t.first, no |-> t.no]
<1>1. e \in [slot : Slot, first : Nat, no : Nat]
  BY DEF IngestedInto, EntryOK
<1>2. events \in Seq([slot : Slot, first : Nat, no : Nat])
  BY DEF IInv, EventsOK
<1>3. events' = events \/ events' = Append(events, e)
  BY DEF IngestedInto, Note
<1> HIDE DEF e
<1>4. Append(events, e) \in Seq([slot : Slot, first : Nat, no : Nat])
      /\ \A i \in DOMAIN Append(events, e) : \/ i \in DOMAIN events /\ Append(events, e)[i] = events[i]
                                             \/ Append(events, e)[i] = e
  <2> DEFINE E == [slot : Slot, first : Nat, no : Nat]
  <2> HIDE DEF E
  <2>1. events \in Seq(E) /\ e \in E
    BY <1>1, <1>2 DEF E
  <2>2. /\ Append(events, e) \in Seq(E) /\ Len(Append(events, e)) = Len(events) + 1
        /\ \A i \in 1 .. Len(events) : Append(events, e)[i] = events[i]
        /\ Append(events, e)[Len(events) + 1] = e
    BY <2>1, AppendProperties
  <2>3. Len(events) \in Nat /\ DOMAIN events = 1 .. Len(events) /\ DOMAIN Append(events, e) = 1 .. Len(events) + 1
    BY <2>1, <2>2, LenProperties
  <2> QED
    BY <2>2, <2>3 DEF E
<1> QED
  BY <1>2, <1>3, <1>4 DEF EventsOK, e

LEMMA FramePreserves ==
  ASSUME IInv, NEW slot \in Slot, NEW t, IngestedInto(slot, t)
  PROVE  IInv' /\ KeepsSerial
<1>1. /\ EntryOK(t) /\ t.used /\ tab' = [tab EXCEPT ![slot] = t] /\ time' = time + 1
      /\ DOMAIN tab = Slot /\ (\A s \in Slot : EntryOK(tab[s])) /\ time \in Nat /\ seen \in Nat
  BY DEF IngestedInto, IInv, TableOK, Earlier
<1>2. tab'[slot] = t /\ DOMAIN tab' = Slot /\ \A s \in Slot : s # slot => tab'[s] = tab[s]
  BY <1>1
<1>3. \A s \in Used : s \in Slot /\ tab[s].used /\ tab[s].first < time /\ tab[s].no <= seen
                      /\ tab[s].first \in Nat /\ tab[s].no \in Nat
  BY <1>1 DEF IInv, Earlier, Used, EntryOK
<1>4. \/ t.first = time /\ t.no = seen + 1 /\ seen' = seen + 1
      \/ slot \in Used /\ t.first = tab[slot].first /\ t.no = tab[slot].no /\ seen' = seen
  BY DEF IngestedInto
<1>5. TableOK'
  BY <1>1, <1>2 DEF TableOK
<1>6. EventsOK' /\ \A i \in DOMAIN events' : \/ i \in DOMAIN events /\ events'[i] = events[i]
                                             \/ events'[i] = [slot |-> slot, first |-> t.first, no |-> t.no]
  BY NotedEvents
<1>7. Earlier'
  <2>1. \A s \in Used' : tab'[s].first < time' /\ tab'[s].no <= seen'
    BY <1>1, <1>2, <1>3, <1>4 DEF Used
  <2>2. \A i \in DOMAIN events : events[i].first < time /\ events[i].first \in Nat
    BY EventOK
  <2>3. t.first < time + 1
    BY <1>1, <1>3, <1>4
  <2>4. \A i \in DOMAIN events' : events'[i].first < time'
    BY <1>1, <1>6, <2>2, <2>3
  <2> QED
    BY <1>1, <1>4, <2>1, <2>4 DEF Earlier
<1>8. HookRight'
  <2> SUFFICES ASSUME NEW i \in DOMAIN events', tab'[events'[i].slot].used, tab'[events'[i].slot].first = events'[i].first
               PROVE  tab'[events'[i].slot].no = events'[i].no
    BY DEF HookRight, Hooked
  <2>1. CASE events'[i] = [slot |-> slot, first |-> t.first, no |-> t.no]
    BY <1>2, <2>1
  <2>2. CASE i \in DOMAIN events /\ events'[i] = events[i]
    <3>1. events[i].slot \in Slot /\ events[i].first < time /\ events[i].first \in Nat
      BY <2>2, EventOK
    <3>2. tab[events[i].slot].used /\ tab[events[i].slot].first = events[i].first => tab[events[i].slot].no = events[i].no
      BY <2>2 DEF IInv, HookRight, Hooked
    <3>3. CASE events[i].slot # slot
      BY <1>2, <2>2, <3>1, <3>2, <3>3
    <3>4. CASE events[i].slot = slot
      <4>1. t.first # time
        BY <1>1, <1>2, <2>2, <3>1, <3>4
      <4> QED
        BY <1>2, <1>3, <1>4, <2>2, <3>2, <3>4, <4>1
    <3> QED
      BY <3>3, <3>4
  <2> QED
    BY <1>6, <2>1, <2>2
<1>9. OneContactPerSerial'
  <2>1. ASSUME NEW s \in Slot, s # slot, tab[s].used, Serial(t.uas)
        PROVE  tab[s].uas # t.uas
    <3>1. CASE seen' = seen /\ tab[slot].uas = t.uas
      <4>1. slot \in Used /\ s \in Used
        BY <1>1, <1>4, <2>1, <3>1 DEF Used
      <4> QED
        BY <2>1, <3>1, <4>1, NoneAssumption DEF IInv, OneContactPerSerial, Serial
    <3>2. CASE \A r \in Used : tab[r].uas # t.uas
      BY <2>1, <3>2 DEF Used
    <3> QED
      BY <2>1, <3>1, <3>2 DEF IngestedInto
  <2>2. ASSUME NEW r \in Used', NEW s \in Used', r # s, tab'[r].uas = tab'[s].uas
        PROVE  tab'[r].uas = None \/ Registration(tab'[r].uas)
    <3>1. r \in Slot /\ s \in Slot /\ tab'[r].used /\ tab'[s].used
      BY <1>2 DEF Used
    <3>2. tab'[r].uas \in Name \union {None}
      BY <1>5, <3>1 DEF TableOK, EntryOK
    <3>3. CASE r = slot
      BY <1>2, <2>1, <2>2, <3>1, <3>2, <3>3 DEF Serial
    <3>4. CASE s = slot
      BY <1>2, <2>1, <2>2, <3>1, <3>2, <3>4 DEF Serial
    <3>5. CASE r # slot /\ s # slot
      BY <1>2, <2>2, <3>1, <3>5 DEF IInv, OneContactPerSerial, Used
    <3> QED
      BY <3>3, <3>4, <3>5
  <2> QED
    BY <2>2 DEF OneContactPerSerial
<1>10. KeepsSerial
  <2> SUFFICES ASSUME NEW s \in Slot, tab[s].used, tab[s].no = tab'[s].no, tab[s].uas # None, ~Registration(tab[s].uas)
               PROVE  tab'[s].uas = tab[s].uas
    BY DEF KeepsSerial
  <2>1. s \in Used /\ Serial(tab[s].uas)
    BY <1>1 DEF Used, EntryOK, Serial
  <2>2. CASE s # slot
    BY <1>2, <2>2
  <2>3. CASE s = slot
    <3>1. tab[s].no <= seen /\ tab[s].no \in Nat /\ t.no = tab[s].no
      BY <1>2, <1>3, <2>1, <2>3
    <3>2. t.no # seen + 1
      BY <1>1, <3>1
    <3> QED
      BY <1>2, <2>1, <2>3, <3>2 DEF IngestedInto
  <2> QED
    BY <2>2, <2>3
<1> QED
  BY <1>5, <1>6, <1>7, <1>8, <1>9, <1>10 DEF IInv

LEMMA ExpirePreserves == IInv /\ TrackerExpire => IInv' /\ KeepsSerial
<1> SUFFICES ASSUME IInv, TrackerExpire
             PROVE  IInv' /\ KeepsSerial
  OBVIOUS
<1>1. /\ events' = events /\ seen' = seen /\ time' = time /\ DOMAIN tab' = Slot
      /\ \A s \in Slot : tab'[s] = Unused \/ tab'[s] = tab[s]
  BY DEF TrackerExpire
<1>2. \A s \in Slot : tab'[s].used => tab'[s] = tab[s]
  BY <1>1, UnusedEntry
<1>3. TableOK'
  BY <1>1, UnusedEntry DEF IInv, TableOK
<1>4. EventsOK' /\ Earlier'
  BY <1>1, <1>2 DEF IInv, EventsOK, Earlier, Used
<1>5. HookRight'
  <2>1. \A i \in DOMAIN events : events[i].slot \in Slot
    BY EventOK
  <2> QED
    BY <1>1, <1>2, <2>1 DEF IInv, HookRight, Hooked
<1>6. OneContactPerSerial'
  BY <1>1, <1>2 DEF IInv, OneContactPerSerial, Used
<1>7. KeepsSerial
  BY <1>2 DEF KeepsSerial
<1> QED
  BY <1>3, <1>4, <1>5, <1>6, <1>7 DEF IInv

LEMMA Step == IInv /\ [Next]_vars => IInv' /\ (KeepsSerial \/ UNCHANGED vars)
<1> SUFFICES ASSUME IInv, [Next]_vars
             PROVE  IInv' /\ (KeepsSerial \/ UNCHANGED vars)
  OBVIOUS
<1>1. ASSUME NEW h \in Heard, NEW s \in Says, Ingest(h[1], h[2], s[2])
      PROVE  IInv' /\ KeepsSerial
  <2>1. h[1] \in Aircraft /\ h[2] \in Address /\ s[2] \in Content
    BY HeardAssumption
  <2>2. PICK slot, t : slot \in Slot /\ IngestedInto(slot, t)
    BY <1>1, <2>1, FrameIngested
  <2> QED
    BY <2>2, FramePreserves
<1>2. CASE Pass
  BY <1>2 DEF Pass, IInv, TableOK, EventsOK, Earlier, HookRight, Hooked, OneContactPerSerial, Used, KeepsSerial
<1>3. CASE TrackerExpire
  BY <1>3, ExpirePreserves
<1>4. CASE HookEvents
  <2>1. tab' = tab /\ events' = <<>> /\ seen' = seen /\ time' = time
    BY <1>4 DEF HookEvents
  <2>2. TableOK' /\ Earlier' /\ OneContactPerSerial' /\ KeepsSerial
    BY <2>1 DEF IInv, TableOK, Earlier, OneContactPerSerial, Used, KeepsSerial
  <2>3. EventsOK' /\ HookRight'
    BY <2>1 DEF EventsOK, HookRight
  <2> QED
    BY <2>2, <2>3 DEF IInv
<1>5. CASE Silence
  <2>1. tab' = tab /\ events' = events /\ seen' = seen /\ time' = time + 1
    BY <1>5 DEF Silence
  <2>2. TableOK' /\ EventsOK' /\ HookRight' /\ OneContactPerSerial' /\ KeepsSerial
    BY <2>1 DEF IInv, TableOK, EventsOK, HookRight, Hooked, OneContactPerSerial, Used, KeepsSerial
  <2>3. \A s \in Used : tab[s].first \in Nat
    BY DEF IInv, TableOK, EntryOK, Used
  <2>4. \A i \in DOMAIN events : events[i].first < time /\ events[i].first \in Nat
    BY EventOK
  <2>5. Earlier'
    BY <2>1, <2>3, <2>4 DEF IInv, Earlier, Used
  <2> QED
    BY <2>2, <2>5 DEF IInv
<1>6. CASE UNCHANGED vars
  BY <1>6 DEF vars, IInv, TableOK, EventsOK, Earlier, HookRight, Hooked, OneContactPerSerial, Used
<1> QED
  BY <1>1, <1>2, <1>3, <1>4, <1>5, <1>6 DEF Next

-----------------------------------------------------------------------------
\* Identity wins over the address (tracker_upsert): no serial is in two
\* contacts, and a contact keeps its serial, whatever was heard on which
\* address; and the hook of an event (rx_tick) sees the contact the event was
\* of, though its slot may have changed hands since.
THEOREM IdentityIsKept == Spec => IdentityKept
<1>1. IInv /\ [Next]_vars => [OneContactPerSerial' /\ KeepsSerial /\ HookRight']_vars
  BY Step DEF IInv
<1> QED
  BY <1>1, InitIndInv, Step, PTL DEF Spec, IdentityKept

-----------------------------------------------------------------------------
(***************************************************************************)
(* What is kept of a contact, and how long (KeptTillSilent), for every      *)
(* table, every set of aircraft and addresses, and every reading of          *)
(* millis() in the first state: it is attached to the addresses it was last *)
(* heard on, it ends once, and for silence only when it was silent for      *)
(* TRK_EXPIRE_MS, though the loop's clock is older than what the decode     *)
(* task wrote and comes round.                                             *)
(*                                                                         *)
(* The argument: the addresses are part of what every entry of the table    *)
(* is (Attached); a number leaves the table when it joins the log and no    *)
(* other way; and two readings that are less than half a round apart have   *)
(* the right difference (SinceIs).                                         *)
(***************************************************************************)
Clocked ==
  /\ time \in 0 .. MaxTime /\ now \in 0 .. time
  /\ \A s \in Used : tab[s].mac # None /\ tab[s].last <= time

Numbered ==
  /\ ended \subseteq 1 .. seen
  /\ \A s \in Used : tab[s].no \in 1 .. seen /\ tab[s].no \notin ended
  /\ \A c \in 1 .. seen : c \in ended \/ \E s \in Used : tab[s].no = c
  /\ \A r, s \in Used : r # s => tab[r].no # tab[s].no

KeptInv == IInv /\ Clocked /\ Numbered

LEMMA Rounds ==
  ASSUME NEW c \in Nat \ {0}, NEW q \in Int, NEW d \in Int, NEW r \in 0 .. c - 1, d = c * q + r, d < c, -c <= d
  PROVE  r = IF d < 0 THEN d + c ELSE d
<1>1. q >= 1 => c * q >= c
  BY SMTT(30)
<1>2. q <= -2 => c * q <= -2 * c
  BY SMTT(30)
<1>3. q < 1
  BY <1>1
<1>4. q > -2
  BY <1>2
<1>5. q = 0 \/ q = -1
  BY <1>3, <1>4
<1>6. CASE q = 0
  BY <1>6
<1>7. CASE q = -1
  BY <1>7
<1> QED
  BY <1>5, <1>6, <1>7

LEMMA Divided ==
  ASSUME NEW x \in Int, NEW c \in Nat \ {0}
  PROVE  x % c \in 0 .. c - 1 /\ \E q \in Int : x = c * q + (x % c)
<1>1. x \div c \in Int /\ x = c * (x \div c) + (x % c) /\ x % c \in 0 .. c - 1
  BY SMTT(30)
<1> QED
  BY <1>1

\* The signed difference of two readings is that of the times.
LEMMA SinceIs == ASSUME NEW a \in 0 .. MaxTime, NEW b \in 0 .. MaxTime PROVE Since(a, b) = a - b
<1> DEFINE ra == (Start + a) % Clock
           rb == (Start + b) % Clock
           d == (ra - rb) % Clock
<1>1. /\ Clock \in Nat \ {0} /\ Start \in 0 .. Clock - 1 /\ MaxTime \in Nat /\ 2 * (MaxTime + 1) < Clock
      /\ Start + a \in Int /\ Start + b \in Int
  BY SizeAssumption, WrapAssumption
<1>2. ra \in 0 .. Clock - 1 /\ \E q \in Int : Start + a = Clock * q + ra
  BY <1>1, Divided, Zenon
<1>3. rb \in 0 .. Clock - 1 /\ \E q \in Int : Start + b = Clock * q + rb
  BY <1>1, Divided, Zenon
<1> HIDE DEF ra, rb
<1>4. ra - rb \in Int
  BY <1>1, <1>2, <1>3
<1>5. d \in 0 .. Clock - 1 /\ \E q \in Int : ra - rb = Clock * q + d
  BY <1>1, <1>4, Divided, Zenon
<1> HIDE DEF d
<1>6. \E q \in Int : a - b = Clock * q + d
  <2>1. PICK q1 \in Int : Start + a = Clock * q1 + ra
    BY <1>2
  <2>2. PICK q2 \in Int : Start + b = Clock * q2 + rb
    BY <1>3
  <2>3. PICK q3 \in Int : ra - rb = Clock * q3 + d
    BY <1>5
  <2>4. Clock * q1 \in Int /\ Clock * q2 \in Int /\ Clock * q3 \in Int
    BY <1>1
  <2>5. Clock * (q1 - q2 + q3) = Clock * q1 - Clock * q2 + Clock * q3
    BY <1>1, SMTT(30)
  <2>6. a - b = Clock * (q1 - q2 + q3) + d
    BY <1>1, <1>2, <1>3, <1>5, <2>1, <2>2, <2>3, <2>4, <2>5
  <2> QED
    BY <2>6
<1>7. a - b \in Int /\ a - b < Clock /\ -Clock <= a - b
  BY <1>1
<1>8. d = IF a - b < 0 THEN a - b + Clock ELSE a - b
  BY <1>1, <1>5, <1>6, <1>7, Rounds, Zenon
<1>9. Since(a, b) = IF d < Clock \div 2 THEN d ELSE d - Clock
  BY DEF Since, Millis, ra, rb, d
<1>10. CASE a - b < 0
  <2>1. ~(d < Clock \div 2)
    BY <1>1, <1>5, <1>8, <1>10
  <2> QED
    BY <1>1, <1>5, <1>8, <1>9, <1>10, <2>1
<1>11. CASE ~(a - b < 0)
  <2>1. d < Clock \div 2
    BY <1>1, <1>5, <1>8, <1>11
  <2> QED
    BY <1>1, <1>5, <1>8, <1>9, <1>11, <2>1
<1> QED
  BY <1>10, <1>11

LEMMA KeptFollows == KeptInv => AddressesRecent /\ InTableOrLog
<1> SUFFICES ASSUME KeptInv PROVE AddressesRecent /\ InTableOrLog
  OBVIOUS
<1>1. InTableOrLog
  <2> DEFINE there == {tab[s].no : s \in Used}
             all == 1 .. seen
  <2>1. /\ ended \subseteq all
        /\ \A s \in Used : tab[s].no \in all /\ tab[s].no \notin ended
        /\ \A c \in all : c \in ended \/ \E s \in Used : tab[s].no = c
        /\ \A r, s \in Used : r # s => tab[r].no # tab[s].no
    BY DEF KeptInv, Numbered
  <2> HIDE DEF all
  <2>2. there \union ended = all /\ there \intersect ended = {}
    BY <2>1
  <2> QED
    BY <2>1, <2>2 DEF InTableOrLog, all
<1>2. AddressesRecent
  <2> SUFFICES ASSUME NEW s \in Used
               PROVE LET t == tab[s]
                         held == Append(t.alts, t.mac)
                         n == Len(t.heard)
                     IN /\ Len(held) = IF n <= AltMacs THEN n ELSE AltMacs + 1
                        /\ held = SubSeq(t.heard, n - Len(held) + 1, n)
    BY DEF AddressesRecent
  <2> DEFINE alts == tab[s].alts
             mac == tab[s].mac
             heard == tab[s].heard
             held == Append(alts, mac)
             n == Len(heard)
             k == Len(held)
  <2>1. Attached(mac, alts, heard) /\ mac # None
    BY DEF KeptInv, IInv, TableOK, EntryOK, Clocked, Used
  <2> HIDE DEF alts, mac, heard
  <2>2. /\ alts \in Seq(Address) /\ heard \in Seq(Address) /\ mac \in Address /\ n \in Nat /\ n >= 1 /\ heard[n] = mac
        /\ Len(alts) = (IF n <= AltMacs THEN n - 1 ELSE AltMacs)
        /\ \A j \in 1 .. Len(alts) : alts[j] = heard[n - 1 - Len(alts) + j]
    BY <2>1, LenProperties DEF Attached
  <2>3. /\ held \in Seq(Address) /\ k = Len(alts) + 1 /\ held[Len(alts) + 1] = mac
        /\ \A j \in 1 .. Len(alts) : held[j] = alts[j]
    BY <2>2, AppendIs
  <2>4. Len(alts) \in Nat /\ AltMacs \in Nat /\ \A j \in 1 .. n : heard[j] \in Address
    BY <2>2, LenProperties, ElementOfSeq, SizeAssumption
  <2> HIDE DEF n, held, k
  <2>5. k = IF n <= AltMacs THEN n ELSE AltMacs + 1
    BY <2>2, <2>3, <2>4
  <2>6. k \in 1 .. n
    BY <2>2, <2>4, <2>5, SizeAssumption
  <2> DEFINE end == SubSeq(heard, n - k + 1, n)
  <2>7. /\ end \in Seq(Address) /\ Len(end) = (IF n - k + 1 <= n THEN n - (n - k + 1) + 1 ELSE 0)
        /\ \A j \in 1 .. n - (n - k + 1) + 1 : end[j] = heard[(n - k + 1) + j - 1]
    <3>1. n - k + 1 \in Int /\ n \in Int /\ \A j \in n - k + 1 .. n : heard[j] \in Address
      BY <2>2, <2>4, <2>6
    <3> QED
      BY <3>1, SubSeqProperties
  <2> HIDE DEF end
  <2>8. Len(end) = k /\ \A j \in 1 .. k : end[j] = heard[n - k + j]
    <3>1. Len(end) = k
      BY <2>2, <2>6, <2>7
    <3>2. ASSUME NEW j \in 1 .. k PROVE end[j] = heard[n - k + j]
      <4>1. j \in 1 .. n - (n - k + 1) + 1 /\ (n - k + 1) + j - 1 = n - k + j
        BY <2>2, <2>6
      <4> QED
        BY <2>7, <4>1
    <3> QED
      BY <3>1, <3>2
  <2>9. ASSUME NEW j \in 1 .. k PROVE held[j] = end[j]
    <3>1. CASE j = k
      <4>1. n - k + j = n /\ j = Len(alts) + 1
        BY <2>2, <2>3, <2>4, <2>6, <3>1
      <4> QED
        BY <2>2, <2>3, <2>8, <4>1
    <3>2. CASE j # k
      <4>1. j \in 1 .. Len(alts) /\ n - 1 - Len(alts) + j = n - k + j
        BY <2>2, <2>3, <2>4, <2>6, <3>2
      <4> QED
        BY <2>2, <2>3, <2>8, <4>1
    <3> QED
      BY <3>1, <3>2
  <2>10. held = end
    BY <2>3, <2>7, <2>8, <2>9, SeqEqual DEF k
  <2> QED
    BY <2>5, <2>10 DEF end, k, held, n, alts, mac, heard
<1> QED
  BY <1>1, <1>2

-----------------------------------------------------------------------------
LEMMA KeptInitially == Init => KeptInv
<1> SUFFICES ASSUME Init PROVE KeptInv
  OBVIOUS
<1>1. Used = {} /\ ended = {} /\ time = 0 /\ now = 0 /\ seen = 0
  BY UnusedEntry DEF Init, Used
<1> QED
  BY <1>1, InitIndInv, SizeAssumption DEF KeptInv, Clocked, Numbered

\* No contact ends for silence too early.
Patient == seen' = seen => \A s \in Used : ~tab'[s].used => time - tab[s].last > Expire

LEMMA FrameKeeps ==
  ASSUME KeptInv, NEW slot \in Slot, NEW t, IngestedInto(slot, t), time < MaxTime, now' = now
  PROVE  Clocked' /\ Numbered' /\ Patient
<1>1. /\ t.used /\ t.mac # None /\ t.last = time /\ tab' = [tab EXCEPT ![slot] = t] /\ time' = time + 1
      /\ DOMAIN tab = Slot /\ time \in 0 .. MaxTime /\ now \in 0 .. time /\ seen \in Nat /\ MaxTime \in Nat
  BY SizeAssumption DEF IngestedInto, KeptInv, Clocked, IInv, TableOK, Earlier
<1>2. tab'[slot] = t /\ \A s \in Slot : s # slot => tab'[s] = tab[s]
  BY <1>1
<1>3. \A s \in Used : s \in Slot /\ tab[s].last \in Nat /\ tab[s].last <= time /\ tab[s].mac # None
  BY DEF KeptInv, Clocked, IInv, TableOK, EntryOK, Used
<1>4. \A s \in Slot : (s \in Used' <=> s = slot \/ s \in Used) /\ (s \in Used <=> tab[s].used)
  BY <1>1, <1>2 DEF Used
<1>5. Used' \subseteq Slot /\ Used \subseteq Slot
  BY DEF Used
<1>6. Clocked'
  <2>1. \A s \in Used' : tab'[s].mac # None /\ tab'[s].last <= time + 1
    BY <1>1, <1>2, <1>3, <1>4, <1>5
  <2> QED
    BY <1>1, <2>1 DEF Clocked
<1>7. Patient
  BY <1>1, <1>2, <1>4, <1>5 DEF Patient
<1>8. Numbered
  BY DEF KeptInv
<1>9. CASE t.no = seen + 1 /\ seen' = seen + 1 /\ ended' = ended \union Evicted(slot)
  <2>1. /\ slot \in Used => ended' = ended \union {tab[slot].no}
        /\ slot \notin Used => ended' = ended
    BY <1>4, <1>9 DEF Evicted
  <2>2. /\ ended \subseteq 1 .. seen /\ \A s \in Used : tab[s].no \in 1 .. seen /\ tab[s].no \notin ended
    BY <1>8 DEF Numbered
  <2>3. ended' \subseteq 1 .. seen
    <3> DEFINE all == 1 .. seen
    <3>1. ended \subseteq all /\ \A s \in Used : tab[s].no \in all
      BY <2>2
    <3> HIDE DEF all
    <3>2. ended' \subseteq all
      BY <2>1, <3>1
    <3> QED
      BY <3>2 DEF all
  <2>4. ASSUME NEW s \in Used' PROVE tab'[s].no \in 1 .. seen' /\ tab'[s].no \notin ended'
    <3>1. CASE s = slot
      BY <1>1, <1>2, <1>9, <2>3, <3>1
    <3>2. CASE s # slot
      <4>1. s \in Used /\ tab'[s] = tab[s]
        BY <1>2, <1>4, <1>5, <3>2
      <4>2. slot \in Used => tab[slot].no # tab[s].no
        BY <1>8, <3>2, <4>1 DEF Numbered
      <4> QED
        BY <1>1, <1>9, <2>1, <2>2, <4>1, <4>2
    <3> QED
      BY <3>1, <3>2
  <2>5. ASSUME NEW c \in 1 .. seen' PROVE c \in ended' \/ \E s \in Used' : tab'[s].no = c
    <3>1. CASE c = seen + 1
      BY <1>2, <1>4, <1>9, <3>1
    <3>2. CASE c # seen + 1
      <4>1. c \in 1 .. seen
        BY <1>1, <1>9, <3>2
      <4>2. CASE c \in ended
        BY <1>9, <4>2
      <4>3. CASE \E s \in Used : tab[s].no = c
        BY <1>2, <1>4, <1>5, <2>1, <4>3
      <4> QED
        BY <1>8, <4>1, <4>2, <4>3 DEF Numbered
    <3> QED
      BY <3>1, <3>2
  <2>6. ASSUME NEW r \in Used', NEW s \in Used', r # s PROVE tab'[r].no # tab'[s].no
    <3>1. \A x \in Used' : x # slot => tab'[x].no = tab[x].no /\ tab[x].no \in 1 .. seen /\ x \in Used
      BY <1>2, <1>4, <1>5, <2>2
    <3>2. tab'[slot].no \notin 1 .. seen
      BY <1>1, <1>2, <1>9
    <3> QED
      BY <1>8, <2>6, <3>1, <3>2 DEF Numbered
  <2>7. ended' \subseteq 1 .. seen'
    BY <1>1, <1>9, <2>3
  <2> QED
    <3>1. /\ ended' \subseteq 1 .. seen'
          /\ \A s \in Used' : tab'[s].no \in 1 .. seen' /\ tab'[s].no \notin ended'
          /\ \A c \in 1 .. seen' : c \in ended' \/ \E s \in Used' : tab'[s].no = c
          /\ \A r, s \in Used' : r # s => tab'[r].no # tab'[s].no
      BY <2>4, <2>5, <2>6, <2>7
    <3> QED
      BY <1>6, <1>7, <3>1, Zenon DEF Numbered
<1>10. CASE slot \in Used /\ t.no = tab[slot].no /\ seen' = seen /\ ended' = ended
  <2>1. Used' = Used /\ \A s \in Used : tab'[s].no = tab[s].no
    BY <1>2, <1>4, <1>5, <1>10
  <2> QED
    <3> DEFINE all == 1 .. seen
    <3>1. /\ ended \subseteq all
          /\ \A s \in Used : tab[s].no \in all /\ tab[s].no \notin ended
          /\ \A c \in all : c \in ended \/ \E s \in Used : tab[s].no = c
          /\ \A r, s \in Used : r # s => tab[r].no # tab[s].no
      BY <1>8 DEF Numbered
    <3>2. all = 1 .. seen'
      BY <1>10
    <3> HIDE DEF all
    <3>3. /\ ended' \subseteq all
          /\ \A s \in Used' : tab'[s].no \in all /\ tab'[s].no \notin ended'
          /\ \A c \in all : c \in ended' \/ \E s \in Used' : tab'[s].no = c
          /\ \A r, s \in Used' : r # s => tab'[r].no # tab'[s].no
      BY <1>10, <2>1, <3>1
    <3> QED
      BY <1>6, <1>7, <3>2, <3>3, Zenon DEF Numbered
<1> QED
  BY <1>6, <1>7, <1>9, <1>10 DEF IngestedInto

LEMMA ExpireKeeps ==
  ASSUME KeptInv, TrackerExpire
  PROVE  Clocked' /\ Numbered' /\ Patient
<1> DEFINE gone == {s \in Slot : Stale(tab[s])}
<1>1. /\ tab' = [s \in Slot |-> IF s \in gone THEN Unused ELSE tab[s]] /\ ended' = ended \union {tab[s].no : s \in gone}
      /\ seen' = seen /\ time' = time /\ now' = now
  BY DEF TrackerExpire
<1>2. gone \subseteq Used /\ Used \subseteq Slot
  BY DEF Stale, Used
<1>3. \A s \in gone : Since(now, tab[s].last) > Expire
  BY DEF Stale
<1> HIDE DEF gone
<1>4. Used' = Used \ gone /\ \A s \in Used \ gone : tab'[s] = tab[s]
  <2>1. \A s \in Slot : tab'[s] = IF s \in gone THEN Unused ELSE tab[s]
    BY <1>1
  <2>2. \A s \in Slot : tab'[s].used <=> (s \notin gone /\ tab[s].used)
    BY <2>1, UnusedEntry
  <2>3. Used' = {s \in Slot : tab'[s].used} /\ Used = {s \in Slot : tab[s].used}
    BY DEF Used
  <2> QED
    BY <1>2, <2>1, <2>2, <2>3
<1>5. Clocked'
  BY <1>1, <1>4 DEF KeptInv, Clocked
<1>6. Numbered'
  <2>1. Numbered
    BY DEF KeptInv
  <2>2. /\ ended \subseteq 1 .. seen /\ \A s \in Used : tab[s].no \in 1 .. seen /\ tab[s].no \notin ended
        /\ \A c \in 1 .. seen : c \in ended \/ \E s \in Used : tab[s].no = c
        /\ \A r, s \in Used : r # s => tab[r].no # tab[s].no
    BY <2>1 DEF Numbered
  <2>3. ended' \subseteq 1 .. seen
    <3> DEFINE all == 1 .. seen
    <3>1. ended \subseteq all /\ \A s \in Used : tab[s].no \in all
      BY <2>2
    <3> HIDE DEF all
    <3>2. ended' \subseteq all
      BY <1>1, <1>2, <3>1
    <3> QED
      BY <3>2 DEF all
  <2>4. ASSUME NEW s \in Used \ gone PROVE tab'[s].no = tab[s].no /\ tab[s].no \in 1 .. seen /\ tab[s].no \notin ended'
    BY <1>1, <1>2, <1>4, <2>2
  <2>5. \A c \in 1 .. seen : c \in ended' \/ \E s \in Used \ gone : tab'[s].no = c
    BY <1>1, <1>4, <2>2
  <2> QED
    BY <1>1, <1>4, <2>2, <2>3, <2>4, <2>5 DEF Numbered
<1>7. Patient
  <2> SUFFICES ASSUME NEW s \in Used, ~tab'[s].used PROVE time - tab[s].last > Expire
    BY DEF Patient
  <2>1. s \in gone
    <3>1. s \in Slot /\ tab[s].used
      BY DEF Used
    <3> QED
      BY <1>4, <3>1
  <2>2. tab[s].last \in 0 .. MaxTime /\ now \in 0 .. MaxTime /\ now <= time /\ time \in Nat /\ Expire \in Nat
    BY <1>2, SizeAssumption DEF KeptInv, Clocked, IInv, TableOK, EntryOK, Used
  <2>3. now - tab[s].last > Expire
    BY <1>3, <2>1, <2>2, SinceIs
  <2> QED
    BY <2>2, <2>3
<1> QED
  BY <1>5, <1>6, <1>7

LEMMA KeptStays == KeptInv /\ [Next]_vars => KeptInv' /\ (Patient \/ UNCHANGED vars)
<1> SUFFICES ASSUME KeptInv, [Next]_vars PROVE KeptInv' /\ (Patient \/ UNCHANGED vars)
  OBVIOUS
<1>1. IInv'
  BY Step DEF KeptInv
<1>2. ASSUME NEW h \in Heard, NEW s \in Says, Ingest(h[1], h[2], s[2])
      PROVE  Clocked' /\ Numbered' /\ Patient
  <2>1. h[1] \in Aircraft /\ h[2] \in Address /\ s[2] \in Content
    BY HeardAssumption
  <2>2. PICK slot, t : slot \in Slot /\ IngestedInto(slot, t)
    BY <1>2, <2>1, FrameIngested DEF KeptInv
  <2>3. time < MaxTime /\ now' = now
    BY <1>2 DEF Ingest
  <2> QED
    BY <2>2, <2>3, FrameKeeps
<1>3. CASE TrackerExpire
  BY <1>1, <1>3, ExpireKeeps DEF KeptInv
<1>4. ASSUME tab' = tab, seen' = seen, ended' = ended, time' \in time .. MaxTime, now' \in 0 .. time'
      PROVE  Clocked' /\ Numbered' /\ Patient
  <2>1. Used' = Used
    BY <1>4 DEF Used
  <2>2. \A s \in Used : tab[s].last \in Nat /\ tab[s].used
    BY DEF KeptInv, IInv, TableOK, EntryOK, Used
  <2>3. time \in Nat /\ MaxTime \in Nat
    BY SizeAssumption DEF KeptInv, Clocked
  <2>4. \A s \in Used : tab[s].last <= time' /\ tab[s].mac # None
    BY <1>4, <2>2, <2>3 DEF KeptInv, Clocked
  <2>5. Clocked'
    BY <1>4, <2>1, <2>3, <2>4 DEF Clocked
  <2> QED
    BY <1>4, <2>1, <2>2, <2>5 DEF KeptInv, Numbered, Patient
<1>5. time \in 0 .. MaxTime /\ now \in 0 .. time /\ MaxTime \in Nat
  BY SizeAssumption DEF KeptInv, Clocked
<1>6. CASE Pass
  BY <1>1, <1>4, <1>5, <1>6 DEF Pass, KeptInv
<1>7. CASE HookEvents
  BY <1>1, <1>4, <1>5, <1>7 DEF HookEvents, KeptInv
<1>8. CASE Silence
  BY <1>1, <1>4, <1>5, <1>8 DEF Silence, KeptInv
<1>9. CASE UNCHANGED vars
  BY <1>1, <1>4, <1>5, <1>9 DEF vars, KeptInv
<1> QED
  BY <1>1, <1>2, <1>3, <1>6, <1>7, <1>8, <1>9 DEF Next, KeptInv

\* A contact is attached to its recent addresses, ends once, and for silence only
\* when it was silent for TRK_EXPIRE_MS (tracker_upsert, tracker_expire): for
\* every size of the table and of the list of addresses, however the frames come
\* between the loop's reading of its clock and its use, and wherever millis() wraps.
THEOREM ContactsAreKept == Spec => KeptTillSilent
<1>1. KeptInv => AddressesRecent /\ InTableOrLog
  BY KeptFollows
<1>2. KeptInv /\ [Next]_vars => [Patient]_vars
  BY KeptStays
<1>3. KeptInv /\ [Next]_vars => KeptInv'
  BY KeptStays
<1>4. Init => KeptInv
  BY KeptInitially
<1> QED
  BY <1>1, <1>2, <1>3, <1>4, PTL DEF Spec, KeptTillSilent, Patient

-----------------------------------------------------------------------------
(***************************************************************************)
(* The types of the table (TypeOK), for every table and set of aircraft.   *)
(* To what KeptInv says is added what the slots nobody uses hold, that a   *)
(* second name is a registration beside a serial (Paired), and of which    *)
(* contacts the events are.                                                *)
(***************************************************************************)
Filed ==
  /\ \A s \in Slot : Paired(tab[s]) /\ (tab[s].used \/ tab[s] = Unused) /\ tab[s].first <= tab[s].last
  /\ \A i \in DOMAIN events : events[i].no \in 1 .. seen
  /\ Len(events) <= EventRoom

LEMMA AttachedTyped ==
  ASSUME NEW mac, NEW alts, NEW heard, Attached(mac, alts, heard)
  PROVE  mac \in Address \union {None} /\ Len(alts) <= AltMacs /\ alts \in Seq(Address)
<1>1. AltMacs \in Nat \ {0} /\ alts \in Seq(Address) /\ heard \in Seq(Address)
  BY SizeAssumption DEF Attached
<1>2. Len(alts) \in Nat /\ Len(heard) \in Nat
  BY <1>1
<1>3. Len(alts) = 0 \/ (Len(alts) = IF Len(heard) <= AltMacs THEN Len(heard) - 1 ELSE AltMacs)
  BY DEF Attached
<1> QED
  BY <1>1, <1>2, <1>3 DEF Attached

LEMMA FiledTyped == KeptInv /\ Filed => TypeOK
<1> SUFFICES ASSUME KeptInv, Filed PROVE TypeOK
  OBVIOUS
<1>1. /\ time \in 0 .. MaxTime /\ now \in 0 .. time /\ seen \in Nat /\ MaxTime \in Nat /\ AltMacs \in Nat \ {0}
      /\ \A s \in Slot : EntryOK(tab[s])
  BY SizeAssumption DEF KeptInv, Clocked, IInv, Earlier, TableOK
<1>2. ASSUME NEW s \in Slot
      PROVE  LET t == tab[s] IN
             /\ t.used \in BOOLEAN /\ t.mac \in Address \union {None} /\ (t.used <=> t.mac # None)
             /\ ToSet(t.alts) \subseteq Address /\ Len(t.alts) <= AltMacs
             /\ t.uas \in Name \union {None}
             /\ t.uas2 # None => t.uas # None /\ Registration(t.uas2) /\ ~Registration(t.uas)
             /\ t.first \in 0 .. MaxTime /\ t.last \in t.first .. MaxTime /\ t.no \in 0 .. seen
  <2> DEFINE t == tab[s]
  <2>1. t.used \in BOOLEAN /\ t.uas \in Name \union {None} /\ {t.first, t.last, t.no} \subseteq Nat
    BY <1>1 DEF EntryOK
  <2>2. t.mac \in Address \union {None} /\ Len(t.alts) <= AltMacs /\ t.alts \in Seq(Address)
    <3>1. Attached(t.mac, t.alts, t.heard)
      BY <1>1 DEF EntryOK
    <3> HIDE DEF t
    <3> QED
      BY <3>1, AttachedTyped, Zenon
  <2>3. ToSet(t.alts) \subseteq Address
    BY <2>2 DEF ToSet
  <2>4. t.uas2 # None => t.uas # None /\ Registration(t.uas2) /\ ~Registration(t.uas)
    BY NoneAssumption DEF Filed, Paired, Serial
  <2>5. CASE t.used
    <3>1. s \in Used
      BY <2>5 DEF Used
    <3>2. t.mac # None /\ t.last <= time /\ t.no \in 1 .. seen
      BY <3>1 DEF KeptInv, Clocked, Numbered
    <3>3. t.first <= t.last
      BY DEF Filed
    <3> HIDE DEF t
    <3>4. t.first \in 0 .. MaxTime /\ t.last \in t.first .. MaxTime /\ t.no \in 0 .. seen
      BY <1>1, <2>1, <3>2, <3>3
    <3> QED
      BY <2>1, <2>2, <2>3, <2>4, <2>5, <3>2, <3>4 DEF t
  <2>6. CASE ~t.used
    <3>1. t = Unused
      BY <2>6 DEF Filed
    <3> HIDE DEF t
    <3>2. t.mac = None /\ t.first = 0 /\ t.last = 0 /\ t.no = 0
      BY <3>1 DEF Unused
    <3> QED
      BY <1>1, <2>1, <2>2, <2>3, <2>4, <2>6, <3>2 DEF t
  <2> QED
    BY <2>1, <2>5, <2>6
<1>3. ASSUME NEW i \in DOMAIN events
      PROVE  events[i] \in [slot : Slot, first : 0 .. MaxTime, no : 1 .. seen]
  <2> DEFINE E == [slot : Slot, first : Nat, no : Nat]
  <2>1. events \in Seq(E)
    BY DEF KeptInv, IInv, EventsOK
  <2> HIDE DEF E
  <2>2. events[i] \in E
    BY <2>1
  <2>3. events[i].first < time
    BY DEF KeptInv, IInv, Earlier
  <2>4. events[i].no \in 1 .. seen
    BY DEF Filed
  <2> QED
    BY <1>1, <2>2, <2>3, <2>4 DEF E
<1> QED
  BY <1>1, <1>2, <1>3 DEF TypeOK, Filed

LEMMA FiledInitially == Init => Filed
<1> SUFFICES ASSUME Init PROVE Filed
  OBVIOUS
<1>1. \A s \in Slot : tab[s] = Unused
  BY DEF Init
<1>2. Paired(Unused) /\ Unused.first <= Unused.last
  BY DEF Paired, Unused
<1>3. events = <<>> /\ Len(events) <= EventRoom
  BY SizeAssumption DEF Init
<1> QED
  BY <1>1, <1>2, <1>3 DEF Filed

LEMMA FrameFiles ==
  ASSUME KeptInv, Filed, NEW slot \in Slot, NEW t, IngestedInto(slot, t)
  PROVE  Filed'
<1>1. /\ t.used /\ EntryOK(t) /\ t.last = time /\ tab' = [tab EXCEPT ![slot] = t] /\ DOMAIN tab = Slot
      /\ time \in Nat /\ seen \in Nat /\ EventRoom \in Nat
  BY SizeAssumption DEF IngestedInto, KeptInv, IInv, TableOK, Earlier
<1>2. tab'[slot] = t /\ \A s \in Slot : s # slot => tab'[s] = tab[s]
  BY <1>1
<1>3. Paired(t)
  BY DEF IngestedInto, Filed
<1>4. t.first <= t.last /\ t.no \in 1 .. seen' /\ seen' \in {seen, seen + 1}
  <2>1. CASE t.first = time /\ t.no = seen + 1 /\ seen' = seen + 1
    BY <1>1, <2>1
  <2>2. CASE slot \in Used /\ t.first = tab[slot].first /\ t.no = tab[slot].no /\ seen' = seen
    <3>1. tab[slot].first < time /\ tab[slot].no \in 1 .. seen /\ tab[slot].first \in Nat
      BY <2>2 DEF KeptInv, Numbered, IInv, Earlier, TableOK, EntryOK
    <3> QED
      BY <1>1, <2>2, <3>1
  <2> QED
    BY <2>1, <2>2 DEF IngestedInto
<1>5. \A s \in Slot : Paired(tab'[s]) /\ (tab'[s].used \/ tab'[s] = Unused) /\ tab'[s].first <= tab'[s].last
  BY <1>1, <1>2, <1>3, <1>4 DEF Filed
<1>6. \A i \in DOMAIN events' : events'[i].no \in 1 .. seen'
  <2>1. \A i \in DOMAIN events' : \/ i \in DOMAIN events /\ events'[i] = events[i]
                                  \/ events'[i] = [slot |-> slot, first |-> t.first, no |-> t.no]
    BY NotedEvents DEF KeptInv
  <2>2. 1 .. seen \subseteq 1 .. seen'
    BY <1>1, <1>4
  <2> QED
    BY <1>4, <2>1, <2>2 DEF Filed
<1>7. Len(events') <= EventRoom
  <2> DEFINE E == [slot : Slot, first : Nat, no : Nat]
             e == [slot |-> slot, first |-> t.first, no |-> t.no]
  <2>1. events \in Seq(E) /\ e \in E
    BY <1>1 DEF KeptInv, IInv, EventsOK, EntryOK
  <2>2. events' = events \/ (Len(events) < EventRoom /\ events' = Append(events, e))
    BY DEF IngestedInto, Note
  <2> HIDE DEF E, e
  <2>3. Len(Append(events, e)) = Len(events) + 1 /\ Len(events) \in Nat
    BY <2>1
  <2> QED
    BY <1>1, <2>2, <2>3 DEF Filed
<1> QED
  BY <1>5, <1>6, <1>7 DEF Filed

LEMMA FiledStays == KeptInv /\ Filed /\ [Next]_vars => Filed'
<1> SUFFICES ASSUME KeptInv, Filed, [Next]_vars
             PROVE  Filed'
  OBVIOUS
<1>1. ASSUME NEW h \in Heard, NEW s \in Says, Ingest(h[1], h[2], s[2])
      PROVE  Filed'
  <2>1. h[1] \in Aircraft /\ h[2] \in Address /\ s[2] \in Content
    BY HeardAssumption
  <2>2. PICK slot, t : slot \in Slot /\ IngestedInto(slot, t)
    BY <1>1, <2>1, FrameIngested DEF KeptInv
  <2> QED
    BY <2>2, FrameFiles
<1>2. CASE TrackerExpire
  <2>1. events' = events /\ seen' = seen /\ \A s \in Slot : tab'[s] = Unused \/ tab'[s] = tab[s]
    BY <1>2 DEF TrackerExpire
  <2>2. Paired(Unused) /\ Unused.first <= Unused.last
    BY DEF Paired, Unused
  <2> QED
    BY <2>1, <2>2 DEF Filed
<1>3. CASE HookEvents
  <2>1. events' = <<>> /\ tab' = tab /\ EventRoom \in Nat
    BY <1>3, SizeAssumption DEF HookEvents
  <2> QED
    BY <2>1 DEF Filed
<1>4. CASE Pass \/ Silence \/ UNCHANGED vars
  BY <1>4 DEF Pass, Silence, vars, Filed
<1> QED
  BY <1>1, <1>2, <1>3, <1>4 DEF Next

\* The table's types (ReceiverTypeOK's first part): a slot nobody uses is as memset
\* leaves it, a second name is a registration beside a serial (tracker_upsert), and
\* no list is longer than its array.
THEOREM TableTyped == Spec => []TypeOK
<1>1. Init => KeptInv /\ Filed
  BY KeptInitially, FiledInitially
<1>2. KeptInv /\ Filed /\ [Next]_vars => KeptInv' /\ Filed'
  BY KeptStays, FiledStays
<1> QED
  BY <1>1, <1>2, FiledTyped, PTL DEF Spec

-----------------------------------------------------------------------------
(***************************************************************************)
(* That the types of AuthPages hold, that a signature set is checked once  *)
(* (VerifiedOnce) and that an aircraft whose messages all arrive is not    *)
(* accused (NotAccused), for every number of pages, window, number of sets *)
(* and of messages lost.                                                   *)
(*                                                                         *)
(* The argument for VerifiedOnce: page numbers only grow, so once a page   *)
(* is newer than the one that was checked, or was dropped and will come    *)
(* newer, what is held can never again be what was checked. A set that is  *)
(* what was checked is not due.                                            *)
(***************************************************************************)
Basics    == {0, Own, Other}
Assembly       == [basic : Basics, page : [Page -> SetNo \union {0}], verified : BOOLEAN, due : BOOLEAN]
FrameType == [basic : Basics, pages : SUBSET Page, set : SetNo]

\* What is held is newer than what was checked, or will be.
Newer(page, ck, s) == \E p \in Page : page[p] > ck[p] \/ (page[p] = 0 /\ ck[p] < s)

\* No page is newer than the set being sent.
NotAhead == \A p \in Page : asm.page[p] <= sending /\ checked.page[p] <= sending

\* What was checked has the contact's ID, if there was a check since it came.
CheckedBasic ==
  /\ checked.basic \in {0, asm.basic}
  /\ checked.basic = 0 => checked.page = NoPages

\* What is held was checked and is not due, or it is newer.
CheckedOrNewer ==
  \/ asm.page = checked.page /\ ~asm.due
  \/ Newer(asm.page, checked.page, sending)

AuthInv == AuthTypeOK /\ NotAhead /\ CheckedBasic /\ CheckedOrNewer

-----------------------------------------------------------------------------
(* What a frame does to the pages held. *)

\* Page 0 is always a page, and sets are numbered from 1.
LEMMA Numbers == 0 \in Page /\ Page \subseteq Nat /\ SetNo \subseteq Nat \ {0} /\ Own # 0 /\ Other # 0 /\ Own # Other
BY AuthAssumption DEF Page, SetNo, Own, Other

\* An ID that is new leaves nothing, any other only joins.
LEMMA IdentifiedIs ==
  ASSUME NEW a \in Assembly, NEW u \in FrameType
  PROVE  /\ Identified(a, u) \in Assembly
         /\ u.basic # 0 /\ a.basic \notin {0, u.basic} =>
              Identified(a, u) = [Empty EXCEPT !.basic = u.basic]
         /\ ~(u.basic # 0 /\ a.basic \notin {0, u.basic}) =>
              /\ Identified(a, u).page = a.page /\ Identified(a, u).verified = a.verified
              /\ Identified(a, u).due = a.due
              /\ Identified(a, u).basic = IF u.basic = 0 THEN a.basic ELSE u.basic
BY DEF Identified, Assembly, FrameType, Empty, NoPages

\* The pages of the frame are of its set; the others stay, or all are dropped
\* because the frame begins a set.
LEMMA CollectedIs ==
  ASSUME NEW a \in Assembly, NEW u \in FrameType
  PROVE  LET b == Identified(a, u)
             c == IF BeginsSet(b, u) THEN Dropped(b) ELSE b
             d == Collected(a, u)
         IN /\ c \in Assembly /\ d \in Assembly
            /\ d.basic = b.basic /\ c.basic = b.basic /\ d.verified = c.verified
            /\ \A p \in Page : d.page[p] = IF p \in u.pages THEN u.set ELSE c.page[p]
            /\ d.due = (b.due \/ (Seen(d) # {} /\ News(a, c, u)))
            /\ BeginsSet(b, u) => c.page = NoPages /\ ~c.verified
<1> DEFINE b == Identified(a, u)
           c == IF BeginsSet(b, u) THEN Dropped(b) ELSE b
           e == [c EXCEPT !.page = [p \in Page |-> IF p \in u.pages THEN u.set ELSE c.page[p]]]
<1>1. b \in Assembly
  BY IdentifiedIs
<1>2. /\ c \in Assembly /\ c.basic = b.basic /\ c.due = b.due
      /\ BeginsSet(b, u) => c.page = NoPages /\ ~c.verified
  BY <1>1 DEF Dropped, NoPages, Assembly
<1>3. /\ e \in Assembly /\ e.basic = c.basic /\ e.verified = c.verified /\ e.due = c.due
      /\ \A p \in Page : e.page[p] = IF p \in u.pages THEN u.set ELSE c.page[p]
  <2> HIDE DEF c
  <2> QED
    BY <1>2 DEF Assembly, FrameType
<1>4. Collected(a, u) = [e EXCEPT !.due = e.due \/ (Seen(e) # {} /\ News(a, c, u))]
  BY DEF Collected
<1>5. (e.due \/ (Seen(e) # {} /\ News(a, c, u))) \in BOOLEAN
  BY <1>3 DEF Assembly
<1>6. /\ Collected(a, u) \in Assembly
      /\ Collected(a, u).basic = e.basic /\ Collected(a, u).verified = e.verified /\ Collected(a, u).page = e.page
      /\ Collected(a, u).due = (e.due \/ (Seen(e) # {} /\ News(a, c, u)))
  <2> HIDE DEF e, c
  <2> QED
    BY <1>3, <1>4, <1>5 DEF Assembly
<1>7. Seen(Collected(a, u)) = Seen(e)
  BY <1>6 DEF Seen
<1> HIDE DEF e, c, b
<1>8. Collected(a, u).due = (b.due \/ (Seen(Collected(a, u)) # {} /\ News(a, c, u)))
  BY <1>2, <1>3, <1>6, <1>7
<1> QED
  BY <1>2, <1>3, <1>6, <1>8 DEF c, b

\* A set that is verified is held whole, with an ID, until it is dropped.
LEMMA VerifiedKept ==
  ASSUME NEW a \in Assembly, NEW u \in FrameType, a.verified => Costly(a), Collected(a, u).verified
  PROVE  Costly(Collected(a, u))
<1> DEFINE b == Identified(a, u)
           d == Collected(a, u)
<1> HIDE DEF b, d
<1>1. ~BeginsSet(b, u) /\ b.verified /\ d.basic = b.basic /\ d \in Assembly
  BY CollectedIs DEF b, d
<1>2. ~(u.basic # 0 /\ a.basic \notin {0, u.basic})
  BY <1>1, IdentifiedIs DEF b, Empty
<1>3. b.page = a.page /\ a.verified /\ b.basic = IF u.basic = 0 THEN a.basic ELSE u.basic
  BY <1>1, <1>2, IdentifiedIs DEF b
<1>4. \A p \in Page : d.page[p] = IF p \in u.pages THEN u.set ELSE a.page[p]
  BY <1>1, <1>3, CollectedIs DEF b, d
<1>5. \A p \in Page : a.page[p] # 0
  BY <1>3 DEF Costly, Complete, Seen
<1>6. \A p \in Page : d.page[p] # 0
  BY <1>4, <1>5, Numbers DEF FrameType
<1>7. d.basic # 0
  BY <1>1, <1>3 DEF Costly
<1> QED
  BY <1>6, <1>7 DEF Costly, Complete, Seen, d

\* A frame of the contact's ID leaves what is held checked and not due, or newer.
LEMMA HeldOrNewer ==
  ASSUME NEW a \in Assembly, NEW u \in FrameType, NEW ck \in [Page -> SetNo \union {0}],
         a.basic # 0, u.basic \in {0, a.basic},
         \A p \in Page : a.page[p] <= u.set /\ ck[p] <= u.set,
         (a.page = ck /\ ~a.due) \/ Newer(a.page, ck, u.set)
  PROVE  LET d == Collected(a, u)
         IN (d.page = ck /\ ~d.due) \/ Newer(d.page, ck, u.set)
<1> DEFINE b == Identified(a, u)
           c == IF BeginsSet(b, u) THEN Dropped(b) ELSE b
           d == Collected(a, u)
<1>1. b.page = a.page /\ b.due = a.due /\ b.basic = a.basic
  BY IdentifiedIs
<1>2. /\ d \in Assembly /\ c.basic = a.basic
      /\ \A p \in Page : d.page[p] = IF p \in u.pages THEN u.set ELSE c.page[p]
      /\ d.due = (a.due \/ (Seen(d) # {} /\ News(a, c, u)))
  BY <1>1, CollectedIs
<1>3. \A p \in Page : a.page[p] \in Nat /\ ck[p] \in Nat
  BY Numbers DEF Assembly
<1>4. u.set \in Nat \ {0} /\ u.pages \subseteq Page
  BY Numbers DEF FrameType
<1>5. CASE BeginsSet(b, u)
  <2>1. \A p \in Page : d.page[p] \in {0, u.set}
    BY <1>2, <1>5, CollectedIs DEF NoPages
  <2>2. \E p \in Page : ck[p] < u.set
    <3>1. CASE Newer(a.page, ck, u.set)
      BY <1>3, <1>4, <3>1 DEF Newer
    <3>2. CASE a.page = ck
      <4>1. \E p \in Page : a.page[p] # u.set
        BY <1>1, <1>4, <1>5, Numbers DEF BeginsSet
      <4> QED
        BY <1>3, <1>4, <3>2, <4>1
    <3> QED
      BY <3>1, <3>2
  <2>3. Newer(d.page, ck, u.set)
    BY <1>3, <1>4, <2>1, <2>2 DEF Newer
  <2> QED
    BY <2>3
<1>6. CASE ~BeginsSet(b, u)
  <2>1. c = b
    BY <1>6
  <2>2. \A p \in Page : d.page[p] = IF p \in u.pages THEN u.set ELSE a.page[p]
    BY <1>1, <1>2, <2>1
  <2> HIDE DEF c, d, b
  <2>3. CASE Newer(a.page, ck, u.set)
    <3>1. PICK p \in Page : a.page[p] > ck[p] \/ (a.page[p] = 0 /\ ck[p] < u.set)
      BY <2>3 DEF Newer
    <3>2. d.page[p] > ck[p] \/ (d.page[p] = 0 /\ ck[p] < u.set)
      BY <1>3, <1>4, <2>2, <3>1
    <3> QED
      BY <3>2 DEF Newer, d
  <2>4. CASE a.page = ck /\ ~a.due /\ \E p \in u.pages : a.page[p] # u.set
    <3>1. PICK p \in u.pages : a.page[p] # u.set
      BY <2>4
    <3>2. p \in Page /\ d.page[p] > ck[p]
      BY <1>3, <1>4, <2>2, <2>4, <3>1
    <3> QED
      BY <3>2 DEF Newer, d
  <2>5. CASE a.page = ck /\ ~a.due /\ \A p \in u.pages : a.page[p] = u.set
    <3>1. \A p \in Page : d.page[p] = ck[p]
      BY <2>2, <2>5
    <3>2. d.page = ck
      BY <1>2, <3>1 DEF Assembly
    <3>3. ~News(a, c, u)
      BY <1>1, <1>2, <2>1, <2>5 DEF News
    <3>4. ~d.due
      BY <1>2, <2>5, <3>3
    <3> QED
      BY <3>2, <3>4 DEF d
  <2> QED
    BY <2>3, <2>4, <2>5
<1> QED
  BY <1>5, <1>6

-----------------------------------------------------------------------------
(* A frame keeps the invariant, and a check it makes is of something new. *)

\* Nothing was checked since the ID came: whatever is held is newer.
LEMMA NewerThanNothing ==
  ASSUME NEW a \in Assembly, NEW s \in SetNo
  PROVE  Newer(a.page, NoPages, s)
<1>1. a.page[0] \in Nat /\ NoPages[0] = 0 /\ s \in Nat \ {0} /\ 0 \in Page
  BY Numbers DEF Assembly, NoPages
<1> QED
  BY <1>1 DEF Newer

\* A set that is whole and newer is not the one that was checked.
LEMMA NewerDiffers ==
  ASSUME NEW a \in Assembly, NEW ck \in [Page -> SetNo \union {0}], NEW s, Costly(a), Newer(a.page, ck, s)
  PROVE  a.page # ck
<1>1. \A p \in Page : a.page[p] # 0 /\ a.page[p] \in Nat
  BY Numbers DEF Assembly, Costly, Complete, Seen
<1> QED
  BY <1>1 DEF Newer

CheckedType == [basic : Basics, page : [Page -> SetNo \union {0}]]

\* The pages of a frame are of the set being sent, none is newer.
LEMMA CollectedNotAhead ==
  ASSUME NEW a \in Assembly, NEW u \in FrameType, \A p \in Page : a.page[p] <= u.set
  PROVE  \A p \in Page : Collected(a, u).page[p] <= u.set
<1> DEFINE b == Identified(a, u)
           c == IF BeginsSet(b, u) THEN Dropped(b) ELSE b
<1>1. u.set \in Nat \ {0}
  BY Numbers DEF FrameType
<1>2. b.page = a.page \/ b.page = NoPages
  BY IdentifiedIs DEF Empty
<1>3. c.page = b.page \/ c.page = NoPages
  BY CollectedIs
<1>4. \A p \in Page : c.page[p] <= u.set
  BY <1>1, <1>2, <1>3 DEF NoPages
<1>5. \A p \in Page : Collected(a, u).page[p] = IF p \in u.pages THEN u.set ELSE c.page[p]
  BY CollectedIs
<1> HIDE DEF c
<1> QED
  BY <1>1, <1>4, <1>5

LEMMA IngestedStep ==
  ASSUME AuthInv, NEW u \in FrameType, u.set = sending, Ingested(u)
  PROVE  /\ asm' \in Assembly /\ checked' \in CheckedType
         /\ verdict' \in {"none", "partial", "valid", "invalid"} /\ since' \in 0 .. Window
         /\ asm'.verified => Costly(asm')
         /\ \A p \in Page : asm'.page[p] <= sending /\ checked'.page[p] <= sending
         /\ checked'.basic \in {0, asm'.basic}
         /\ checked'.basic = 0 => checked'.page = NoPages
         /\ (asm'.page = checked'.page /\ ~asm'.due) \/ Newer(asm'.page, checked'.page, sending)
         /\ since' = 0 /\ since # 0 => checked' # checked
<1> DEFINE a == Collected(asm, u)
           new == u.basic # 0 /\ asm.basic \notin {0, u.basic}
           wait == IF new THEN Window ELSE since
           check == a.due /\ Seen(a) # {} /\ (Costly(a) => wait >= Window)
           v == Verify(a)
<1>1. asm \in Assembly /\ checked \in CheckedType /\ since \in 0 .. Window /\ sending \in SetNo /\ Window \in Nat \ {0}
  BY AuthAssumption DEF AuthInv, AuthTypeOK, Assembly, CheckedType, Basics
<1>2. a \in Assembly
  BY <1>1, CollectedIs
<1>3. a.verified => Costly(a)
  BY <1>1, VerifiedKept DEF AuthInv, AuthTypeOK
<1>4. v \in {"partial", "valid", "invalid"} /\ (v # "partial" => Costly(a))
  BY DEF Verify, Costly
<1>5. asm' = IF check THEN [a EXCEPT !.due = FALSE, !.verified = a.verified \/ v # "partial"] ELSE a
  BY DEF Ingested, PutOff
<1>6. since' = IF check /\ Costly(a) THEN 0 ELSE wait
  BY DEF Ingested
<1>7. checked' = IF check /\ Costly(a) THEN [basic |-> a.basic, page |-> a.page] ELSE IF new THEN Nothing ELSE checked
  BY DEF Ingested
<1>8. verdict' \in {"none", "partial", "valid", "invalid"}
  BY <1>4 DEF Ingested, AuthInv, AuthTypeOK
<1>9. \A p \in Page : a.page[p] <= sending
  BY <1>1, CollectedNotAhead DEF AuthInv, NotAhead
<1>10. a.basic = IF u.basic = 0 THEN asm.basic ELSE u.basic
  <2>1. a.basic = Identified(asm, u).basic
    BY <1>1, CollectedIs
  <2> QED
    BY <1>1, <2>1, IdentifiedIs DEF Empty
<1>11. /\ asm' \in Assembly /\ asm'.page = a.page /\ asm'.basic = a.basic /\ (check => ~asm'.due) /\ (~check => asm'.due = a.due)
       /\ asm'.verified => Costly(a)
  <2> HIDE DEF a, check, v
  <2>1. (a.verified \/ v # "partial") \in BOOLEAN
    BY <1>2 DEF Assembly
  <2> QED
    BY <1>2, <1>3, <1>4, <1>5, <2>1 DEF Assembly
<1>12. since' \in 0 .. Window
  <2> HIDE DEF check
  <2> QED
    BY <1>1, <1>6
<1>13. asm'.verified => Costly(asm')
  BY <1>11 DEF Costly, Complete, Seen
<1> HIDE DEF a, check, v
<1>14. CASE check /\ Costly(a)
  <2>1. checked' = [basic |-> a.basic, page |-> a.page] /\ a.basic # 0
    BY <1>7, <1>14 DEF Costly
  <2>2. checked' \in CheckedType
    BY <1>2, <2>1 DEF CheckedType, Assembly
  <2>3. checked' # checked
    <3>1. CASE new \/ asm.basic = 0
      <4>1. checked.basic # a.basic
        BY <1>10, <2>1, <3>1 DEF AuthInv, CheckedBasic
      <4> QED
        BY <2>1, <4>1
    <3>2. CASE ~new /\ asm.basic # 0
      <4>1. (a.page = checked.page /\ ~a.due) \/ Newer(a.page, checked.page, u.set)
        BY <1>1, <3>2, HeldOrNewer DEF AuthInv, NotAhead, CheckedOrNewer, CheckedType, a
      <4>2. Newer(a.page, checked.page, u.set)
        BY <1>14, <4>1 DEF check
      <4>3. a.page # checked.page
        BY <1>1, <1>2, <1>14, <4>2, NewerDiffers DEF CheckedType
      <4> QED
        BY <2>1, <4>3
    <3> QED
      BY <3>1, <3>2
  <2> QED
    BY <1>8, <1>9, <1>11, <1>12, <1>13, <1>14, <2>1, <2>2, <2>3
<1>15. CASE ~(check /\ Costly(a)) /\ new
  <2>1. checked' = Nothing /\ since' # 0
    BY <1>1, <1>6, <1>7, <1>15
  <2>2. checked' \in CheckedType /\ checked'.page = NoPages /\ checked'.basic = 0
    BY <2>1 DEF Nothing, CheckedType, Basics, NoPages
  <2>3. \A p \in Page : checked'.page[p] <= sending
    BY <1>1, <2>2, Numbers DEF NoPages
  <2> QED
    BY <1>1, <1>8, <1>9, <1>11, <1>12, <1>13, <2>1, <2>2, <2>3, NewerThanNothing
<1>16. CASE ~(check /\ Costly(a)) /\ ~new
  <2>1. checked' = checked /\ since' = since
    BY <1>6, <1>7, <1>16
  <2>2. checked.basic \in {0, a.basic}
    BY <1>10, <1>16 DEF AuthInv, CheckedBasic
  <2>3. (a.page = checked.page /\ ~a.due) \/ Newer(a.page, checked.page, sending)
    <3>1. CASE asm.basic = 0
      BY <1>1, <1>2, <3>1, NewerThanNothing DEF AuthInv, CheckedBasic
    <3>2. CASE asm.basic # 0
      BY <1>1, <1>16, <3>2, HeldOrNewer DEF AuthInv, NotAhead, CheckedOrNewer, CheckedType, a
    <3> QED
      BY <3>1, <3>2
  <2>4. (asm'.page = checked'.page /\ ~asm'.due) \/ Newer(asm'.page, checked'.page, sending)
    BY <1>11, <2>1, <2>3
  <2> QED
    BY <1>1, <1>8, <1>9, <1>11, <1>12, <1>13, <2>1, <2>2, <2>4 DEF AuthInv, NotAhead, CheckedBasic
<1> QED
  BY <1>14, <1>15, <1>16

-----------------------------------------------------------------------------
(* The invariant of the specification. *)

LEMMA InitHolds == AuthInit => AuthInv
<1> SUFFICES ASSUME AuthInit
             PROVE  AuthInv
  OBVIOUS
<1>1. NoPages \in [Page -> SetNo \union {0}] /\ \A p \in Page : NoPages[p] = 0
  BY DEF NoPages
<1>2. AuthTypeOK
  <2>1. /\ asm \in [basic : {0, Own, Other}, page : [Page -> SetNo \union {0}], verified : BOOLEAN, due : BOOLEAN]
        /\ checked \in [basic : {0, Own, Other}, page : [Page -> SetNo \union {0}]]
        /\ ~asm.verified
    BY <1>1 DEF AuthInit, Empty, Nothing
  <2>2. /\ since \in 0 .. Window /\ age \in 0 .. Window /\ sending \in SetNo /\ clean \in 0 .. 2
        /\ lost \in 0 .. MaxLost /\ others \in 0 .. MaxOther
    BY AuthAssumption DEF AuthInit, SetNo
  <2>3. verdict \in {"none", "partial", "valid", "invalid"} /\ todo \subseteq Message /\ settled \in BOOLEAN /\ whole \in BOOLEAN
    BY DEF AuthInit
  <2> QED
    BY <2>1, <2>2, <2>3 DEF AuthTypeOK
<1>3. NotAhead /\ CheckedBasic /\ CheckedOrNewer
  BY <1>1 DEF AuthInit, NotAhead, CheckedBasic, CheckedOrNewer, Empty, Nothing
<1> QED
  BY <1>2, <1>3 DEF AuthInv

\* What the frames carry.
LEMMA Frames ==
  ASSUME sending \in SetNo
  PROVE  /\ \A m \in Message : Frame(m) \in FrameType /\ Frame(m).set = sending
         /\ Pack \in FrameType /\ Pack.set = sending
         /\ [basic |-> Other, pages |-> {}, set |-> sending] \in FrameType
BY DEF Frame, Pack, FrameType, Basics

\* Every step keeps the invariant, and checks only what was not checked before.
LEMMA StepHolds ==
  ASSUME AuthInv, [AuthNext]_authVars
  PROVE  AuthInv' /\ (since' = 0 /\ since # 0 => checked' # checked)
<1> USE DEF AuthInv
<1>1. ASSUME NEW u \in FrameType, u.set = sending, Ingested(u), UNCHANGED <<sending, age, settled>>,
             todo' \subseteq Message, whole' \in BOOLEAN, clean' \in 0 .. 2,
             lost' \in 0 .. MaxLost, others' \in 0 .. MaxOther
      PROVE  AuthInv' /\ (since' = 0 /\ since # 0 => checked' # checked)
  <2>1. AuthTypeOK'
    BY <1>1, IngestedStep DEF AuthTypeOK, Assembly, Basics, CheckedType
  <2>2. (NotAhead /\ CheckedBasic /\ CheckedOrNewer)'
    BY <1>1, IngestedStep DEF NotAhead, CheckedBasic, CheckedOrNewer
  <2> QED
    BY <1>1, <2>1, <2>2, IngestedStep
<1>2. sending \in SetNo /\ todo \subseteq Message /\ lost \in 0 .. MaxLost /\ others \in 0 .. MaxOther
      /\ MaxLost \in Nat /\ MaxOther \in Nat /\ MaxSet \in Nat /\ Window \in Nat \ {0}
      /\ whole \in BOOLEAN /\ clean \in 0 .. 2
  BY AuthAssumption DEF AuthTypeOK
<1>3. CASE HearMessage
  <2>1. PICK m \in todo : Ingested(Frame(m)) /\ todo' = todo \ {m}
    BY <1>3 DEF HearMessage
  <2> QED
    BY <1>1, <1>2, <1>3, <2>1, Frames DEF HearMessage
<1>4. CASE HearPack
  BY <1>1, <1>2, <1>4, Frames DEF HearPack
<1>5. CASE HearOther
  <2> DEFINE u == [basic |-> Other, pages |-> {}, set |-> sending]
  <2>1. u \in FrameType /\ u.set = sending
    BY <1>2, Frames
  <2>2. Ingested(u) /\ UNCHANGED <<sending, age, settled>>
    BY <1>5 DEF HearOther, air
  <2>3. todo' \subseteq Message /\ clean' \in 0 .. 2 /\ lost' \in 0 .. MaxLost /\ others' \in 0 .. MaxOther
    BY <1>2, <1>5 DEF HearOther, air
  <2>4. whole' \in BOOLEAN
    BY <1>5 DEF HearOther
  <2> HIDE DEF u
  <2> QED
    BY <1>1, <2>1, <2>2, <2>3, <2>4
<1>6. CASE LoseMessage
  <2>1. UNCHANGED <<asm, verdict, since, sending, age, settled, others, checked>>
    BY <1>6 DEF LoseMessage
  <2>2. todo' \subseteq Message /\ clean' \in 0 .. 2 /\ lost' \in 0 .. MaxLost
    BY <1>2, <1>6 DEF LoseMessage
  <2>3. whole' \in BOOLEAN
    BY <1>6 DEF LoseMessage
  <2>4. AuthTypeOK'
    BY <2>1, <2>2, <2>3 DEF AuthTypeOK, Costly, Complete, Seen
  <2> QED
    BY <2>1, <2>4 DEF NotAhead, CheckedBasic, CheckedOrNewer
<1>7. CASE Rotate
  <2>1. sending' \in SetNo /\ sending <= sending'
    BY <1>2, <1>7 DEF Rotate, SetNo
  <2>2. UNCHANGED <<asm, verdict, since, lost, others, checked>>
    BY <1>7 DEF Rotate
  <2>3. \A p \in Page : asm.page[p] \in Nat /\ checked.page[p] \in Nat
    BY Numbers DEF AuthTypeOK
  <2>4. sending \in Nat /\ sending' \in Nat
    BY <1>2, <2>1, Numbers
  <2>5. AuthTypeOK'
    <3>1. todo' \subseteq Message /\ whole' \in BOOLEAN
      BY <1>7 DEF Rotate
    <3>2. age' \in 0 .. Window
      BY <1>2, <1>7 DEF Rotate, AuthTypeOK
    <3>3. settled' \in BOOLEAN
      BY <1>7 DEF Rotate
    <3>4. clean' \in 0 .. 2
      BY <1>2, <1>7 DEF Rotate
    <3> QED
      BY <2>1, <2>2, <3>1, <3>2, <3>3, <3>4 DEF AuthTypeOK, Costly, Complete, Seen
  <2>6. NotAhead' /\ CheckedBasic'
    BY <2>1, <2>2, <2>3, <2>4 DEF NotAhead, CheckedBasic
  <2>7. CheckedOrNewer'
    BY <2>1, <2>2, <2>3, <2>4 DEF CheckedOrNewer, Newer
  <2> QED
    BY <2>2, <2>5, <2>6, <2>7
<1>8. CASE AuthTick
  <2>1. since' \in 0 .. Window /\ age' \in 0 .. Window /\ (since # 0 => since' # 0)
    BY <1>2, <1>8 DEF AuthTick, AuthTypeOK
  <2> QED
    BY <1>8, <2>1 DEF AuthTick, AuthTypeOK, NotAhead, CheckedBasic, CheckedOrNewer, Costly, Complete, Seen
<1>9. CASE UNCHANGED authVars
  BY <1>9 DEF authVars, AuthTypeOK, NotAhead, CheckedBasic, CheckedOrNewer, Costly, Complete, Seen
<1> QED
  BY <1>3, <1>4, <1>5, <1>6, <1>7, <1>8, <1>9 DEF AuthNext

\* The types, and that a set counts as verified only while it is held whole.
THEOREM AuthTypeCorrect == AuthSpec => []AuthTypeOK
<1>1. AuthInv => AuthTypeOK
  BY DEF AuthInv
<1> QED
  BY InitHolds, StepHolds, <1>1, PTL DEF AuthSpec

\* A signature set is checked once, whatever is lost, repeated, reordered
\* within its rotation or put off.
THEOREM CheckedOnce == AuthSpec => VerifiedOnce
<1>1. AuthInv /\ [AuthNext]_authVars => [since' = 0 /\ since # 0 => checked' # checked]_authVars
  BY StepHolds
<1> QED
  BY InitHolds, StepHolds, <1>1, PTL DEF AuthSpec, VerifiedOnce

-----------------------------------------------------------------------------
(* When every message arrives, the pages held are always those of the last *)
(* set, checked, or what was sent so far of this one: two sets never meet  *)
(* in a whole one. A set that may be followed has been checked, because    *)
(* no check was made since it was signed, so the window had passed.        *)

Whole == \A p \in Page : asm.page[p] = sending

Partly == ~asm.verified /\ \A p \in Page : asm.page[p] = IF p \in todo THEN 0 ELSE sending

LastOne == Page \subseteq todo /\ asm.verified /\ ~asm.due /\ \A p \in Page : asm.page[p] = sending - 1

Done == asm.verified /\ ~asm.due

HeardAll ==
  /\ asm.basic \in {0, Own} /\ verdict # "invalid"
  /\ Whole \/ Partly \/ LastOne
  /\ settled => Whole /\ asm.basic = Own /\ age = Window /\ (todo # Message => Done)
  /\ asm.basic = 0 => BasicId \in todo
  /\ Whole /\ asm.basic # 0 => asm.due \/ asm.verified
  /\ ~(Whole /\ Done) => since >= age

Undisturbed == lost = 0 /\ others = 0

LEMMA HeardInit == AuthInit => HeardAll
<1> SUFFICES ASSUME AuthInit
             PROVE  HeardAll
  OBVIOUS
<1>1. asm = Empty /\ todo = Message /\ ~settled /\ verdict = "none" /\ since >= age
  BY AuthAssumption DEF AuthInit
<1>2. Partly
  BY <1>1 DEF Partly, Empty, NoPages, Message
<1>3. asm.basic = 0 /\ BasicId \in todo
  BY <1>1 DEF Empty, Message
<1> QED
  BY <1>1, <1>2, <1>3 DEF HeardAll

\* The frames of a rotation: what is left of it is what was not in the frame.
LEMMA HeardFrame ==
  ASSUME AuthTypeOK, HeardAll, NEW u \in FrameType, u.set = sending,
         u.pages = Page \cap (todo \ todo'), todo' \subseteq todo, todo' # Message,
         u.basic \in {0, Own}, u.basic = 0 /\ BasicId \in todo => BasicId \in todo',
         Ingested(u), UNCHANGED <<sending, age, settled>>
  PROVE  HeardAll'
<1> DEFINE a == Collected(asm, u)
           b == Identified(asm, u)
           c == IF BeginsSet(b, u) THEN Dropped(b) ELSE b
           check == a.due /\ Seen(a) # {} /\ (Costly(a) => since >= Window)
           v == Verify(a)
           wholeA == \A p \in Page : a.page[p] = sending
           partA == ~a.verified /\ \A p \in Page : a.page[p] = IF p \in todo' THEN 0 ELSE sending
           lastA == Page \subseteq todo' /\ a.verified /\ ~a.due /\ \A p \in Page : a.page[p] = sending - 1
<1>1. /\ asm \in Assembly /\ sending \in Nat \ {0} /\ since \in 0 .. Window /\ age \in 0 .. Window
      /\ Window \in Nat \ {0} /\ asm.basic \in {0, Own} /\ Own # 0 /\ 0 \in Page
      /\ asm.verified => Costly(asm)
  BY AuthAssumption, Numbers DEF AuthTypeOK, Assembly, Basics, HeardAll
<1>2. ~(u.basic # 0 /\ asm.basic \notin {0, u.basic})
  BY <1>1
<1>3. b.page = asm.page /\ b.verified = asm.verified /\ b.due = asm.due
      /\ b.basic = IF u.basic = 0 THEN asm.basic ELSE u.basic
  BY <1>1, <1>2, IdentifiedIs
<1>4. /\ a \in Assembly /\ a.basic = b.basic /\ c.basic = b.basic /\ a.verified = c.verified
      /\ \A p \in Page : a.page[p] = IF p \in u.pages THEN u.set ELSE c.page[p]
      /\ a.due = (asm.due \/ (Seen(a) # {} /\ News(asm, c, u)))
      /\ BeginsSet(b, u) => c.page = NoPages /\ ~c.verified
  BY <1>1, <1>3, CollectedIs
<1>5. a.basic \in {0, Own} /\ (asm.basic = Own => a.basic = Own) /\ (a.basic = 0 => BasicId \in todo')
  BY <1>1, <1>3, <1>4 DEF HeardAll
<1>6. /\ asm' = IF check THEN [a EXCEPT !.due = FALSE, !.verified = a.verified \/ v # "partial"] ELSE a
      /\ verdict' = IF ~check \/ (v = "partial" /\ verdict \in {"valid", "invalid"}) THEN verdict ELSE v
      /\ since' = IF check /\ Costly(a) THEN 0 ELSE since
  BY <1>2 DEF Ingested, PutOff
<1>7. /\ ~Costly(a) => v = "partial"
      /\ Costly(a) /\ wholeA => v = "valid"
  BY <1>1, <1>5 DEF Verify, Costly
<1>8. wholeA => Seen(a) = Page
  BY <1>1 DEF Seen
<1>9. Costly(a) <=> (\A p \in Page : a.page[p] # 0) /\ a.basic # 0
  BY DEF Costly, Complete, Seen
<1>10. /\ check => asm'.page = a.page /\ asm'.basic = a.basic /\ ~asm'.due /\ asm'.verified = (a.verified \/ v # "partial")
       /\ ~check => asm' = a
  <2> HIDE DEF a, check, v
  <2>1. (a.verified \/ v # "partial") \in BOOLEAN
    BY <1>4 DEF Assembly
  <2> QED
    BY <1>4, <1>6, <2>1 DEF Assembly
<1>11. asm'.page = a.page /\ asm'.basic = a.basic
  BY <1>10
<1> HIDE DEF a, b, c, check, v

\* The pages after the frame.
<1>12. Whole =>
         /\ wholeA /\ a.verified = asm.verified
         /\ asm.basic # 0 => a.due = asm.due
         /\ asm.basic = 0 /\ a.basic # 0 => a.due
  <2> SUFFICES ASSUME Whole
               PROVE  /\ wholeA /\ a.verified = asm.verified
                      /\ asm.basic # 0 => a.due = asm.due
                      /\ asm.basic = 0 /\ a.basic # 0 => a.due
    OBVIOUS
  <2>1. ~BeginsSet(b, u)
    BY <1>1, <1>3 DEF BeginsSet, Whole, FrameType
  <2>2. c = b
    BY <2>1 DEF c
  <2>3. wholeA /\ a.verified = asm.verified
    BY <1>3, <1>4, <2>2 DEF Whole
  <2>4. asm.basic # 0 => ~News(asm, c, u)
    BY <1>1, <1>3, <2>2 DEF News, Whole, FrameType
  <2>5. asm.basic = 0 /\ a.basic # 0 => News(asm, c, u)
    BY <1>3, <1>4, <2>2 DEF News
  <2>6. Seen(a) # {}
    BY <1>1, <1>8, <2>3
  <2>7. asm.basic # 0 => a.due = asm.due
    BY <1>1, <1>4, <2>4 DEF Assembly
  <2>8. asm.basic = 0 /\ a.basic # 0 => a.due
    BY <1>4, <2>5, <2>6
  <2> HIDE DEF wholeA
  <2> QED
    BY <2>3, <2>7, <2>8
<1>13. Partly => partA
  <2> SUFFICES ASSUME Partly
               PROVE  partA
    OBVIOUS
  <2>1. ~BeginsSet(b, u)
    BY <1>1, <1>3 DEF BeginsSet, Partly
  <2>2. c = b
    BY <2>1 DEF c
  <2> QED
    BY <1>3, <1>4, <2>2 DEF Partly
<1>14. LastOne => lastA \/ partA
  <2> SUFFICES ASSUME LastOne
               PROVE  lastA \/ partA
    OBVIOUS
  <2>1. asm.basic = Own /\ asm.page[0] # 0
    BY <1>1 DEF LastOne, Costly, Complete, Seen
  <2>2. u.pages = Page \ todo'
    BY DEF LastOne
  <2>3. CASE u.pages = {}
    <3>1. ~BeginsSet(b, u) /\ c = b
      BY <2>3 DEF BeginsSet, c
    <3>2. ~News(asm, c, u)
      BY <1>3, <2>1, <2>3, <3>1 DEF News
    <3>3. a.due = asm.due
      BY <1>1, <1>4, <3>2 DEF Assembly
    <3> QED
      BY <1>3, <1>4, <2>2, <2>3, <3>1, <3>3 DEF LastOne
  <2>4. CASE u.pages # {}
    <3>1. BeginsSet(b, u)
      BY <1>1, <1>3, <2>1, <2>4 DEF BeginsSet, LastOne
    <3> QED
      BY <1>4, <2>2, <3>1 DEF NoPages
  <2> QED
    BY <2>3, <2>4
<1>15. wholeA \/ partA \/ lastA
  BY <1>12, <1>13, <1>14 DEF HeardAll
<1>16. \A p \in Page : c.page[p] \in {0, asm.page[p]}
  BY <1>3 DEF c, Dropped, NoPages
<1>17. wholeA /\ a.basic # 0 => a.due \/ a.verified
  <2>1. CASE Whole
    BY <1>12, <2>1 DEF HeardAll
  <2>2. CASE ~Whole /\ wholeA
    <3>1. PICK p \in Page : asm.page[p] # sending
      BY <2>2 DEF Whole
    <3>2. p \in u.pages /\ c.page[p] # u.set
      BY <1>1, <1>4, <1>16, <2>2, <3>1
    <3>3. News(asm, c, u) /\ Seen(a) # {}
      BY <1>1, <1>8, <2>2, <3>2 DEF News
    <3> QED
      BY <1>4, <3>3
  <2> QED
    BY <2>1, <2>2

\* Only the whole set is checked at a cost, and it passes.
<1>18. Costly(a) => wholeA \/ lastA
  BY <1>9, <1>15
<1>19. lastA => ~check
  BY DEF check
<1>20. wholeA /\ a.basic # 0 => Costly(a)
  BY <1>1, <1>9
<1>21. check /\ Costly(a) => wholeA /\ v = "valid"
  BY <1>7, <1>18, <1>19
<1>22. Whole /\ Done => wholeA /\ ~check /\ a.verified /\ ~a.due
  <2>1. Done => asm.basic # 0
    BY <1>1 DEF Done, Costly
  <2> QED
    BY <1>12, <2>1 DEF Done, check
<1>23. settled => wholeA /\ a.basic = Own /\ age = Window /\ Done'
  <2> SUFFICES ASSUME settled
               PROVE  wholeA /\ a.basic = Own /\ age = Window /\ Done'
    OBVIOUS
  <2>1. Whole /\ asm.basic = Own /\ age = Window
    BY DEF HeardAll
  <2>2. wholeA /\ a.basic = Own /\ a.due = asm.due /\ a.verified = asm.verified
    BY <1>1, <1>5, <1>12, <2>1
  <2>3. CASE Done
    BY <1>10, <1>22, <2>1, <2>2, <2>3 DEF Done
  <2>4. CASE ~Done
    <3>1. a.due
      BY <1>1, <2>1, <2>2, <2>4 DEF HeardAll, Done
    <3>2. since >= Window
      <4>1. ~(Whole /\ Done) => since >= age
        BY DEF HeardAll
      <4>2. since >= age
        BY <2>4, <4>1
      <4> QED
        BY <2>1, <4>2
    <3>3. check
      BY <1>1, <1>8, <2>2, <3>1, <3>2 DEF check
    <3>4. v = "valid"
      BY <1>1, <1>20, <1>21, <2>2, <3>3
    <3> QED
      BY <1>10, <2>1, <2>2, <3>3, <3>4 DEF Done
  <2> QED
    BY <2>1, <2>2, <2>3, <2>4

\* Each conjunct.
<1>24. asm'.basic \in {0, Own} /\ (asm'.basic = 0 => BasicId \in todo')
  BY <1>5, <1>11
<1>25. verdict' # "invalid"
  <2>1. v = "invalid" => Costly(a)
    BY <1>7
  <2> QED
    BY <1>6, <1>21, <2>1 DEF HeardAll
<1>26. Whole' = wholeA
  BY <1>11 DEF Whole
<1>27. (Whole \/ Partly \/ LastOne)'
  <2>1. CASE wholeA
    BY <1>26, <2>1
  <2>2. CASE partA /\ ~wholeA
    <3>1. ~lastA
      BY <2>2
    <3>2. v = "partial"
      BY <1>7, <1>18, <2>2, <3>1
    <3>3. ~asm'.verified
      BY <1>10, <2>2, <3>2
    <3> QED
      BY <1>11, <2>2, <3>3 DEF Partly
  <2>3. CASE lastA
    BY <1>10, <1>19, <2>3 DEF LastOne
  <2> QED
    BY <1>15, <2>1, <2>2, <2>3
<1>28. settled' => Whole' /\ asm'.basic = Own /\ age' = Window /\ (todo' # Message => Done')
  BY <1>11, <1>23, <1>26
<1>29. Whole' /\ asm'.basic # 0 => asm'.due \/ asm'.verified
  <2>1. CASE check
    BY <1>10, <1>11, <1>20, <1>21, <1>26, <2>1
  <2>2. CASE ~check
    BY <1>10, <1>17, <1>26, <2>2
  <2> QED
    BY <2>1, <2>2
<1>30. ~(Whole' /\ Done') => since' >= age'
  <2>1. CASE check /\ Costly(a)
    BY <1>10, <1>21, <1>26, <2>1 DEF Done
  <2>2. CASE ~(check /\ Costly(a))
    <3>1. since' = since
      BY <1>6, <2>2
    <3>2. Whole /\ Done => Whole' /\ Done'
      BY <1>10, <1>22, <1>26 DEF Done
    <3> QED
      BY <3>1, <3>2 DEF HeardAll
  <2> QED
    BY <2>1, <2>2
<1> QED
  BY <1>24, <1>25, <1>27, <1>28, <1>29, <1>30 DEF HeardAll

\* A rotation that ends has left the whole set.
LEMMA HeardRotate ==
  ASSUME AuthTypeOK, HeardAll, Rotate
  PROVE  HeardAll'
<1>1. /\ sending \in Nat /\ since \in 0 .. Window /\ Window \in Nat /\ 0 \in Page
      /\ Page \subseteq Message /\ todo = {} /\ Message # {} /\ todo' = Message /\ asm' = asm /\ verdict' = verdict /\ since' = since
  BY AuthAssumption, Numbers DEF AuthTypeOK, Rotate, Message
<1>2. Whole
  BY <1>1 DEF HeardAll, Partly, LastOne, Whole
<1>3. asm.basic = Own /\ verdict # "invalid"
  BY <1>1 DEF HeardAll
<1>4. asm.due \/ asm.verified
  BY <1>2, <1>3, Numbers DEF HeardAll
<1>5. CASE settled /\ sending' = sending + 1 /\ age' = 0 /\ ~settled'
  <2>1. Done
    BY <1>1, <1>5 DEF HeardAll
  <2>2. LastOne'
    BY <1>1, <1>2, <1>5, <2>1 DEF LastOne, Whole, Done
  <2>3. ~Whole'
    BY <1>1, <1>2, <1>5 DEF Whole
  <2>4. since' >= age'
    BY <1>1, <1>5
  <2> QED
    BY <1>1, <1>3, <1>5, <2>2, <2>3, <2>4, Numbers DEF HeardAll
<1>6. CASE UNCHANGED <<sending, age>> /\ settled' = (age = Window)
  <2>1. Whole' = Whole /\ Done' = Done
    BY <1>1, <1>6 DEF Whole, Done
  <2>2. settled' => age' = Window
    BY <1>6
  <2>3. ~(Whole' /\ Done') => since' >= age'
    BY <1>1, <1>6, <2>1 DEF HeardAll
  <2> QED
    BY <1>1, <1>2, <1>3, <1>4, <2>1, <2>2, <2>3, Numbers DEF HeardAll
<1> QED
  BY <1>5, <1>6 DEF Rotate

LEMMA HeardStep ==
  ASSUME AuthTypeOK, Undisturbed => HeardAll, [AuthNext]_authVars, Undisturbed'
  PROVE  HeardAll'
<1>1. /\ lost \in Nat /\ others \in Nat /\ sending \in SetNo /\ 0 \in Page /\ Own # 0
      /\ todo \subseteq Message /\ BasicId \in Message /\ since \in 0 .. Window /\ age \in 0 .. Window
      /\ Window \in Nat /\ BasicId \notin Page
  BY AuthAssumption, Numbers DEF AuthTypeOK, Message, BasicId, Page
<1>2. CASE HearMessage
  <2>1. HeardAll
    BY <1>2 DEF Undisturbed, HearMessage
  <2>2. PICK m \in todo : Ingested(Frame(m)) /\ todo' = todo \ {m}
    BY <1>2 DEF HearMessage
  <2> DEFINE u == Frame(m)
  <2>3. u \in FrameType /\ u.set = sending
    BY <1>1, <2>2, Frames
  <2>4. u.pages = Page \cap (todo \ todo') /\ u.basic \in {0, Own} /\ (u.basic = 0 => m # BasicId)
    BY <1>1, <2>2 DEF Frame
  <2>5. todo' # Message /\ todo' \subseteq todo
    BY <1>1, <2>2
  <2>6. UNCHANGED <<sending, age, settled>>
    BY <1>2 DEF HearMessage
  <2>7. u.basic = 0 /\ BasicId \in todo => BasicId \in todo'
    BY <2>2, <2>4
  <2> HIDE DEF u
  <2> QED
    BY <2>1, <2>2, <2>3, <2>4, <2>5, <2>6, <2>7, HeardFrame DEF u
<1>3. CASE HearPack
  <2>1. HeardAll /\ Ingested(Pack) /\ UNCHANGED <<sending, age, settled>>
    BY <1>3 DEF Undisturbed, HearPack
  <2>2. Pack \in FrameType /\ Pack.set = sending
    BY <1>1, Frames
  <2>3. Pack.pages = Page \cap (todo \ todo') /\ Pack.basic = Own /\ todo' # Message /\ todo' \subseteq todo
    BY <1>1, <1>3 DEF Pack, HearPack, Message
  <2> QED
    BY <1>1, <2>1, <2>2, <2>3, HeardFrame
<1>4. CASE LoseMessage
  BY <1>1, <1>4 DEF LoseMessage, Undisturbed
<1>5. CASE HearOther
  BY <1>1, <1>5 DEF HearOther, Undisturbed
<1>6. CASE Rotate
  <2>1. HeardAll
    BY <1>6 DEF Undisturbed, Rotate
  <2> QED
    BY <1>6, <2>1, HeardRotate
<1>7. CASE AuthTick
  <2>1. HeardAll /\ UNCHANGED <<asm, verdict, sending, todo, settled>>
    BY <1>7 DEF Undisturbed, AuthTick
  <2>2. (since >= age => since' >= age') /\ (age = Window => age' = Window)
    BY <1>1, <1>7 DEF AuthTick
  <2>3. (Whole' = Whole) /\ (Done' = Done) /\ (Partly' = Partly) /\ (LastOne' = LastOne)
    BY <2>1 DEF Whole, Done, Partly, LastOne
  <2>4. ~(Whole' /\ Done') => since' >= age'
    BY <2>1, <2>2, <2>3 DEF HeardAll
  <2> QED
    BY <2>1, <2>2, <2>3, <2>4 DEF HeardAll
<1>8. CASE UNCHANGED authVars
  BY <1>8 DEF authVars, Undisturbed, HeardAll, Whole, Partly, LastOne, Done
<1> QED
  BY <1>2, <1>3, <1>4, <1>5, <1>6, <1>7, <1>8 DEF AuthNext

\* An aircraft all of whose messages arrive, in any order within a rotation,
\* is never said not to be who it claims to be.
THEOREM NeverAccused == AuthSpec => []NotAccused
<1> DEFINE HInv == AuthTypeOK /\ (Undisturbed => HeardAll)
<1>1. AuthInit => HInv
  BY InitHolds, HeardInit DEF AuthInv
<1>2. HInv /\ AuthTypeOK' /\ [AuthNext]_authVars => HInv'
  BY HeardStep
<1>3. HInv => NotAccused
  BY DEF Undisturbed, HeardAll, NotAccused
<1> QED
  BY AuthTypeCorrect, <1>1, <1>2, <1>3, PTL DEF AuthSpec

-----------------------------------------------------------------------------
(***************************************************************************)
(* That an aircraft heard whole twice is known to be genuine (GenuineSoon).*)
(*                                                                         *)
(* The argument: a rotation that came whole leaves no page of another set, *)
(* so nothing is dropped in the next one, and after that what is held is   *)
(* its set; such a set is due, or was checked and found valid.             *)
(***************************************************************************)
\* What a rotation has brought so far, when nothing of it was lost or disturbed.
SoFar ==
  whole => /\ \A p \in Page \ todo : asm.page[p] \in {0, sending}
           /\ BasicId \notin todo => asm.basic = Own

AfterOne ==
  clean >= 1 => /\ whole /\ asm.basic = Own
                /\ \A p \in Page : asm.page[p] \in {0, sending} /\ (p \notin todo => asm.page[p] = sending)

AfterTwo == clean = 2 => Whole

\* A set that is the aircraft's own and not due was found to be.
Judged ==
  Costly(asm) /\ asm.basic = Own /\ (\A p \in Page : asm.page[p] = asm.page[0]) /\ ~asm.due => verdict = "valid"

GenuineInv == SoFar /\ AfterOne /\ AfterTwo /\ Judged

\* A frame's pages are of its set; the others stay, or all were dropped, which
\* they are not when none is of another set.
LEMMA PagesMove ==
  ASSUME AuthTypeOK, NEW u \in FrameType, u.set = sending, Ingested(u)
  PROVE  /\ asm'.basic = IF u.basic = 0 THEN asm.basic ELSE u.basic
         /\ \A p \in u.pages : asm'.page[p] = sending
         /\ \A p \in Page \ u.pages : asm'.page[p] \in {0, asm.page[p]}
         /\ u.basic \in {0, asm.basic} /\ (\A p \in Page : asm.page[p] \in {0, sending}) =>
              \A p \in Page \ u.pages : asm'.page[p] = asm.page[p]
<1> DEFINE a == Collected(asm, u)
           b == Identified(asm, u)
           c == IF BeginsSet(b, u) THEN Dropped(b) ELSE b
<1>1. asm \in Assembly /\ u.pages \subseteq Page BY DEF AuthTypeOK, Assembly, Basics, FrameType
<1>2. /\ a \in Assembly /\ c \in Assembly /\ a.basic = b.basic
      /\ \A p \in Page : a.page[p] = IF p \in u.pages THEN u.set ELSE c.page[p]
      /\ BeginsSet(b, u) => c.page = NoPages
  BY <1>1, CollectedIs
<1>3. b.page \in {asm.page, NoPages} /\ b.basic = (IF u.basic = 0 THEN asm.basic ELSE u.basic)
  BY <1>1, IdentifiedIs DEF Empty
<1>4. asm'.page = a.page /\ asm'.basic = a.basic
  <2> HIDE DEF a
  <2>1. asm' = a \/ asm' = [a EXCEPT !.due = FALSE, !.verified = a.verified \/ Verify(a) # "partial"]
    BY DEF Ingested, PutOff, a
  <2> QED BY <1>2, <2>1 DEF Assembly
<1>5. c.page \in {b.page, NoPages} BY <1>2
<1>6. \A p \in Page : c.page[p] \in {0, asm.page[p]} BY <1>3, <1>5 DEF NoPages
<1>7. ASSUME u.basic \in {0, asm.basic}, \A p \in Page : asm.page[p] \in {0, sending} PROVE c.page = asm.page
  <2>1. b.page = asm.page /\ b.verified = asm.verified BY <1>1, <1>7, IdentifiedIs
  <2>2. asm.verified => \A p \in Page : asm.page[p] = sending
    BY <1>7 DEF AuthTypeOK, Costly, Complete, Seen
  <2>3. 0 \in Page BY Numbers
  <2>4. ~BeginsSet(b, u) BY <1>1, <1>7, <2>1, <2>2, <2>3 DEF BeginsSet
  <2> QED BY <2>1, <2>4
<1> HIDE DEF a, b, c
<1>8. \A p \in u.pages : asm'.page[p] = sending BY <1>1, <1>2, <1>4
<1>9. \A p \in Page \ u.pages : asm'.page[p] = c.page[p] BY <1>2, <1>4
<1> QED BY <1>2, <1>3, <1>4, <1>6, <1>7, <1>8, <1>9

\* What is not due after a frame was judged, and nothing whole is due that could be.
LEMMA FrameJudged ==
  ASSUME AuthTypeOK, Judged, NEW u \in FrameType, u.set = sending, Ingested(u)
  PROVE  Judged' /\ (since = Window /\ Costly(asm') => ~asm'.due)
<1> DEFINE a == Collected(asm, u)
           b == Identified(asm, u)
           c == IF BeginsSet(b, u) THEN Dropped(b) ELSE b
           new == u.basic # 0 /\ asm.basic \notin {0, u.basic}
           last == IF new THEN "none" ELSE verdict
           wait == IF new THEN Window ELSE since
           check == a.due /\ Seen(a) # {} /\ (Costly(a) => wait >= Window)
           v == Verify(a)
<1>1. asm \in Assembly /\ u.pages \subseteq Page /\ u.set \in SetNo BY DEF AuthTypeOK, Assembly, Basics, FrameType
<1>2. /\ a \in Assembly /\ c \in Assembly /\ a.basic = b.basic /\ c.basic = b.basic
      /\ \A p \in Page : a.page[p] = IF p \in u.pages THEN u.set ELSE c.page[p]
      /\ a.due = (b.due \/ (Seen(a) # {} /\ News(asm, c, u)))
      /\ BeginsSet(b, u) => c.page = NoPages
  BY <1>1, CollectedIs
<1>3. asm' = IF check THEN [a EXCEPT !.due = FALSE, !.verified = a.verified \/ v # "partial"] ELSE a
  BY DEF Ingested, PutOff
<1>4. verdict' = IF ~check \/ (v = "partial" /\ last \in {"valid", "invalid"}) THEN last ELSE v BY DEF Ingested
<1>5. Window \in Nat /\ 0 \in Page BY AuthAssumption, Numbers
<1>6. Costly(a) => Seen(a) # {} BY <1>5 DEF Costly, Complete
<1>7. ASSUME Costly(a), ~a.due PROVE asm.basic = a.basic /\ asm.page = a.page /\ ~asm.due /\ ~new
  <2>1. ~News(asm, c, u) /\ ~b.due BY <1>2, <1>6, <1>7
  <2>2. c.basic = asm.basic /\ \A p \in u.pages : c.page[p] = u.set BY <2>1 DEF News
  <2>3. ~new
    <3> SUFFICES ASSUME new PROVE FALSE OBVIOUS
    <3>1. b.basic = u.basic BY <1>1, IdentifiedIs DEF Empty
    <3> QED BY <1>2, <2>2, <3>1
  <2>4. b.page = asm.page /\ b.due = asm.due BY <1>1, <2>3, IdentifiedIs
  <2>5. ~BeginsSet(b, u)
    <3> SUFFICES ASSUME BeginsSet(b, u) PROVE FALSE OBVIOUS
    <3>1. \A p \in u.pages : NoPages[p] = u.set BY <1>2, <2>2
    <3>2. u.pages # {} BY DEF BeginsSet
    <3> QED BY <1>1, <3>1, <3>2, Numbers DEF NoPages
  <2>6. c.page = asm.page BY <2>4, <2>5
  <2> HIDE DEF a, b, c
  <2>7. \A p \in Page : a.page[p] = asm.page[p] BY <1>2, <2>2, <2>6
  <2>8. a.page = asm.page BY <1>1, <1>2, <2>7 DEF Assembly
  <2> QED BY <1>2, <2>1, <2>2, <2>3, <2>4, <2>8
<1> HIDE DEF a, b, c
<1>8. asm'.page = a.page /\ asm'.basic = a.basic /\ (check => ~asm'.due) /\ (~check => asm'.due = a.due)
  <2> HIDE DEF check, v
  <2>1. (a.verified \/ v # "partial") \in BOOLEAN BY <1>2 DEF Assembly
  <2> QED BY <1>2, <1>3, <2>1 DEF Assembly
<1>9. Costly(asm') <=> Costly(a) BY <1>8 DEF Costly, Complete, Seen
<1>10. ASSUME Costly(asm'), asm'.basic = Own, \A p \in Page : asm'.page[p] = asm'.page[0], ~asm'.due
       PROVE  verdict' = "valid"
  <2>1. CASE check
    <3>1. Complete(a) /\ a.basic = Own /\ \A p \in Page : a.page[p] = a.page[0]
      BY <1>8, <1>9, <1>10 DEF Costly
    <3>2. v = "valid" BY <3>1, Numbers DEF Verify
    <3> QED BY <1>4, <2>1, <3>2
  <2>2. CASE ~check
    <3>1. ~a.due BY <1>8, <1>10, <2>2
    <3>2. asm.basic = a.basic /\ asm.page = a.page /\ ~asm.due /\ ~new BY <1>7, <1>9, <1>10, <3>1
    <3>3. Costly(asm) BY <1>9, <1>10, <3>2 DEF Costly, Complete, Seen
    <3>4. verdict = "valid" BY <1>8, <1>10, <3>2, <3>3 DEF Judged
    <3> QED BY <1>4, <2>2, <3>2, <3>4
  <2> QED BY <2>1, <2>2
<1>11. ASSUME since = Window, Costly(asm') PROVE ~asm'.due
  <2>1. wait >= Window BY <1>5, <1>11
  <2>2. a.due => check BY <1>6, <1>9, <1>11, <2>1
  <2> QED BY <1>8, <2>2
<1> QED BY <1>10, <1>11 DEF Judged

LEMMA GenuineInitially == AuthInit => GenuineInv
BY DEF AuthInit, GenuineInv, SoFar, AfterOne, AfterTwo, Judged, Empty, Costly, NoPages, Message, BasicId

\* A message of the aircraft, or a pack, keeps the invariant, and is judged right.
LEMMA OwnGenuine ==
  ASSUME AuthTypeOK, GenuineInv, NEW u \in FrameType, u.set = sending, u.basic \in {0, Own}, Ingested(u),
         todo' \subseteq todo, \A p \in Page : p \in todo /\ p \notin todo' => p \in u.pages,
         BasicId \in todo /\ BasicId \notin todo' => u.basic = Own,
         UNCHANGED <<sending, whole, clean>>
  PROVE  GenuineInv' /\ (clean = 2 /\ since = Window => verdict' = "valid")
<1>1. sending \in Nat /\ sending # 0 /\ clean \in 0 .. 2 /\ Own # 0 BY Numbers DEF AuthTypeOK
<1>2. /\ asm'.basic = IF u.basic = 0 THEN asm.basic ELSE u.basic
      /\ \A p \in u.pages : asm'.page[p] = sending
      /\ \A p \in Page \ u.pages : asm'.page[p] \in {0, asm.page[p]}
      /\ u.basic \in {0, asm.basic} /\ (\A p \in Page : asm.page[p] \in {0, sending}) =>
           \A p \in Page \ u.pages : asm'.page[p] = asm.page[p]
  BY PagesMove
<1>3. SoFar'
  <2> SUFFICES ASSUME whole
               PROVE  /\ \A p \in Page \ todo' : asm'.page[p] \in {0, sending}
                      /\ BasicId \notin todo' => asm'.basic = Own
    BY DEF SoFar
  <2>1. ASSUME NEW p \in Page \ todo' PROVE asm'.page[p] \in {0, sending}
    <3>1. CASE p \in u.pages BY <1>2, <3>1
    <3>2. CASE p \notin u.pages
      <4>1. p \notin todo BY <2>1, <3>2
      <4>2. asm.page[p] \in {0, sending} BY <4>1 DEF GenuineInv, SoFar
      <4> QED BY <1>2, <3>2, <4>2
    <3> QED BY <3>1, <3>2
  <2>2. BasicId \notin todo' => asm'.basic = Own BY <1>1, <1>2 DEF GenuineInv, SoFar
  <2> QED BY <2>1, <2>2
<1>4. ASSUME clean >= 1
      PROVE  /\ whole /\ asm'.basic = Own
             /\ \A p \in Page \ u.pages : asm'.page[p] = asm.page[p]
             /\ \A p \in Page : asm'.page[p] \in {0, sending} /\ (p \notin todo' => asm'.page[p] = sending)
  <2>1. /\ whole /\ asm.basic = Own
        /\ \A p \in Page : asm.page[p] \in {0, sending} /\ (p \notin todo => asm.page[p] = sending)
    BY <1>4 DEF GenuineInv, AfterOne
  <2>2. \A p \in Page \ u.pages : asm'.page[p] = asm.page[p] BY <1>2, <2>1
  <2>3. asm'.basic = Own BY <1>2, <2>1
  <2>4. \A p \in Page : asm'.page[p] \in {0, sending} /\ (p \notin todo' => asm'.page[p] = sending)
    BY <1>2, <2>1, <2>2
  <2> QED BY <2>1, <2>2, <2>3, <2>4
<1>5. AfterOne' BY <1>4 DEF AfterOne
<1>6. ASSUME clean = 2 PROVE asm'.basic = Own /\ \A p \in Page : asm'.page[p] = sending
  <2>1. \A p \in Page : asm.page[p] = sending BY <1>6 DEF GenuineInv, AfterTwo, Whole
  <2> QED BY <1>2, <1>4, <1>6, <2>1
<1>7. AfterTwo' BY <1>6 DEF AfterTwo, Whole
<1>8. Judged' /\ (since = Window /\ Costly(asm') => ~asm'.due) BY FrameJudged DEF GenuineInv
<1>9. ASSUME clean = 2, since = Window PROVE verdict' = "valid"
  <2>1. 0 \in Page BY Numbers
  <2>2. Costly(asm') BY <1>1, <1>6, <1>9 DEF Costly, Complete, Seen
  <2>3. \A p \in Page : asm'.page[p] = asm'.page[0] BY <1>6, <1>9, <2>1
  <2> QED BY <1>6, <1>8, <1>9, <2>2, <2>3 DEF Judged
<1> QED BY <1>3, <1>5, <1>7, <1>8, <1>9 DEF GenuineInv

LEMMA GenuineStep ==
  ASSUME AuthTypeOK, GenuineInv, [AuthNext]_authVars
  PROVE  GenuineInv' /\ (Hearing /\ clean = 2 /\ since = Window => verdict' = "valid")
<1>1. sending \in SetNo /\ todo \subseteq Message /\ clean \in 0 .. 2 /\ MaxLost \in Nat /\ lost \in 0 .. MaxLost
  BY AuthAssumption DEF AuthTypeOK
<1>2. BasicId \notin Page /\ Message = Page \union {BasicId} BY AuthAssumption DEF BasicId, Page, Message
<1>3. CASE HearMessage
  <2>1. PICK m \in todo : Ingested(Frame(m)) /\ todo' = todo \ {m} BY <1>3 DEF HearMessage
  <2>2. Frame(m) \in FrameType /\ Frame(m).set = sending BY <1>1, <2>1, Frames
  <2>3. Frame(m).basic = (IF m = BasicId THEN Own ELSE 0) /\ Frame(m).pages = {m} \intersect Page BY DEF Frame
  <2>4. UNCHANGED <<sending, whole, clean>> BY <1>3 DEF HearMessage
  <2> QED BY <1>2, <2>1, <2>2, <2>3, <2>4, OwnGenuine
<1>4. CASE HearPack
  <2>1. Pack \in FrameType /\ Pack.set = sending /\ Pack.basic = Own /\ Pack.pages = Page
    BY <1>1, Frames DEF Pack
  <2>2. Ingested(Pack) /\ todo' = {} /\ UNCHANGED <<sending, whole, clean>> BY <1>4 DEF HearPack
  <2> QED BY <2>1, <2>2, OwnGenuine
<1>5. CASE HearOther
  <2> DEFINE u == [basic |-> Other, pages |-> {}, set |-> sending]
  <2>1. u \in FrameType /\ u.set = sending BY <1>1, Frames
  <2>2. Ingested(u) /\ ~whole' /\ clean' = 0 /\ todo' = todo BY <1>5 DEF HearOther, air
  <2> HIDE DEF u
  <2>3. Judged' BY <2>1, <2>2, FrameJudged DEF GenuineInv
  <2>4. ~Hearing BY <2>2 DEF Hearing
  <2> QED BY <2>2, <2>3, <2>4 DEF GenuineInv, SoFar, AfterOne, AfterTwo
<1>6. CASE LoseMessage
  <2>1. ~whole' /\ clean' = 0 /\ lost' = lost + 1 /\ UNCHANGED <<asm, verdict>> BY <1>6 DEF LoseMessage
  <2>2. Judged' BY <2>1 DEF GenuineInv, Judged, Costly, Complete, Seen
  <2>3. ~Hearing BY <1>1, <2>1 DEF Hearing
  <2> QED BY <2>1, <2>2, <2>3 DEF GenuineInv, SoFar, AfterOne, AfterTwo
<1>7. CASE Rotate
  <2>1. todo = {} /\ todo' = Message /\ whole' /\ UNCHANGED <<asm, verdict>> BY <1>7 DEF Rotate
  <2>2. Judged' BY <2>1 DEF GenuineInv, Judged, Costly, Complete, Seen
  <2>3. ~Hearing BY <2>1 DEF Hearing
  <2>4. SoFar' BY <1>2, <2>1 DEF SoFar
  <2>5. CASE clean' = 0 BY <2>2, <2>3, <2>4, <2>5 DEF GenuineInv, AfterOne, AfterTwo
  <2>6. CASE clean' # 0
    <3>1. whole /\ sending' = sending /\ (clean' = 2 => clean >= 1) BY <1>1, <1>7, <2>6 DEF Rotate
    <3>2. asm.basic = Own /\ \A p \in Page : asm.page[p] \in {0, sending} BY <2>1, <3>1 DEF GenuineInv, SoFar
    <3>3. AfterOne' BY <1>2, <2>1, <3>1, <3>2 DEF AfterOne
    <3>4. AfterTwo' BY <2>1, <3>1 DEF GenuineInv, AfterOne, AfterTwo, Whole
    <3> QED BY <2>2, <2>3, <2>4, <3>3, <3>4 DEF GenuineInv
  <2> QED BY <2>5, <2>6
<1>8. CASE AuthTick \/ UNCHANGED authVars
  <2>1. UNCHANGED <<asm, verdict, sending, todo, whole, clean>> BY <1>8 DEF AuthTick, authVars
  <2>2. GenuineInv'
    <3>1. Judged' BY <2>1 DEF GenuineInv, Judged, Costly, Complete, Seen
    <3> QED BY <2>1, <3>1 DEF GenuineInv, SoFar, AfterOne, AfterTwo, Whole
  <2>3. ~Hearing BY <2>1 DEF Hearing
  <2> QED BY <2>2, <2>3
<1> QED BY <1>3, <1>4, <1>5, <1>6, <1>7, <1>8 DEF AuthNext

\* Whatever was lost, mixed or put off before: once the aircraft's set came through
\* whole twice, the next frame that may be checked says "valid" (tracker_ingest).
THEOREM KnownGenuine == AuthSpec => GenuineSoon
<1>1. AuthTypeOK /\ GenuineInv /\ [AuthNext]_authVars =>
        GenuineInv' /\ [Hearing /\ clean = 2 /\ since = Window => verdict' = "valid"]_authVars
  BY GenuineStep
<1> QED
  BY AuthTypeCorrect, GenuineInitially, <1>1, PTL DEF AuthSpec, GenuineSoon

-----------------------------------------------------------------------------
\* The types of both parts, side by side as MCReceiver runs them: a step of one
\* leaves the other as it is.
THEOREM ReceiverTyped == ReceiverSpec => []ReceiverTypeOK
<1>1. ReceiverInit => Init /\ AuthInit
  BY DEF ReceiverInit
<1>2. [ReceiverNext]_<<vars, authVars, part>> => [Next]_vars /\ [AuthNext]_authVars
  BY DEF ReceiverNext
<1>3. ReceiverSpec => Spec /\ AuthSpec
  BY <1>1, <1>2, PTL DEF ReceiverSpec, Spec, AuthSpec
<1>4. TypeOK /\ AuthTypeOK => ReceiverTypeOK
  BY DEF ReceiverTypeOK
<1> QED
  BY <1>3, <1>4, TableTyped, AuthTypeCorrect, PTL
=============================================================================
