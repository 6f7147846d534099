--------------------------- MODULE MatchLogProofs ---------------------------
(***************************************************************************)
(* Proofs about MatchLog, for every ring size, identity space, clock and   *)
(* set of contacts; and, at the end, of the log beside the phone's parts as *)
(* MCKept runs them, whose model values play no part in it.                 *)
(***************************************************************************)
EXTENDS MCKept, PhoneProofs, TLAPS

USE LogMaxAssumption

-----------------------------------------------------------------------------
(* Arithmetic of the ring.                                                 *)

\* The remainder of a number below twice the modulus.
LEMMA ModOnce == \A x \in 0 .. 2 * LogMax - 1 : x % LogMax = IF x < LogMax THEN x ELSE x - LogMax
  OBVIOUS

\* The slot after h.
LEMMA NextSlot ==
  ASSUME NEW h \in Slot
  PROVE  /\ (h + 1) % LogMax = IF h + 1 < LogMax THEN h + 1 ELSE 0
         /\ (h + 1) % LogMax \in Slot
<1>1. h + 1 \in 0 .. 2 * LogMax - 1
  BY DEF Slot
<1>2. (h + 1) % LogMax = IF h + 1 < LogMax THEN h + 1 ELSE h + 1 - LogMax
  BY <1>1, ModOnce DEF Slot
<1> QED
  BY <1>2 DEF Slot

\* log_at without the remainders: the i-th of k records that end before h.
LEMMA AtValue ==
  ASSUME NEW h \in Slot, NEW k \in 0 .. LogMax, NEW i \in 0 .. k - 1
  PROVE  At(h, k, i) = IF h - k + i < 0 THEN h - k + i + LogMax ELSE h - k + i
<1>1. h + LogMax - k \in 0 .. 2 * LogMax - 1
  BY DEF Slot
<1>2. (h + LogMax - k) % LogMax
        = IF h + LogMax - k < LogMax THEN h + LogMax - k ELSE h + LogMax - k - LogMax
  BY <1>1, ModOnce DEF Slot
<1>3. ((h + LogMax - k) % LogMax) + i \in 0 .. 2 * LogMax - 1
  BY <1>2 DEF Slot
<1>4. At(h, k, i) = IF ((h + LogMax - k) % LogMax) + i < LogMax
                    THEN ((h + LogMax - k) % LogMax) + i
                    ELSE ((h + LogMax - k) % LogMax) + i - LogMax
  BY <1>2, <1>3, ModOnce DEF At, Slot
<1> QED
  BY <1>2, <1>4 DEF Slot

\* log_at names a slot.
LEMMA AtSlot ==
  ASSUME NEW h \in Slot, NEW k \in 0 .. LogMax, NEW i \in 0 .. k - 1
  PROVE  At(h, k, i) \in Slot
  BY AtValue DEF Slot

\* Two held records are in two slots.
LEMMA AtInjective ==
  ASSUME NEW h \in Slot, NEW k \in 0 .. LogMax,
         NEW i \in 0 .. k - 1, NEW j \in 0 .. k - 1, At(h, k, i) = At(h, k, j)
  PROVE  i = j
  BY AtValue DEF Slot

\* The slot log_add writes is that of the newest record afterwards.
LEMMA AtNewest ==
  ASSUME NEW h \in Slot, NEW k \in 1 .. LogMax
  PROVE  At((h + 1) % LogMax, k, k - 1) = h
<1>1. /\ (h + 1) % LogMax \in Slot
      /\ k \in 0 .. LogMax /\ k - 1 \in 0 .. k - 1
  BY NextSlot
<1>2. At((h + 1) % LogMax, k, k - 1)
        = IF ((h + 1) % LogMax) - k + (k - 1) < 0
          THEN ((h + 1) % LogMax) - k + (k - 1) + LogMax
          ELSE ((h + 1) % LogMax) - k + (k - 1)
  BY <1>1, AtValue
<1> QED
  BY <1>2, NextSlot DEF Slot

\* When the ring is not full the i-th record stays the i-th and keeps its
\* slot, which is not the written one.
LEMMA AtKept ==
  ASSUME NEW h \in Slot, NEW k \in 0 .. LogMax, k < LogMax, NEW i \in 0 .. k - 1
  PROVE  /\ At((h + 1) % LogMax, k + 1, i) = At(h, k, i)
         /\ At(h, k, i) # h
<1>1. /\ (h + 1) % LogMax \in Slot
      /\ k + 1 \in 0 .. LogMax /\ i \in 0 .. (k + 1) - 1
  BY NextSlot
<1>2. At((h + 1) % LogMax, k + 1, i)
        = IF ((h + 1) % LogMax) - (k + 1) + i < 0
          THEN ((h + 1) % LogMax) - (k + 1) + i + LogMax
          ELSE ((h + 1) % LogMax) - (k + 1) + i
  BY <1>1, AtValue
<1>3. At(h, k, i) = IF h - k + i < 0 THEN h - k + i + LogMax ELSE h - k + i
  BY AtValue
<1>4. CASE h + 1 < LogMax
  BY <1>2, <1>3, <1>4, NextSlot DEF Slot
<1>5. CASE h + 1 = LogMax
  BY <1>2, <1>3, <1>5, NextSlot DEF Slot
<1> QED
  BY <1>4, <1>5 DEF Slot

\* When the ring is full the i-th record was the one after it, and keeps its
\* slot, which is not the written one.
LEMMA AtShifted ==
  ASSUME NEW h \in Slot, NEW i \in 0 .. LogMax - 2
  PROVE  /\ At((h + 1) % LogMax, LogMax, i) = At(h, LogMax, i + 1)
         /\ At(h, LogMax, i + 1) # h
<1>1. /\ (h + 1) % LogMax \in Slot
      /\ LogMax \in 0 .. LogMax
      /\ i \in 0 .. LogMax - 1 /\ i + 1 \in 0 .. LogMax - 1
  BY NextSlot
<1>2. At((h + 1) % LogMax, LogMax, i)
        = IF ((h + 1) % LogMax) - LogMax + i < 0
          THEN ((h + 1) % LogMax) - LogMax + i + LogMax
          ELSE ((h + 1) % LogMax) - LogMax + i
  BY <1>1, AtValue
<1>3. At(h, LogMax, i + 1) = IF h - LogMax + (i + 1) < 0
                             THEN h - LogMax + (i + 1) + LogMax
                             ELSE h - LogMax + (i + 1)
  BY <1>1, AtValue
<1>4. CASE h + 1 < LogMax
  BY <1>2, <1>3, <1>4, NextSlot DEF Slot
<1>5. CASE h + 1 = LogMax
  BY <1>2, <1>3, <1>5, NextSlot DEF Slot
<1> QED
  BY <1>4, <1>5 DEF Slot

-----------------------------------------------------------------------------
(* The ring as a whole.                                                    *)

\* log_add keeps the records in order: the next number goes to the newest.
LEMMA AddInOrder ==
  ASSUME NEW r \in [Slot -> Rec], NEW h \in Slot, NEW k \in 0 .. LogMax, NEW t \in Nat,
         NEW c \in Contact, InOrder(r, h, k, t)
  PROVE  InOrder([r EXCEPT ![h] = [seq |-> t, who |-> c]], (h + 1) % LogMax,
                 IF k < LogMax THEN k + 1 ELSE k, t + 1)
<1> DEFINE added == [r EXCEPT ![h] = [seq |-> t, who |-> c]]
           next  == (h + 1) % LogMax
<1>1. k <= t /\ \A i \in 0 .. k - 1 : /\ r[At(h, k, i)].seq = t - k + i
                                       /\ r[At(h, k, i)].who \in Contact
  BY DEF InOrder
<1>2. added[h] = [seq |-> t, who |-> c] /\ \A s \in Slot : s # h => added[s] = r[s]
  OBVIOUS
<1>3. CASE k < LogMax
  <2> SUFFICES ASSUME NEW i \in 0 .. k
               PROVE  /\ added[At(next, k + 1, i)].seq = (t + 1) - (k + 1) + i
                      /\ added[At(next, k + 1, i)].who \in Contact
    BY <1>1, <1>3 DEF InOrder
  <2>1. CASE i = k
    <3>1. k + 1 \in 1 .. LogMax
      BY <1>3
    <3>2. At(next, k + 1, (k + 1) - 1) = h
      BY <3>1, AtNewest
    <3> QED
      BY <2>1, <3>2, <1>2
  <2>2. CASE i # k
    <3>1. i \in 0 .. k - 1
      BY <2>2
    <3>2. At(next, k + 1, i) = At(h, k, i) /\ At(h, k, i) # h
      BY <3>1, <1>3, AtKept
    <3>3. added[At(next, k + 1, i)] = r[At(h, k, i)]
      BY <3>1, <3>2, <1>2, AtSlot
    <3> QED
      BY <3>1, <3>3, <1>1
  <2> QED
    BY <2>1, <2>2
<1>4. CASE k = LogMax
  <2> SUFFICES ASSUME NEW i \in 0 .. LogMax - 1
               PROVE  /\ added[At(next, LogMax, i)].seq = (t + 1) - LogMax + i
                      /\ added[At(next, LogMax, i)].who \in Contact
    BY <1>1, <1>4 DEF InOrder
  <2>1. CASE i = LogMax - 1
    <3>1. LogMax \in 1 .. LogMax
      OBVIOUS
    <3>2. At(next, LogMax, LogMax - 1) = h
      BY <3>1, AtNewest
    <3> QED
      BY <2>1, <3>2, <1>2
  <2>2. CASE i # LogMax - 1
    <3>1. i \in 0 .. LogMax - 2 /\ i + 1 \in 0 .. LogMax - 1 /\ LogMax \in 0 .. LogMax
      BY <2>2
    <3>2. At(next, LogMax, i) = At(h, LogMax, i + 1) /\ At(h, LogMax, i + 1) # h
      BY <3>1, AtShifted
    <3>3. added[At(next, LogMax, i)] = r[At(h, LogMax, i + 1)]
      BY <3>1, <3>2, <1>2, AtSlot
    <3>4. r[At(h, LogMax, i + 1)].seq = t - LogMax + (i + 1) /\ r[At(h, LogMax, i + 1)].who \in Contact
      BY <3>1, <1>1, <1>4
    <3> QED
      BY <3>3, <3>4
  <2> QED
    BY <2>1, <2>2
<1> QED
  BY <1>3, <1>4

\* What log_load makes of a usable version 1 ring is in order.
LEMMA Version1InOrder ==
  ASSUME NEW k \in V1Nvs, V1Image(k)
  PROVE  InOrder(LoadedRing(k), k.head, k.n, LoadedTotal(k))
<1>1. /\ k.ver = 1 /\ k.head \in Slot /\ k.n \in 0 .. LogMax /\ k.total \in Nat
      /\ k.recs.slots \in [Slot -> [seq : {0}, who : Contact \cup {None}]]
  BY MaxTotalAssumption DEF V1Nvs, ImageOf, Blob
<1>2. k.n <= LoadedTotal(k) /\ LoadedTotal(k) \in Nat
  BY <1>1 DEF LoadedTotal
<1> SUFFICES ASSUME NEW i \in 0 .. k.n - 1
             PROVE  /\ LoadedRing(k)[At(k.head, k.n, i)].seq = LoadedTotal(k) - k.n + i
                    /\ LoadedRing(k)[At(k.head, k.n, i)].who \in Contact
  BY <1>2 DEF InOrder
<1> DEFINE s == At(k.head, k.n, i)
           held == {j \in 0 .. k.n - 1 : At(k.head, k.n, j) = s}
<1>3. s \in Slot
  BY <1>1, AtSlot
<1>4. held = {i}
  BY <1>1, AtInjective
<1>5. (CHOOSE j \in held : TRUE) = i /\ held # {}
  BY <1>4
<1>6. LoadedRing(k)[s] = [k.recs.slots[s] EXCEPT !.seq = LoadedTotal(k) - k.n + i]
  BY <1>1, <1>3, <1>5 DEF LoadedRing, Numbered
<1>7. k.recs.slots[s] \in [seq : {0}, who : Contact \cup {None}] /\ k.recs.slots[s].who # None
  BY <1>1, <1>3 DEF V1Image
<1> QED
  BY <1>6, <1>7

-----------------------------------------------------------------------------
(* Type correctness, whatever fails.                                       *)

\* What the loader finds has the types of the RAM side.
LEMMA LoadedType ==
  ASSUME NEW k \in Image, NEW i \in LogId
  PROVE  /\ LoadedImage(k, i) \in [ver : {3}, recs : [layout : {3}, slots : [Slot -> Rec]],
                                   head : Slot, n : 0 .. LogMax, total : Nat, id : LogId]
<1> USE IdSpaceAssumption
<1>1. ZeroRing \in [Slot -> Rec] /\ 0 \in Slot
  BY DEF ZeroRing, Rec, Slot
<1>2. ASSUME k.ver = 1, NEW s \in Slot
      PROVE  Numbered(k, s) \in Rec
  <2> DEFINE held == {j \in 0 .. k.n - 1 : At(k.head, k.n, j) = s}
  <2>1. k.recs.slots[s] \in Rec /\ k.n \in 0 .. LogMax /\ k.total \in Nat
    BY DEF Image
  <2>2. CASE held = {}
    BY <2>1, <2>2 DEF Numbered
  <2>3. CASE held # {}
    <3>1. (CHOOSE j \in held : TRUE) \in 0 .. k.n - 1
      BY <2>3
    <3>2. LoadedTotal(k) - k.n + (CHOOSE j \in held : TRUE) \in Nat
      BY <2>1, <3>1, <1>2 DEF LoadedTotal
    <3> QED
      BY <2>1, <2>3, <3>2 DEF Numbered, Rec
  <2> QED
    BY <2>2, <2>3
<1>3. LoadedRing(k) \in [Slot -> Rec]
  BY <1>2 DEF LoadedRing, Image
<1>4. k.head % LogMax \in Slot
  BY DEF Slot, Image
<1>5. LoadedTotal(k) \in Nat
  BY DEF LoadedTotal, Image
<1>6. (IF k.id = 0 THEN i ELSE k.id) \in LogId
  BY DEF Image, LogId
<1>7. CASE Usable(k)
  BY <1>3, <1>4, <1>5, <1>6, <1>7 DEF LoadedImage, ImageOf, Blob, Image
<1>8. CASE ~Usable(k)
  BY <1>1, <1>6, <1>8 DEF LoadedImage, ImageOf, Blob
<1> QED
  BY <1>7, <1>8

\* The flash images a board can start from are images.
LEMMA InitialImages ==
  ASSUME NEW k, k = FreshNvs \/ (k \in V1Nvs /\ V1Image(k))
  PROVE  k \in Image /\ k.id = 0
<1> USE IdSpaceAssumption, MaxTotalAssumption
<1>1. CASE k = FreshNvs
  <2>1. ZeroRing \in [Slot -> Rec] /\ 0 \in Slot
    BY DEF ZeroRing, Rec, Slot
  <2> QED
    BY <1>1, <2>1 DEF FreshNvs, Image, ImageOf, Blob
<1>2. CASE k \in V1Nvs
  <2>1. PICK r \in [Slot -> [seq : {0}, who : Contact \cup {None}]], h \in Slot,
             j \in 0 .. LogMax, t \in 0 .. MaxTotal : k = ImageOf(1, Blob(1, r), h, j, t, 0)
    BY <1>2 DEF V1Nvs
  <2>2. r \in [Slot -> Rec]
    BY DEF Rec
  <2> QED
    BY <2>1, <2>2 DEF Image, ImageOf, Blob
<1> QED
  BY <1>1, <1>2

\* The types hold at first.
LEMMA TypeInit == Init => TypeOK
<1> USE IdSpaceAssumption, MaxTotalAssumption, ClockAssumption
<1> SUFFICES ASSUME Init PROVE TypeOK
  OBVIOUS
<1>1. nvs \in Image /\ FreshNvs \in Image
  BY InitialImages DEF Init
<1>2. PICK i \in LogId : LET k == LoadedImage(nvs, i)
                         IN  /\ ring = k.recs.slots /\ head = k.head /\ n = k.n
                             /\ total = k.total /\ id = k.id
  BY DEF Init
<1>3. ring \in [Slot -> Rec] /\ head \in Slot /\ n \in 0 .. LogMax /\ total \in Nat /\ id \in LogId
  BY <1>1, <1>2, LoadedType
<1> QED
  BY <1>1, <1>3 DEF Init, TypeOK, Keys

\* No step breaks a type.
LEMMA TypeStep == TypeOK /\ [Next]_vars => TypeOK'
<1> USE IdSpaceAssumption, MaxTotalAssumption, ClockAssumption
<1> SUFFICES ASSUME TypeOK, [Next]_vars PROVE TypeOK'
  OBVIOUS
<1> USE DEF TypeOK
<1>1. ASSUME NEW c \in Contact, NEW ahead \in 0 .. 2, ContactEnds(c, (now + ahead) % Clock)
      PROVE  TypeOK'
  <2>1. (now + ahead) % Clock \in 0 .. Clock - 1
    OBVIOUS
  <2>2. head' \in Slot
    BY <1>1, NextSlot DEF ContactEnds
  <2>3. ring' \in [Slot -> Rec]
    BY <1>1 DEF ContactEnds, Rec
  <2>4. dirtyMs' \in 0 .. Clock - 1
    BY <1>1, <2>1 DEF ContactEnds
  <2> QED
    BY <1>1, <2>2, <2>3, <2>4 DEF ContactEnds
<1>2. ASSUME Snapshot
      PROVE  /\ img' \in Image /\ pc' = "ver" /\ waiting' = 0 /\ dirty' = FALSE
             /\ UNCHANGED <<ring, head, n, total, id, dirtyMs, nvs>>
  <2>1. img' = [ver |-> 3, recs |-> [layout |-> 3, slots |-> ring], head |-> head,
                n |-> n, total |-> total, id |-> id]
    BY <1>2 DEF Snapshot, ImageOf, Blob
  <2>2. img' \in Image
    BY <2>1 DEF Image, LogId
  <2> QED
    BY <1>2, <2>2 DEF Snapshot
<1>3. CASE RxTick
  <2>1. now' \in 0 .. Clock - 1
    <3>1. (now + 1) % Clock \in 0 .. Clock - 1
      OBVIOUS
    <3> QED
      BY <1>3, <3>1 DEF RxTick
  <2>2. CASE Due(now')
    <3>1. Snapshot /\ sinceSave' = 0
      BY <1>3, <2>2 DEF RxTick
    <3>2. 0 \in 0 .. LogSave /\ 0 \in 0 .. LogSave + 3
      OBVIOUS
    <3> QED
      BY <1>2, <2>1, <3>1, <3>2 DEF Keys
  <2>3. CASE ~Due(now')
    BY <1>3, <2>1, <2>3 DEF RxTick, UpTo, ram
  <2> QED
    BY <2>2, <2>3
<1>4. CASE RxLogFlush
  <2>1. CASE dirty
    <3>1. Snapshot /\ UNCHANGED <<now, sinceSave>>
      BY <1>4, <2>1 DEF RxLogFlush
    <3>2. 0 \in 0 .. LogSave + 3
      OBVIOUS
    <3> QED
      BY <1>2, <3>1, <3>2 DEF Keys
  <2>2. CASE ~dirty
    BY <1>4, <2>2 DEF RxLogFlush, ram
  <2> QED
    BY <2>1, <2>2
<1>5. CASE ClearAll
  <2>1. id' \in LogId
    BY <1>5 DEF ClearAll, NextId, LogId
  <2>2. ring' \in [Slot -> Rec] /\ 0 \in Slot
    BY <1>5 DEF ClearAll, ZeroRing, Rec, Slot
  <2> QED
    BY <1>5, <2>1, <2>2 DEF ClearAll
<1>6. ASSUME NEW key \in Keys, NEW next \in Keys \cup {"idle"}, Put(key, next)
      PROVE  TypeOK'
  <2>1. nvs' \in Image
    <3>1. CASE UNCHANGED nvs
      BY <3>1
    <3>2. CASE nvs' = [nvs EXCEPT ![key] = img[key]]
      BY <3>2 DEF Image, Keys
    <3> QED
      BY <1>6, <3>1, <3>2 DEF Put
  <2> QED
    BY <1>6, <2>1 DEF Put, ram
<1>7. CASE PowerCut
  <2>1. PICK i \in LogId : LET k == LoadedImage(nvs, i)
                           IN  /\ ring' = k.recs.slots /\ head' = k.head /\ n' = k.n
                               /\ total' = k.total /\ id' = k.id
    BY <1>7 DEF PowerCut
  <2>2. ring' \in [Slot -> Rec] /\ head' \in Slot /\ n' \in 0 .. LogMax /\ total' \in Nat /\ id' \in LogId
    BY <2>1, LoadedType
  <2>3. FreshNvs \in Image
    BY InitialImages
  <2> QED
    BY <1>7, <2>2, <2>3 DEF PowerCut
<1>8. CASE UNCHANGED vars
  BY <1>8 DEF vars
<1>9. CASE LogWrite
  BY <1>6, <1>9 DEF LogWrite, Keys
<1> QED
  BY <1>1, <1>3, <1>4, <1>5, <1>7, <1>8, <1>9 DEF Next, DecodeTask, LoopTask

\* Every variable keeps its type, with torn writes and failing puts too.
THEOREM TypeCorrect == Spec => []TypeOK
  BY TypeInit, TypeStep, PTL DEF Spec

-----------------------------------------------------------------------------
(***************************************************************************)
(* The numbering of the records. It is not inductive by itself: a save in  *)
(* progress has an image in order too, and has put the keys before the     *)
(* next one as the image has them, so that flash is in order again when    *)
(* the last key is put; between saves flash is in order, so that what a    *)
(* power cut brings back is.                                               *)
(***************************************************************************)
Reliable == ~CutDuringWrite /\ ~PutMayFail

ImageInOrder(k) == InOrder(k.recs.slots, k.head, k.n, k.total)

KeysBefore(key) ==
  CASE key = "ver"   -> {}
    [] key = "recs"  -> {"ver"}
    [] key = "head"  -> {"ver", "recs"}
    [] key = "n"     -> {"ver", "recs", "head"}
    [] key = "total" -> {"ver", "recs", "head", "n"}
    [] key = "id"    -> {"ver", "recs", "head", "n", "total"}

SaveInv ==
  pc \in Keys =>
    /\ img.ver = 3 /\ img.recs.layout = 3 /\ img.id # 0
    /\ ImageInOrder(img)
    /\ \A key \in KeysBefore(pc) : nvs[key] = img[key]

FlashInv == pc \notin Keys => ImageInOrder(LoadedImage(nvs, 1))

IInv == TypeOK /\ RingNumbered /\ SaveInv /\ FlashInv

\* A saved image is loaded as it is.
LEMMA LoadedSaved ==
  ASSUME NEW k \in Image, k.ver = 3, k.recs.layout = 3, NEW i
  PROVE  /\ LoadedImage(k, i).recs.slots = k.recs.slots
         /\ LoadedImage(k, i).head = k.head
         /\ LoadedImage(k, i).n = k.n
         /\ LoadedImage(k, i).total = k.total
         /\ LoadedImage(k, i).id = IF k.id = 0 THEN i ELSE k.id
<1>1. k.head \in 0 .. 2 * LogMax - 1 /\ k.head < LogMax
  BY DEF Image, Slot
<1>2. k.head % LogMax = k.head
  BY <1>1, ModOnce
<1>3. (IF k.n > LogMax THEN LogMax ELSE k.n) = k.n
  BY DEF Image
<1> QED
  BY <1>2, <1>3 DEF LoadedImage, Usable, LoadedRing, LoadedTotal, ImageOf, Blob

\* The identity the loader draws changes nothing else.
LEMMA LoadedSame ==
  ASSUME NEW k, NEW i, NEW j
  PROVE  /\ LoadedImage(k, i).recs.slots = LoadedImage(k, j).recs.slots
         /\ LoadedImage(k, i).head = LoadedImage(k, j).head
         /\ LoadedImage(k, i).n = LoadedImage(k, j).n
         /\ LoadedImage(k, i).total = LoadedImage(k, j).total
  BY DEF LoadedImage, ImageOf, Blob

\* The empty ring is in order.
LEMMA EmptyInOrder == ASSUME NEW r, NEW h PROVE InOrder(r, h, 0, 0)
  BY DEF InOrder

\* What a board starts from is loaded in order.
LEMMA InitialInOrder ==
  ASSUME NEW k, k = FreshNvs \/ (k \in V1Nvs /\ V1Image(k))
  PROVE  ImageInOrder(LoadedImage(k, 1))
<1>1. CASE k = FreshNvs
  <2>1. LoadedImage(k, 1).n = 0 /\ LoadedImage(k, 1).total = 0
    BY <1>1 DEF LoadedImage, FreshNvs, Usable, ImageOf, Blob
  <2> QED
    BY <2>1, EmptyInOrder DEF ImageInOrder
<1>2. CASE k \in V1Nvs /\ V1Image(k)
  <2>1. k.ver = 1 /\ k.recs.layout = 1 /\ k.head \in Slot /\ k.n \in 0 .. LogMax
    BY <1>2 DEF V1Nvs, ImageOf, Blob
  <2>2. k.head \in 0 .. 2 * LogMax - 1 /\ k.head < LogMax
    BY <2>1 DEF Slot
  <2>3. k.head % LogMax = k.head
    BY <2>2, ModOnce
  <2>4. InOrder(LoadedRing(k), k.head, k.n, LoadedTotal(k))
    BY <1>2, Version1InOrder
  <2>5. /\ LoadedImage(k, 1).recs.slots = LoadedRing(k)
        /\ LoadedImage(k, 1).head = k.head
        /\ LoadedImage(k, 1).n = k.n
        /\ LoadedImage(k, 1).total = LoadedTotal(k)
    BY <2>1, <2>3 DEF LoadedImage, Usable, ImageOf, Blob
  <2> QED
    BY <2>4, <2>5 DEF ImageInOrder
<1> QED
  BY <1>1, <1>2

\* The invariant holds at first.
LEMMA IInvInit == Init => IInv
<1> SUFFICES ASSUME Init, TypeOK PROVE IInv
  BY TypeInit
<1>1. ImageInOrder(LoadedImage(nvs, 1))
  BY InitialInOrder DEF Init
<1>2. pc = "idle"
  BY DEF Init
<1>3. PICK i \in LogId : LET k == LoadedImage(nvs, i)
                         IN  /\ ring = k.recs.slots /\ head = k.head /\ n = k.n
                             /\ total = k.total /\ id = k.id
  BY DEF Init
<1>4. RingNumbered
  BY <1>1, <1>3, LoadedSame DEF RingNumbered, ImageInOrder
<1> QED
  BY <1>1, <1>2, <1>4 DEF IInv, SaveInv, FlashInv, Keys

\* No step breaks it, when no save is torn and no put fails.
LEMMA IInvStep ==
  ASSUME Reliable, IInv, [Next]_vars
  PROVE  IInv'
<1> USE DEF IInv
<1>0. TypeOK'
  BY TypeStep
<1>1. ASSUME NEW c \in Contact, NEW ahead \in 0 .. 2, ContactEnds(c, (now + ahead) % Clock)
      PROVE  IInv'
  <2>1. InOrder(ring', head', n', total')
    BY <1>1, AddInOrder DEF ContactEnds, RingNumbered, TypeOK
  <2> QED
    BY <1>0, <1>1, <2>1 DEF ContactEnds, RingNumbered, SaveInv, FlashInv
<1>2. ASSUME Snapshot PROVE IInv'
  <2>1. img' = [ver |-> 3, recs |-> [layout |-> 3, slots |-> ring], head |-> head,
                n |-> n, total |-> total, id |-> id]
    BY <1>2 DEF Snapshot, ImageOf, Blob
  <2>2. ImageInOrder(img)' /\ img'.ver = 3 /\ img'.recs.layout = 3 /\ img'.id # 0
    BY <2>1 DEF ImageInOrder, RingNumbered, TypeOK, LogId
  <2>3. SaveInv' /\ FlashInv'
    BY <1>2, <2>2 DEF Snapshot, SaveInv, FlashInv, KeysBefore, Keys
  <2> QED
    BY <1>0, <1>2, <2>3 DEF Snapshot, RingNumbered
<1>3. CASE RxTick
  <2>1. CASE Due(now')
    BY <1>2, <1>3, <2>1 DEF RxTick
  <2>2. CASE ~Due(now')
    BY <1>0, <1>3, <2>2 DEF RxTick, ram, RingNumbered, SaveInv, FlashInv
  <2> QED
    BY <2>1, <2>2
<1>4. CASE RxLogFlush
  <2>1. CASE dirty
    BY <1>2, <1>4, <2>1 DEF RxLogFlush
  <2>2. CASE ~dirty
    BY <1>0, <1>4, <2>2 DEF RxLogFlush, ram, RingNumbered, SaveInv, FlashInv, Keys
  <2> QED
    BY <2>1, <2>2
<1>5. CASE ClearAll
  <2>1. RingNumbered'
    BY <1>5, EmptyInOrder DEF ClearAll, RingNumbered
  <2> QED
    BY <1>0, <1>5, <2>1 DEF ClearAll, SaveInv, FlashInv, Keys
<1>6. CASE LogWrite
  <2>1. RingNumbered'
    BY <1>6 DEF LogWrite, Put, ram, RingNumbered
  <2>2. ASSUME NEW key \in Keys, NEW next \in Keys \cup {"idle"}, Put(key, next)
        PROVE  /\ pc = key /\ pc' = next /\ img' = img
               /\ nvs'[key] = img[key]
               /\ \A other \in Keys : other # key => nvs'[other] = nvs[other]
    <3>1. nvs' = [nvs EXCEPT ![key] = img[key]]
      BY <2>2 DEF Put, Reliable
    <3> QED
      BY <2>2, <3>1 DEF Put, TypeOK, Image, Keys
  <2>3. CASE Put("id", "idle")
    <3>1. /\ nvs'.ver = 3 /\ nvs'.recs = img.recs /\ nvs'.head = img.head
          /\ nvs'.n = img.n /\ nvs'.total = img.total
      BY <2>2, <2>3 DEF SaveInv, KeysBefore, Keys
    <3>2. /\ nvs' \in Image /\ nvs'.recs.layout = 3 /\ ImageInOrder(img) /\ pc' = "idle"
      BY <1>0, <2>2, <2>3, <3>1 DEF SaveInv, TypeOK, Keys
    <3>3. /\ LoadedImage(nvs', 1).recs.slots = img.recs.slots
          /\ LoadedImage(nvs', 1).head = img.head
          /\ LoadedImage(nvs', 1).n = img.n
          /\ LoadedImage(nvs', 1).total = img.total
      BY <3>1, <3>2, LoadedSaved
    <3>4. ImageInOrder(LoadedImage(nvs', 1))
      BY <3>2, <3>3 DEF ImageInOrder
    <3> QED
      BY <1>0, <2>1, <3>2, <3>4 DEF SaveInv, FlashInv, Keys
  <2>4. CASE ~Put("id", "idle")
    <3>1. PICK key \in Keys, next \in Keys :
             Put(key, next) /\ KeysBefore(next) = KeysBefore(key) \cup {key}
      BY <1>6, <2>4 DEF LogWrite, KeysBefore, Keys
    <3>2. KeysBefore(key) \subseteq Keys \ {key}
      BY DEF KeysBefore, Keys
    <3>3. \A other \in KeysBefore(key) : nvs'[other] = img[other]
      BY <2>2, <3>1, <3>2 DEF SaveInv
    <3>4. pc = key /\ pc' = next /\ img' = img /\ nvs'[key] = img[key]
      BY <2>2, <3>1
    <3>5. \A other \in KeysBefore(pc') : nvs'[other] = img'[other]
      BY <3>1, <3>3, <3>4
    <3> QED
      BY <1>0, <2>1, <3>4, <3>5 DEF SaveInv, FlashInv, ImageInOrder
  <2> QED
    BY <2>3, <2>4
<1>7. CASE PowerCut
  <2>1. pc \notin Keys /\ pc' = "idle" /\ nvs' = nvs
    BY <1>7 DEF PowerCut, Reliable, Keys
  <2>2. PICK i \in LogId : LET k == LoadedImage(nvs, i)
                           IN  /\ ring' = k.recs.slots /\ head' = k.head /\ n' = k.n
                               /\ total' = k.total /\ id' = k.id
    BY <1>7 DEF PowerCut
  <2>3. RingNumbered'
    BY <2>1, <2>2, LoadedSame DEF FlashInv, ImageInOrder, RingNumbered
  <2> QED
    BY <1>0, <2>1, <2>3 DEF SaveInv, FlashInv, Keys
<1>8. CASE UNCHANGED vars
  BY <1>0, <1>8 DEF vars, RingNumbered, SaveInv, FlashInv
<1> QED
  BY <1>1, <1>3, <1>4, <1>5, <1>6, <1>7, <1>8 DEF Next, DecodeTask, LoopTask

\* It says what is wanted.
LEMMA IInvNumbered == IInv => RingNumbered
  BY DEF IInv

\* It holds always.
LEMMA IInvAlways ==
  ASSUME Reliable
  PROVE  Spec => []IInv
<1>1. IInv /\ [Next]_vars => IInv'
  BY IInvStep
<1> QED
  BY <1>1, IInvInit, PTL DEF Spec

\* The k-th held record, oldest first, is number total - n + k in every
\* state, when no save is torn and no put fails (log_load's comment).
THEOREM RecordsNumbered ==
  ASSUME Reliable
  PROVE  Spec => []RingNumbered
<1>1. Spec => []IInv
  BY IInvAlways
<1>2. IInv => RingNumbered
  BY IInvNumbered
<1>3. QED
  BY <1>1, <1>2, PTL

-----------------------------------------------------------------------------
(***************************************************************************)
(* MatchLog implements DetectorLog.                                        *)
(***************************************************************************)

\* The history f with c as record t, without the records before o.
Extended(f, o, t, c) == [s \in o .. t |-> IF s = t THEN c ELSE f[s]]

\* log_add extends the history by one record and drops what no longer fits.
LEMMA AddRec ==
  ASSUME TypeOK, RingNumbered, NEW c \in Contact, NEW stamp, ContactEnds(c, stamp)
  PROVE  RecOf(ring', head', n', total')
           = Extended(RecOf(ring, head, n, total), total' - n', total, c)
<1>0. /\ ring \in [Slot -> Rec] /\ head \in Slot /\ n \in 0 .. LogMax /\ total \in Nat
      /\ n <= total
      /\ ring' = [ring EXCEPT ![head] = [seq |-> total, who |-> c]]
      /\ head' = (head + 1) % LogMax
      /\ n' = (IF n < LogMax THEN n + 1 ELSE n)
      /\ total' = total + 1
  BY DEF TypeOK, RingNumbered, InOrder, ContactEnds
<1> USE <1>0
<1>1. ring'[head].who = c /\ \A s \in Slot : s # head => ring'[s] = ring[s]
  OBVIOUS
<1>2. n' \in 1 .. LogMax /\ total + 1 - 1 = total
  OBVIOUS
<1>3. ASSUME NEW s \in total' - n' .. total
      PROVE  ring'[At(head', n', s - (total' - n'))].who
               = IF s = total THEN c ELSE RecOf(ring, head, n, total)[s]
  <2>1. CASE s = total
    <3>1. s - (total' - n') = n' - 1
      BY <2>1, <1>2
    <3>2. At(head', n', n' - 1) = head
      BY <1>2, AtNewest
    <3> QED
      BY <2>1, <3>1, <3>2, <1>1
  <2>2. CASE s # total
    <3>1. s \in total - n .. total - 1
      BY <2>2
    <3>2. RecOf(ring, head, n, total)[s] = ring[At(head, n, s - (total - n))].who
      BY <3>1 DEF RecOf
    <3>3. CASE n < LogMax
      <4>1. n' = n + 1 /\ s - (total' - n') = s - (total - n) /\ s - (total - n) \in 0 .. n - 1
        BY <3>1, <3>3
      <4>2. At(head', n + 1, s - (total - n)) = At(head, n, s - (total - n)) /\ At(head, n, s - (total - n)) # head
        BY <4>1, <3>3, AtKept
      <4>3. At(head, n, s - (total - n)) \in Slot
        BY <4>1, AtSlot
      <4> QED
        BY <2>2, <3>2, <4>1, <4>2, <4>3, <1>1
    <3>4. CASE n = LogMax
      <4> DEFINE i == s - (total + 1 - LogMax)
      <4>1. /\ n' = LogMax /\ s - (total' - n') = i /\ s - (total - n) = i + 1
            /\ i \in 0 .. LogMax - 2 /\ i + 1 \in 0 .. LogMax - 1 /\ LogMax \in 0 .. LogMax
        BY <2>2, <3>4
      <4> HIDE DEF i
      <4>2. At(head', LogMax, i) = At(head, LogMax, i + 1) /\ At(head, LogMax, i + 1) # head
        BY <4>1, AtShifted
      <4>3. At(head, LogMax, i + 1) \in Slot
        BY <4>1, AtSlot
      <4> QED
        BY <2>2, <3>2, <3>4, <4>1, <4>2, <4>3, <1>1
    <3> QED
      BY <3>3, <3>4
  <2> QED
    BY <2>1, <2>2
<1>4. RecOf(ring', head', n', total')
        = [s \in total' - n' .. total |-> ring'[At(head', n', s - (total' - n'))].who]
  BY <1>2 DEF RecOf
<1> QED
  BY <1>3, <1>4 DEF Extended

\* A ring in order is a history of contacts.
LEMMA RecType ==
  ASSUME NEW r, NEW h \in Slot, NEW k \in 0 .. LogMax, NEW t \in Nat, InOrder(r, h, k, t)
  PROVE  RecOf(r, h, k, t) \in [t - k .. t - 1 -> Contact]
<1>1. ASSUME NEW s \in t - k .. t - 1
      PROVE  r[At(h, k, s - (t - k))].who \in Contact
  <2>1. s - (t - k) \in 0 .. k - 1
    OBVIOUS
  <2> QED
    BY <2>1 DEF InOrder
<1> QED
  BY <1>1 DEF RecOf

\* What a board starts with is what an older firmware may have left.
LEMMA ImplementsInit == Init => DL!InitLog
<1> SUFFICES ASSUME Init, TypeOK PROVE DL!InitLog
  BY TypeInit
<1> DEFINE f == LoadedImage(nvs, 0)
<1>1. nvs = FreshNvs \/ (nvs \in V1Nvs /\ V1Image(nvs))
  BY DEF Init
<1>2. nvs \in Image /\ nvs.id = 0 /\ pc \notin Keys
  BY <1>1, InitialImages DEF Init, Keys
<1>3. PICK i \in LogId : LET k == LoadedImage(nvs, i)
                         IN  /\ ring = k.recs.slots /\ head = k.head /\ n = k.n
                             /\ total = k.total /\ id = k.id
  BY DEF Init
<1>4. /\ f.recs.slots = ring /\ f.head = head /\ f.n = n /\ f.total = total
  BY <1>3, LoadedSame
<1>5. InOrder(ring, head, n, total)
  BY <1>1, <1>4, InitialInOrder, LoadedSame DEF ImageInOrder
<1>6. f.id = 0
  BY <1>2 DEF LoadedImage, ImageOf
<1>7. total \in 0 .. MaxTotal
  <2>1. CASE nvs = FreshNvs
    BY <2>1, <1>4, MaxTotalAssumption DEF FreshNvs, LoadedImage, ImageOf, Usable, Blob
  <2>2. CASE nvs \in V1Nvs /\ V1Image(nvs)
    <3>1. nvs.total \in 0 .. MaxTotal /\ nvs.n <= MaxTotal /\ nvs.n \in 0 .. LogMax /\ nvs.ver = 1 /\ nvs.recs.layout = 1
      BY <2>2 DEF V1Nvs, V1Image, ImageOf, Blob
    <3>2. total = LoadedTotal(nvs)
      BY <3>1, <1>4 DEF LoadedImage, ImageOf, Usable, Blob
    <3> QED
      BY <3>1, <3>2, MaxTotalAssumption DEF LoadedTotal
  <2> QED
    BY <1>1, <2>1, <2>2
<1>8. SavedOf(nvs) = [id |-> 0, total |-> total, oldest |-> total - n, rec |-> RecOf(ring, head, n, total)]
  BY <1>4, <1>6 DEF SavedOf
<1>9. total - n \in 0 .. total /\ total - (total - n) <= LogMax
  BY <1>5, <1>7, MaxTotalAssumption DEF InOrder, TypeOK
<1>10. RecOf(ring, head, n, total) \in [total - n .. total - 1 -> Contact]
  BY <1>5, RecType DEF TypeOK
<1> QED
  BY <1>2, <1>7, <1>8, <1>9, <1>10 DEF DL!InitLog, DL!InitImage, DL!LogId, LogId, TypeOK

\* Every step is one of the log's, or changes nothing of it: a contact that
\* ends, a snapshot (from which on the save counts), a clear, a restart.
LEMMA ImplementsStep ==
  ASSUME Reliable, IInv, [Next]_vars
  PROVE  [DL!LogNext]_(DL!logVars)
<1> USE DEF IInv
<1> DEFINE rec   == RecOf(ring, head, n, total)
           saved == SavedOf(IF pc \in Keys THEN img ELSE nvs)
<1>1. ASSUME NEW c \in Contact, NEW ahead \in 0 .. 2, ContactEnds(c, (now + ahead) % Clock)
      PROVE  DL!End(c)
  <2>1. n <= total /\ ring \in [Slot -> Rec] /\ head \in Slot /\ n \in 0 .. LogMax /\ total \in Nat
    BY DEF RingNumbered, InOrder, TypeOK
  <2>2. /\ ring' = [ring EXCEPT ![head] = [seq |-> total, who |-> c]]
        /\ head' = (head + 1) % LogMax
        /\ n' = (IF n < LogMax THEN n + 1 ELSE n)
        /\ total' = total + 1
    BY <1>1 DEF ContactEnds
  <2>3. RecOf(ring', head', n', total') = Extended(rec, total' - n', total, c)
    BY <1>1, AddRec
  <2>4. total' - n' = IF total - (total - n) = LogMax THEN total - n + 1 ELSE total - n
    BY <2>1, <2>2
  <2>5. total + 1 - n' = total' - n'
    BY <2>1, <2>2
  <2> QED
    BY <1>1, <2>3, <2>4, <2>5 DEF DL!End, ContactEnds, Extended
<1>2. ASSUME Snapshot PROVE DL!Save
  <2>1. /\ img' = [ver |-> 3, recs |-> [layout |-> 3, slots |-> ring], head |-> head,
                   n |-> n, total |-> total, id |-> id]
        /\ img' \in Image
    BY <1>2 DEF Snapshot, ImageOf, Blob, TypeOK, Image, LogId
  <2>2. /\ LoadedImage(img', 0).recs.slots = ring /\ LoadedImage(img', 0).head = head
        /\ LoadedImage(img', 0).n = n /\ LoadedImage(img', 0).total = total
        /\ LoadedImage(img', 0).id = id
    BY <2>1, LoadedSaved
  <2>3. SavedOf(img') = [id |-> id, total |-> total, oldest |-> total - n, rec |-> rec]
    BY <2>2 DEF SavedOf
  <2> QED
    BY <1>2, <2>3 DEF Snapshot, DL!Save, DL!Image, Keys
<1>3. CASE RxTick
  <2>1. CASE Due(now')
    <3>1. Snapshot
      BY <1>3, <2>1 DEF RxTick
    <3> QED
      BY <1>2, <3>1 DEF DL!LogNext
  <2>2. CASE ~Due(now')
    <3>1. UNCHANGED ram /\ nvs' = nvs /\ img' = img /\ pc' = pc
      BY <1>3, <2>2 DEF RxTick
    <3> QED
      BY <3>1 DEF ram, DL!logVars
  <2> QED
    BY <2>1, <2>2
<1>4. CASE RxLogFlush
  <2>1. CASE dirty
    BY <1>2, <1>4, <2>1 DEF RxLogFlush, DL!LogNext
  <2>2. CASE ~dirty
    BY <1>4, <2>2 DEF RxLogFlush, ram, DL!logVars, Keys
  <2> QED
    BY <2>1, <2>2
<1>5. CASE ClearAll
  <2>1. RecOf(ring', head', n', total') = [s \in 0 .. -1 |-> s] /\ total' - n' = 0
    BY <1>5 DEF ClearAll, RecOf
  <2> QED
    BY <1>5, <2>1 DEF ClearAll, DL!LogNext, DL!Clear, DL!NoRecords, DL!NextId, NextId, Keys
<1>6. CASE LogWrite
  <2>1. UNCHANGED ram /\ img' = img /\ pc \in Keys
    BY <1>6 DEF LogWrite, Put, Keys
  <2>2. CASE pc' \in Keys
    BY <2>1, <2>2 DEF ram, DL!logVars
  <2>3. CASE pc' \notin Keys
    <3>1. Put("id", "idle")
      BY <1>6, <2>3 DEF LogWrite, Put, Keys
    <3>2. /\ nvs' = [nvs EXCEPT !["id"] = img["id"]] /\ pc = "id"
          /\ nvs'.id = img.id
      BY <3>1 DEF Put, Reliable, TypeOK, Image
    <3>3. /\ nvs'.ver = img.ver /\ nvs'.recs = img.recs /\ nvs'.head = img.head
          /\ nvs'.n = img.n /\ nvs'.total = img.total
      BY <3>2 DEF SaveInv, KeysBefore, Keys, TypeOK, Image
    <3>4. nvs' \in Image
      BY TypeStep DEF TypeOK
    <3>5. nvs' = img
      BY <3>2, <3>3, <3>4 DEF TypeOK, Image
    <3> QED
      BY <2>1, <2>3, <3>5 DEF ram, DL!logVars
  <2> QED
    BY <2>2, <2>3
<1>7. CASE PowerCut
  <2>1. pc \notin Keys /\ pc' \notin Keys /\ nvs' = nvs
    BY <1>7 DEF PowerCut, Reliable, Keys
  <2>2. PICK i \in LogId : LET k == LoadedImage(nvs, i)
                           IN  /\ ring' = k.recs.slots /\ head' = k.head /\ n' = k.n
                               /\ total' = k.total /\ id' = k.id
    BY <1>7 DEF PowerCut
  <2>3. /\ ring' = LoadedImage(nvs, 0).recs.slots /\ head' = LoadedImage(nvs, 0).head
        /\ n' = LoadedImage(nvs, 0).n /\ total' = LoadedImage(nvs, 0).total
    BY <2>2, LoadedSame
  <2>4. /\ saved.total = total' /\ saved.oldest = total' - n'
        /\ saved.rec = RecOf(ring', head', n', total')
        /\ saved.id = nvs.id
    BY <2>1, <2>3 DEF SavedOf, LoadedImage, ImageOf
  <2>5. id' = IF nvs.id = 0 THEN i ELSE nvs.id
    BY <2>2 DEF LoadedImage, ImageOf
  <2> QED
    BY <2>1, <2>4, <2>5 DEF DL!LogNext, DL!PowerCut, DL!LogId, LogId
<1>8. CASE UNCHANGED vars
  BY <1>8 DEF vars, DL!logVars
<1> QED
  BY <1>1, <1>3, <1>4, <1>5, <1>6, <1>7, <1>8 DEF Next, DecodeTask, LoopTask, DL!LogNext

\* The ring, its keys and its reload implement the history of DetectorLog,
\* when no save is torn and no put fails.
THEOREM Implements ==
  ASSUME Reliable
  PROVE  Spec => Refinement
<1>1. Spec => []IInv
  BY IInvAlways
<1>2. IInv /\ [Next]_vars => [DL!LogNext]_(DL!logVars)
  BY ImplementsStep
<1>3. Init => DL!InitLog
  BY ImplementsInit
<1> QED
  BY <1>1, <1>2, <1>3, PTL DEF Spec, Refinement, DL!LogSpec
-----------------------------------------------------------------------------
(***************************************************************************)
(* Saves come soon and are rare. What waits to be saved carries the moment *)
(* it began to wait (dirtyMs): the loop is `age` passes past it, or up to  *)
(* three before it, however often the clock has wrapped, and it has passed *)
(* no more often than that without flash being current. What does not wait *)
(* is in flash, or in the image being put there.                           *)
(***************************************************************************)
Current(k) == k = ImageOf(3, Blob(3, ring), head, n, total, id)

\* The clock a is g after the clock b; one of them may have wrapped.
After(a, b, g) == a = b + g \/ a = b + g - Clock \/ a = b + g + Clock

Age == -3 .. LogSave - 1

SavedInv ==
  /\ waiting <= LogSave + 2
  /\ pc \notin Keys /\ nvs.id # 0 => nvs.ver = 3 /\ nvs.recs.layout = 3
  /\ ~dirty => waiting = 0 /\ Current(IF pc \in Keys THEN img ELSE nvs)
  /\ dirty /\ dirtyMs # 0 =>
       \E g \in Age : After(now, dirtyMs, g) /\ waiting <= g + 3 /\ sinceSave >= g

\* The signed difference of two clocks is how far they are apart.
LEMMA SignedAfter ==
  ASSUME NEW a \in 0 .. Clock - 1, NEW b \in 0 .. Clock - 1, NEW g \in -3 .. LogSave, After(a, b, g)
  PROVE  Signed(a, b) = g
<1>1. Clock \div 2 \in Nat /\ 2 * (Clock \div 2) <= Clock /\ Clock <= 2 * (Clock \div 2) + 1 /\ Clock \in Nat
      /\ LogSave \in Nat /\ 0 < LogSave /\ 2 * LogSave + 4 <= Clock
  BY ClockAssumption
<1>2. PICK h : h = Clock \div 2
  OBVIOUS
<1>3. g + h \in 0 .. Clock - 1
  BY <1>1, <1>2
<1>4. \A x \in 0 .. Clock - 1 : x % Clock = x /\ (x + Clock) % Clock = x /\ (x - Clock) % Clock = x
  BY ClockAssumption
<1>5. a - b + h = g + h \/ a - b + h = (g + h) - Clock \/ a - b + h = (g + h) + Clock
  BY <1>1, <1>2 DEF After
<1>6. (a - b + h) % Clock = g + h
  BY <1>3, <1>4, <1>5
<1> QED
  BY <1>1, <1>2, <1>6 DEF Signed

\* The clock one pass on.
LEMMA NextPass ==
  ASSUME NEW t \in 0 .. Clock - 1
  PROVE  (t + 1) % Clock \in 0 .. Clock - 1 /\ After((t + 1) % Clock, t, 1)
<1>1. t + 1 \in 0 .. Clock /\ \A x \in 0 .. Clock - 1 : x % Clock = x
  BY ClockAssumption
<1>2. Clock % Clock = 0
  BY ClockAssumption
<1>3. CASE t + 1 < Clock
  BY <1>1, <1>3, ClockAssumption DEF After
<1>4. CASE t + 1 = Clock
  BY <1>2, <1>4, ClockAssumption DEF After
<1> QED
  BY <1>1, <1>3, <1>4, ClockAssumption

\* A stamp of a contact is at most three passes ahead, one of them that of
\* the stamp that may not be 0.
LEMMA Stamp ==
  ASSUME NEW t \in 0 .. Clock - 1, NEW ahead \in 0 .. 2
  PROVE  LET stamp == (t + ahead) % Clock
         IN  \E g \in -3 .. 0 : After(t, IF stamp = 0 THEN 1 ELSE stamp, g)
<1>1. PICK s : s = (t + ahead) % Clock
  OBVIOUS
<1>2. t + ahead \in Nat /\ t + ahead < 2 * Clock /\ Clock \in Nat
  BY ClockAssumption
<1>3. \A x \in 0 .. Clock - 1 : x % Clock = x /\ (x + Clock) % Clock = x
  BY ClockAssumption
<1>4. s = t + ahead \/ s = t + ahead - Clock
  <2>1. CASE t + ahead < Clock
    BY <1>1, <1>2, <1>3, <2>1
  <2>2. CASE ~(t + ahead < Clock)
    <3>1. t + ahead - Clock \in 0 .. Clock - 1 /\ (t + ahead - Clock) + Clock = t + ahead
      BY <1>2, <2>2
    <3> QED
      BY <1>1, <1>3, <3>1
  <2> QED
    BY <2>1, <2>2
<1>5. CASE s = 0
  <2>1. -ahead - 1 \in -3 .. 0 /\ After(t, 1, -ahead - 1)
    BY <1>2, <1>4, <1>5 DEF After
  <2> QED
    BY <1>1, <1>5, <2>1
<1>6. CASE s # 0
  <2>1. -ahead \in -3 .. 0 /\ After(t, s, -ahead)
    BY <1>2, <1>4 DEF After
  <2> QED
    BY <1>1, <1>6, <2>1
<1> QED
  BY <1>5, <1>6

\* A save that is due comes when what waits is LogSave passes old, or at once.
LEMMA DueAge ==
  ASSUME TypeOK, SavedInv, dirty, dirtyMs # 0, now' = (now + 1) % Clock
  PROVE  \E g \in Age : /\ After(now, dirtyMs, g) /\ waiting <= g + 3 /\ sinceSave >= g
                        /\ After(now', dirtyMs, g + 1) /\ (Due(now') <=> g = LogSave - 1)
<1>1. PICK g \in Age : After(now, dirtyMs, g) /\ waiting <= g + 3 /\ sinceSave >= g
  BY DEF SavedInv
<1>2. now \in 0 .. Clock - 1 /\ now' \in 0 .. Clock - 1 /\ After(now', now, 1) /\ dirtyMs \in 0 .. Clock - 1
  BY NextPass DEF TypeOK
<1>3. g \in Int /\ -3 <= g /\ g <= LogSave - 1 /\ g + 1 \in -3 .. LogSave
      /\ LogSave \in Nat /\ Clock \in Nat /\ 2 * LogSave + 4 <= Clock
  BY ClockAssumption DEF Age
<1>4. After(now', dirtyMs, g + 1)
  BY <1>1, <1>2, <1>3 DEF After
<1>5. Signed(now', dirtyMs) = g + 1
  BY <1>2, <1>3, <1>4, SignedAfter
<1>6. Due(now') <=> g = LogSave - 1
  BY <1>3, <1>5 DEF Due
<1> QED
  BY <1>1, <1>4, <1>6
LEMMA SavedInit == Init => SavedInv
<1> SUFFICES ASSUME Init
             PROVE  SavedInv
  OBVIOUS
<1>1. waiting = 0 /\ dirty = TRUE /\ dirtyMs = 0 /\ LogSave \in Nat
  BY ClockAssumption DEF Init
<1>2. nvs.id = 0
  BY DEF Init, FreshNvs, V1Nvs, ImageOf
<1> QED
  BY <1>1, <1>2 DEF SavedInv

\* The image that is taken is the log's.
LEMMA SnapshotSaved ==
  ASSUME Snapshot
  PROVE  SavedInv'
<1>1. pc' = "ver" /\ waiting' = 0 /\ dirty' = FALSE /\ Current(img)'
  BY DEF Snapshot, Current
<1>2. 0 <= LogSave + 2
  BY ClockAssumption
<1> QED
  BY <1>1, <1>2 DEF SavedInv, Keys

\* The last put leaves the image in flash.
LEMMA LastPut ==
  ASSUME Reliable, TypeOK, SaveInv, Put("id", "idle")
  PROVE  nvs' = img /\ pc \in Keys /\ pc' = "idle"
<1>1. nvs' = [nvs EXCEPT !["id"] = img["id"]] /\ pc = "id" /\ pc' = "idle"
  BY DEF Put, Reliable
<1>2. nvs.ver = img.ver /\ nvs.recs = img.recs /\ nvs.head = img.head /\ nvs.n = img.n /\ nvs.total = img.total
  BY <1>1 DEF SaveInv, KeysBefore, Keys
<1>3. nvs \in Image /\ img \in Image
  BY DEF TypeOK
<1>4. nvs' = [ver |-> img.ver, recs |-> img.recs, head |-> img.head, n |-> img.n, total |-> img.total, id |-> img.id]
  BY <1>1, <1>2, <1>3 DEF Image
<1>5. img = [ver |-> img.ver, recs |-> img.recs, head |-> img.head, n |-> img.n, total |-> img.total, id |-> img.id]
  BY <1>3 DEF Image
<1> QED
  BY <1>1, <1>4, <1>5 DEF Keys

\* What a power cut brings back is what flash has.
LEMMA CutSaved ==
  ASSUME Reliable, TypeOK, SavedInv, PowerCut
  PROVE  SavedInv'
<1>1. pc \notin Keys /\ pc' = "idle" /\ nvs' = nvs /\ dirty' = (nvs.id = 0) /\ dirtyMs' = 0 /\ waiting' = 0
  BY DEF PowerCut, Reliable, Keys
<1>2. CASE nvs.id # 0
  <2>1. nvs \in Image /\ nvs.ver = 3 /\ nvs.recs.layout = 3
    BY <1>1, <1>2 DEF SavedInv, TypeOK
  <2>2. ring' = nvs.recs.slots /\ head' = nvs.head /\ n' = nvs.n /\ total' = nvs.total /\ id' = nvs.id
    <3>1. PICK i \in LogId :
            LET k == LoadedImage(nvs, i)
            IN  ring' = k.recs.slots /\ head' = k.head /\ n' = k.n /\ total' = k.total /\ id' = k.id
      BY DEF PowerCut
    <3> QED
      BY <1>2, <2>1, <3>1, LoadedSaved
  <2>3. nvs.recs = [layout |-> 3, slots |-> nvs.recs.slots]
    BY <2>1 DEF Image
  <2>4. nvs = [ver |-> 3, recs |-> nvs.recs, head |-> nvs.head, n |-> nvs.n, total |-> nvs.total, id |-> nvs.id]
    BY <2>1 DEF Image
  <2>5. Current(nvs)'
    BY <1>1, <2>2, <2>3, <2>4 DEF Current, ImageOf, Blob
  <2> QED
    BY <1>1, <2>1, <2>5, ClockAssumption DEF SavedInv, Keys
<1>3. CASE nvs.id = 0
  <2>1. dirty'
    BY <1>1, <1>3, Zenon
  <2> QED
    BY <1>1, <1>3, <2>1, ClockAssumption DEF SavedInv, Keys
<1> QED
  BY <1>2, <1>3

\* A pass of the loop: what is not due is a pass older.
LEMMA PassSaved ==
  ASSUME TypeOK, SavedInv, RxTick
  PROVE  SavedInv' /\ (pc' # "idle" => dirtyMs = 0 \/ sinceSave >= LogSave - 1)
<1>1. pc = "idle" /\ now' = (now + 1) % Clock /\ LogSave \in Nat /\ 0 < LogSave
      /\ waiting \in 0 .. LogSave + 3 /\ sinceSave \in 0 .. LogSave
  BY ClockAssumption DEF RxTick, TypeOK
<1>2. CASE Due(now')
  <2>1. Snapshot /\ dirty
    BY <1>2 DEF RxTick, Due
  <2>2. dirtyMs # 0 => sinceSave >= LogSave - 1
    <3> SUFFICES ASSUME dirtyMs # 0
                 PROVE  sinceSave >= LogSave - 1
      OBVIOUS
    <3> QED
      BY <1>1, <1>2, <2>1, DueAge
  <2> QED
    BY <2>1, <2>2, SnapshotSaved
<1>3. CASE ~Due(now')
  <2>1. /\ UNCHANGED <<ring, head, n, total, id, dirty, dirtyMs, nvs, img, pc>>
        /\ sinceSave' = UpTo(LogSave, sinceSave)
        /\ waiting' = IF FlashCurrent THEN 0 ELSE UpTo(LogSave + 3, waiting)
    BY <1>3 DEF RxTick, ram
  <2>2. \A k : Current(k)' <=> Current(k)
    BY <2>1 DEF Current
  <2>3. CASE ~dirty
    <3>1. Current(nvs)
      BY <1>1, <2>3 DEF SavedInv, Keys
    <3>2. waiting' = 0
      BY <2>1, <3>1 DEF FlashCurrent, Current
    <3> QED
      BY <1>1, <2>1, <2>2, <2>3, <3>1, <3>2 DEF SavedInv, Keys
  <2>4. CASE dirty /\ dirtyMs # 0
    <3>1. PICK g \in Age : /\ waiting <= g + 3 /\ sinceSave >= g
                           /\ After(now', dirtyMs, g + 1) /\ g # LogSave - 1
      BY <1>1, <1>3, <2>4, DueAge
    <3>2. g \in Int /\ -3 <= g /\ g <= LogSave - 1 /\ g + 1 \in Age
      BY <1>1, <3>1 DEF Age
    <3>3. waiting' <= (g + 1) + 3 /\ waiting' <= LogSave + 2
      BY <1>1, <2>1, <3>1, <3>2 DEF UpTo
    <3>4. sinceSave' >= g + 1
      BY <1>1, <2>1, <3>1, <3>2 DEF UpTo
    <3>5. After(now, dirtyMs, g + 1)'
      BY <2>1, <3>1 DEF After
    <3> QED
      BY <1>1, <2>1, <2>4, <3>2, <3>3, <3>4, <3>5 DEF SavedInv
  <2>5. CASE dirty /\ dirtyMs = 0
    BY <1>3, <2>5 DEF Due
  <2> QED
    BY <1>1, <2>1, <2>3, <2>4, <2>5
<1> QED
  BY <1>2, <1>3

LEMMA SavedStep ==
  ASSUME Reliable, IInv, SavedInv, [Next]_vars
  PROVE  SavedInv'
<1> USE DEF IInv
<1>1. ASSUME NEW c \in Contact, NEW ahead \in 0 .. 2, ContactEnds(c, (now + ahead) % Clock)
      PROVE  SavedInv'
  <2>1. /\ UNCHANGED <<id, now, nvs, img, pc, sinceSave, waiting>> /\ dirty' = TRUE
        /\ dirtyMs' = IF dirty THEN dirtyMs ELSE IF (now + ahead) % Clock = 0 THEN 1 ELSE (now + ahead) % Clock
    BY <1>1 DEF ContactEnds
  <2>2. CASE dirty
    BY <2>1, <2>2 DEF SavedInv, After
  <2>3. CASE ~dirty
    <3>1. PICK g \in -3 .. 0 : After(now, dirtyMs', g)
      BY <2>1, <2>3, Stamp DEF TypeOK
    <3>2. g \in Age /\ waiting <= g + 3 /\ sinceSave >= g
      BY <2>3, ClockAssumption DEF SavedInv, Age, TypeOK
    <3>3. After(now, dirtyMs, g)'
      BY <2>1, <3>1 DEF After
    <3> QED
      BY <2>1, <3>2, <3>3 DEF SavedInv
  <2> QED
    BY <2>2, <2>3
<1>2. CASE RxTick
  BY <1>2, PassSaved
<1>3. CASE RxLogFlush
  <2>1. CASE dirty
    BY <1>3, <2>1, SnapshotSaved DEF RxLogFlush
  <2>2. CASE ~dirty
    BY <1>3, <2>2 DEF RxLogFlush, ram, SavedInv, Current, Keys
  <2> QED
    BY <2>1, <2>2
<1>4. CASE ClearAll
  BY <1>4 DEF ClearAll, SavedInv, Keys
<1>5. CASE LogWrite
  <2>1. UNCHANGED <<ring, head, n, total, id, dirty, dirtyMs, now, img, sinceSave, waiting>>
    BY <1>5 DEF LogWrite, Put, ram
  <2>2. CASE Put("id", "idle")
    <3>1. nvs' = img /\ pc \in Keys /\ pc' = "idle" /\ img.ver = 3 /\ img.recs.layout = 3
      BY <2>2, LastPut DEF SaveInv
    <3> QED
      BY <2>1, <3>1 DEF SavedInv, Current, After, Keys
  <2>3. CASE ~Put("id", "idle")
    <3>1. pc \in Keys /\ pc' \in Keys
      BY <1>5, <2>3 DEF LogWrite, Put, Keys
    <3> QED
      BY <2>1, <3>1 DEF SavedInv, Current, After
  <2> QED
    BY <2>2, <2>3
<1>6. CASE PowerCut
  BY <1>6, CutSaved
<1>7. CASE UNCHANGED vars
  BY <1>7 DEF vars, SavedInv, Current, After
<1> QED
  BY <1>1, <1>2, <1>3, <1>4, <1>5, <1>6, <1>7 DEF Next, DecodeTask, LoopTask

\* Only a pass of the loop moves its clock, but for a power cut, after which
\* the loop is idle.
LEMMA TimedSaveDue ==
  ASSUME TypeOK, SavedInv, [Next]_vars, TimedSave
  PROVE  dirtyMs = 0 \/ sinceSave >= LogSave - 1
<1>1. pc = "idle" /\ now' # now /\ pc' # "idle"
  BY DEF TimedSave
<1>2. RxTick
  <2>1. ~PowerCut
    BY <1>1 DEF PowerCut
  <2>2. ~DecodeTask
    BY <1>1 DEF DecodeTask, ContactEnds
  <2>3. ~RxLogFlush /\ ~ClearAll /\ ~LogWrite
    BY <1>1 DEF RxLogFlush, Snapshot, ClearAll, LogWrite, Put
  <2> QED
    BY <1>1, <2>1, <2>2, <2>3 DEF Next, LoopTask, vars
<1> QED
  BY <1>1, <1>2, PassSaved

\* Saves come soon and are rare, though a contact's stamp may be newer than
\* the loop's now and millis() wraps (log_due, rx_tick, log_add).
THEOREM SavesInTime ==
  ASSUME Reliable
  PROVE  Spec => SavedInTime
<1>1. Init => IInv /\ SavedInv
  BY IInvInit, SavedInit
<1>2. IInv /\ SavedInv /\ [Next]_vars => IInv' /\ SavedInv'
  BY IInvStep, SavedStep
<1>3. IInv /\ SavedInv /\ [Next]_vars /\ IInv' /\ SavedInv' =>
        [SavedSoon' /\ (TimedSave => dirtyMs = 0 \/ sinceSave >= LogSave - 1)]_vars
  BY TimedSaveDue DEF IInv, SavedInv, SavedSoon
<1> QED
  BY <1>1, <1>2, <1>3, PTL DEF Spec, SavedInTime

-----------------------------------------------------------------------------
\* The types of what is heard and kept: of the board's log, and of the phone's
\* receiver, contacts and records. A step of one leaves the others as they are.
THEOREM KeptTyped == KeptSpec => []KeptTypeOK
<1>1. KeptInit => Init /\ RxInit /\ ContactInit /\ HistInit
  BY DEF KeptInit
<1>2. [KeptNext]_<<vars, phoneVars, part>> => [Next]_vars /\ [RxNext]_rxVars /\ [ContactNext]_contactVars /\ [HistNext]_histVars
  BY DEF KeptNext, phoneVars
<1>3. KeptSpec => Spec /\ RxSpec /\ ContactSpec /\ HistSpec
  BY <1>1, <1>2, PTL DEF KeptSpec, Spec, RxSpec, ContactSpec, HistSpec
<1>4. TypeOK /\ RxTypeOK /\ ContactTypeOK /\ HistTypeOK => KeptTypeOK
  BY DEF KeptTypeOK
<1> QED
  BY <1>3, <1>4, TypeCorrect, RxTyped, ContactsTyped, HistoryTyped, PTL

=============================================================================
