------------------------------ MODULE AirProofs ------------------------------
(***************************************************************************)
(* Proofs about what a receiver makes of what is in the air, and the test   *)
(* transmitter puts there (the parts MCAir runs together).                  *)
(***************************************************************************)
EXTENDS MCAir, FiniteSetTheorems, SequenceTheorems, WellFoundedInduction, TLAPS

-----------------------------------------------------------------------------
(***************************************************************************)
(* HomePosition: that a board that loses its power has a centre near where *)
(* it was (HomeStored), for every road, distance, interval, range of       *)
(* millis() and number of power cuts.                                      *)
(*                                                                         *)
(* The argument: between two calls of rx_set_home what the check takes for  *)
(* the stored position is the stored position, and the time it knows of is  *)
(* when flash was written; what a fix that is not saved is compared with is *)
(* then what a restart would find.                                         *)
(***************************************************************************)
\* Places are places, records records, and nothing is later than now; a call of
\* rx_set_home is of this hour.
FixPlace == (Int \X Int) \union {Unset}

Calls == {"none", "check", "put", "putLon", "note"}

RecordsOK == setting \in [fix : FixPlace, at : Nat, pc : Calls] /\ lastFix \in [fix : FixPlace, at : Nat]

PlacesOK ==
  /\ stored \in FixPlace /\ (stored = Unset <=> writtenAt = Unset)
  /\ setting.pc # "none" => setting.fix \in FixPlace /\ setting.fix # Unset

HoursOK ==
  /\ hour \in Nat /\ lastFix.at \in Nat /\ lastFix.at <= hour
  /\ setting.pc # "none" => setting.at = hour

WrittenOK == writtenAt # Unset => writtenAt \in Nat /\ writtenAt <= hour

\* What the check knows is so, but while a save is under way.
KnowsStored ==
  /\ setting.pc \in {"none", "check", "put"} => saved = stored /\ savedAt \in {writtenAt, Unset}
  /\ setting.pc = "putLon" => (saved = Unset <=> stored = Unset)
  /\ setting.pc = "note" => stored = setting.fix /\ writtenAt = hour

\* What the put of the longitude completes.
HalfPut ==
  setting.pc = "putLon" /\ stored # Unset => stored[1] = setting.fix[1]

HomeInv == RecordsOK /\ PlacesOK /\ HoursOK /\ WrittenOK /\ KnowsStored /\ HalfPut /\ HomeStored

-----------------------------------------------------------------------------
LEMMA HomeValues ==
  /\ MoveOf \in Nat /\ SaveEvery \in Nat \ {0} /\ Wrap \in Nat \ {0}
  /\ Road \subseteq FixPlace /\ Unset \notin Road /\ Unset \in FixPlace /\ Unset \notin Nat
BY HomeAssumption DEF FixPlace

LEMMA HomeInitially == HomeInit => HomeInv
BY HomeValues DEF HomeInit, HomeInv, RecordsOK, Calls, PlacesOK, HoursOK, WrittenOK, KnowsStored, HalfPut, HomeStored, Near, Between, Resting

\* A time less than half the range ago is read as it is.
LEMMA ElapsedIs ==
  ASSUME NEW from \in Nat, hour \in Nat, from <= hour, 2 * (hour - from) < Wrap, Wrap \in Nat \ {0}
  PROVE  Elapsed(from) = hour - from
<1>1. hour - from \in 0 .. Wrap - 1
  OBVIOUS
<1>2. (hour - from) % Wrap = hour - from
  BY <1>1
<1> QED
  BY <1>2 DEF Elapsed

\* A fix that is not saved is near what is stored, or soon after.
LEMMA NotSavedIsStored ==
  ASSUME HomeInv, setting.pc = "check", ~MustSave
  PROVE  /\ stored # Unset
         /\ \/ Near(setting.fix, stored, MoveOf)
            \/ hour - writtenAt < SaveEvery
            \/ 2 * (hour - writtenAt) >= Wrap
<1>1. saved = stored /\ stored # Unset /\ savedAt \in {writtenAt, Unset} /\ writtenAt \in Nat /\ writtenAt <= hour /\ hour \in Nat
  BY DEF HomeInv, RecordsOK, Calls, PlacesOK, HoursOK, WrittenOK, KnowsStored, MustSave
<1>2. CASE Near(setting.fix, stored, MoveOf)
  BY <1>1, <1>2
<1>3. CASE ~Near(setting.fix, stored, MoveOf) /\ 2 * (hour - writtenAt) < Wrap
  <2>1. savedAt = writtenAt /\ ~(Elapsed(writtenAt) >= SaveEvery)
    BY <1>1, <1>3 DEF MustSave
  <2>2. Elapsed(writtenAt) = hour - writtenAt
    BY <1>1, <1>3, ElapsedIs, HomeValues
  <2> QED
    BY <1>1, <2>1, <2>2, HomeValues
<1> QED
  BY <1>1, <1>2, <1>3, HomeValues

\* What is stored, and was asked for, stays; a save is at most begun.
LEMMA StoredStays ==
  ASSUME HomeStored, UNCHANGED <<stored, writtenAt, lastFix>>, setting.pc # "putLon"
  PROVE  HomeStored'
BY DEF HomeStored, Near, Between

LEMMA HomeKept ==
  ASSUME RecordsOK, PlacesOK, HoursOK, WrittenOK, KnowsStored, HalfPut, HomeStored, HomeNext
  PROVE  HomeInv'
<1> USE HomeValues DEF HomeInv
<1>1. CASE SetHome
  <2>1. PICK p \in Road : setting' = [fix |-> p, at |-> hour, pc |-> "check"]
    BY <1>1 DEF SetHome
  <2>2. setting.pc = "none" /\ UNCHANGED <<saved, savedAt, stored, lastFix, writtenAt, hour>>
    BY <1>1 DEF SetHome
  <2>3. RecordsOK' /\ PlacesOK' /\ HoursOK' /\ WrittenOK'
    <3>1. RecordsOK'
      BY <2>1, <2>2 DEF RecordsOK, Calls, PlacesOK, HoursOK
    <3>2. PlacesOK'
      BY <2>1, <2>2 DEF PlacesOK
    <3>3. HoursOK'
      BY <2>1, <2>2 DEF HoursOK
    <3>4. WrittenOK'
      BY <2>1, <2>2 DEF HoursOK, WrittenOK
    <3> QED
      BY <3>1, <3>2, <3>3, <3>4
  <2>4. KnowsStored' /\ HalfPut'
    BY <2>1, <2>2 DEF KnowsStored, HalfPut
  <2> QED
    BY <2>2, <2>3, <2>4, StoredStays
<1>2. CASE CheckHome /\ MustSave
  <2>1. /\ setting' = [setting EXCEPT !.pc = "put"] /\ setting.pc = "check"
        /\ UNCHANGED <<saved, savedAt, stored, lastFix, writtenAt, hour>>
    BY <1>2 DEF CheckHome
  <2>2. setting' = [fix |-> setting.fix, at |-> setting.at, pc |-> "put"]
    BY <2>1 DEF RecordsOK
  <2>3. RecordsOK' /\ PlacesOK' /\ HoursOK' /\ WrittenOK'
    <3>1. RecordsOK'
      BY <2>1, <2>2 DEF RecordsOK, Calls, PlacesOK, HoursOK
    <3>2. PlacesOK'
      BY <2>1, <2>2 DEF PlacesOK
    <3>3. HoursOK'
      BY <2>1, <2>2 DEF HoursOK
    <3>4. WrittenOK'
      BY <2>1, <2>2 DEF HoursOK, WrittenOK
    <3> QED
      BY <3>1, <3>2, <3>3, <3>4
  <2>4. KnowsStored' /\ HalfPut'
    BY <2>1, <2>2 DEF KnowsStored, HalfPut
  <2> QED
    BY <2>1, <2>3, <2>4, StoredStays
<1>3. CASE CheckHome /\ ~MustSave
  <2>1. /\ setting' = Resting /\ lastFix' = [fix |-> setting.fix, at |-> setting.at] /\ setting.pc = "check"
        /\ UNCHANGED <<saved, savedAt, stored, writtenAt, hour>>
    BY <1>3 DEF CheckHome, Done
  <2>2. RecordsOK' /\ PlacesOK' /\ HoursOK' /\ WrittenOK'
    <3>1. RecordsOK'
      BY <2>1 DEF RecordsOK, Calls, PlacesOK, HoursOK, Resting
    <3>2. PlacesOK'
      BY <2>1 DEF PlacesOK, Resting
    <3>3. HoursOK'
      BY <2>1 DEF HoursOK, Resting
    <3>4. WrittenOK'
      BY <2>1 DEF HoursOK, WrittenOK, Resting
    <3> QED
      BY <3>1, <3>2, <3>3, <3>4
  <2>3. KnowsStored' /\ HalfPut'
    BY <2>1 DEF KnowsStored, HalfPut, Resting
  <2>4. lastFix'.fix = setting.fix /\ lastFix'.at = hour
    BY <2>1 DEF PlacesOK, HoursOK, WrittenOK
  <2>5. HomeStored'
    BY <1>3, <2>1, <2>4, NotSavedIsStored DEF HomeStored, Near, Between
  <2> QED
    BY <2>2, <2>3, <2>5
<1>4. CASE PutHome /\ setting.pc = "put"
  <2>1. /\ stored' = IF stored = Unset THEN Unset ELSE <<setting.fix[1], stored[2]>>
        /\ setting' = [setting EXCEPT !.pc = "putLon"]
        /\ UNCHANGED <<saved, savedAt, lastFix, writtenAt, hour>>
    BY <1>4 DEF PutHome
  <2>2. setting' = [fix |-> setting.fix, at |-> setting.at, pc |-> "putLon"]
    BY <2>1 DEF RecordsOK
  <2>3. stored # Unset => stored' \in FixPlace /\ stored' # Unset
    <3>1. setting.fix \in Int \X Int
      BY <1>4 DEF PlacesOK, FixPlace
    <3>2. stored # Unset => stored \in Int \X Int
      BY DEF PlacesOK, FixPlace
    <3>3. stored # Unset => <<setting.fix[1], stored[2]>> \in Int \X Int
      BY <3>1, <3>2
    <3> QED
      BY <2>1, <3>3, HomeAssumption DEF FixPlace
  <2>4. RecordsOK' /\ PlacesOK' /\ HoursOK' /\ WrittenOK'
    <3>1. RecordsOK'
      BY <2>1, <2>2, <2>3, <1>4 DEF RecordsOK, Calls, PlacesOK, HoursOK
    <3>2. PlacesOK'
      BY <2>1, <2>2, <2>3, <1>4 DEF PlacesOK
    <3>3. HoursOK'
      BY <2>1, <2>2, <2>3, <1>4 DEF HoursOK
    <3>4. WrittenOK'
      BY <2>1, <2>2, <2>3, <1>4 DEF HoursOK, WrittenOK
    <3> QED
      BY <3>1, <3>2, <3>3, <3>4
  <2>5. KnowsStored'
    <3>1. saved = stored
      BY <1>4 DEF KnowsStored
    <3>2. saved' = Unset <=> stored' = Unset
      BY <2>1, <2>3, <3>1
    <3> QED
      BY <2>2, <3>2 DEF KnowsStored
  <2>6. HalfPut'
    BY <2>1, <2>2 DEF HalfPut
  <2>7. HomeStored'
    BY <2>2 DEF HomeStored
  <2> QED
    BY <2>4, <2>5, <2>6, <2>7
<1>5. CASE PutHome /\ setting.pc = "putLon"
  <2>1. setting.fix \in Int \X Int /\ setting.fix \in FixPlace /\ setting.fix # Unset
    BY <1>5 DEF PlacesOK, FixPlace
  <2>2. /\ stored' = <<IF stored = Unset THEN setting.fix[1] ELSE stored[1], setting.fix[2]>>
        /\ setting' = [setting EXCEPT !.pc = "note"] /\ writtenAt' = hour
        /\ UNCHANGED <<saved, savedAt, lastFix, hour>>
    BY <1>5 DEF PutHome
  <2>3. stored' = setting.fix
    <3>1. stored # Unset => stored[1] = setting.fix[1]
      BY <1>5, <2>1 DEF HalfPut
    <3> QED
      BY <2>1, <2>2, <3>1
  <2>4. setting' = [fix |-> setting.fix, at |-> setting.at, pc |-> "note"]
    BY <2>2 DEF RecordsOK
  <2>5. RecordsOK' /\ PlacesOK' /\ HoursOK' /\ WrittenOK'
    <3>1. RecordsOK'
      BY <1>5, <2>1, <2>2, <2>3, <2>4 DEF RecordsOK, Calls, PlacesOK, HoursOK
    <3>2. writtenAt' = hour /\ hour' = hour /\ hour \in Nat /\ hour # Unset
      BY <2>2 DEF HoursOK
    <3>3. PlacesOK'
      BY <2>1, <2>3, <2>4, <3>2 DEF PlacesOK
    <3>4. HoursOK'
      BY <1>5, <2>1, <2>2, <2>3, <2>4 DEF HoursOK
    <3>5. WrittenOK'
      BY <3>2 DEF WrittenOK
    <3> QED
      BY <3>1, <3>3, <3>4, <3>5
  <2>6. KnowsStored' /\ HalfPut'
    BY <2>2, <2>3, <2>4 DEF KnowsStored, HalfPut
  <2>7. HomeStored'
    <3>1. lastFix'.at - writtenAt' < SaveEvery
      BY <2>2 DEF HoursOK
    <3> QED
      BY <2>1, <2>3, <3>1 DEF HomeStored
  <2> QED
    BY <2>5, <2>6, <2>7
<1>6. CASE NoteHome
  <2>1. /\ setting' = Resting /\ lastFix' = [fix |-> setting.fix, at |-> setting.at]
        /\ saved' = setting.fix /\ savedAt' = setting.at /\ setting.pc = "note"
        /\ UNCHANGED <<stored, writtenAt, hour>>
    BY <1>6 DEF NoteHome, Done
  <2>2. saved' = stored /\ savedAt' = writtenAt /\ writtenAt = hour /\ setting.at = hour
    BY <2>1 DEF PlacesOK, HoursOK, WrittenOK, KnowsStored
  <2>3. RecordsOK' /\ PlacesOK' /\ HoursOK' /\ WrittenOK'
    <3>1. RecordsOK'
      BY <2>1, <2>2 DEF RecordsOK, Calls, PlacesOK, HoursOK, Resting
    <3>2. PlacesOK'
      BY <2>1, <2>2 DEF PlacesOK, Resting
    <3>3. HoursOK'
      BY <2>1, <2>2 DEF HoursOK, Resting
    <3>4. WrittenOK'
      BY <2>1, <2>2 DEF HoursOK, WrittenOK, Resting
    <3> QED
      BY <3>1, <3>2, <3>3, <3>4
  <2>4. KnowsStored' /\ HalfPut'
    BY <2>1, <2>2 DEF KnowsStored, HalfPut, Resting
  <2>5. HomeStored'
    <3>1. lastFix'.at - writtenAt' < SaveEvery
      BY <2>1, <2>2 DEF HoursOK
    <3>2. stored' # Unset
      BY <2>1, <2>2 DEF PlacesOK
    <3> QED
      BY <3>1, <3>2 DEF HomeStored
  <2> QED
    BY <2>3, <2>4, <2>5
<1>7. CASE CutHome
  <2>1. /\ saved' = stored /\ savedAt' = Unset /\ setting' = Resting /\ lastFix' = [fix |-> Unset, at |-> 0]
        /\ UNCHANGED <<stored, writtenAt, hour>>
    BY <1>7 DEF CutHome
  <2>2. RecordsOK' /\ PlacesOK' /\ HoursOK' /\ WrittenOK'
    <3>1. RecordsOK'
      BY <2>1 DEF RecordsOK, Calls, PlacesOK, HoursOK, Resting
    <3>2. PlacesOK'
      BY <2>1 DEF PlacesOK, Resting
    <3>3. HoursOK'
      BY <2>1 DEF HoursOK, Resting
    <3>4. WrittenOK'
      BY <2>1 DEF HoursOK, WrittenOK, Resting
    <3> QED
      BY <3>1, <3>2, <3>3, <3>4
  <2>3. KnowsStored' /\ HalfPut' /\ HomeStored'
    BY <2>1 DEF KnowsStored, HalfPut, HomeStored, Resting
  <2> QED
    BY <2>2, <2>3
<1>8. CASE HomeTick
  <2>1. setting.pc = "none" /\ hour' = hour + 1 /\ UNCHANGED <<saved, savedAt, stored, setting, lastFix, writtenAt>>
    BY <1>8 DEF HomeTick
  <2>2. RecordsOK' /\ PlacesOK' /\ HoursOK' /\ WrittenOK'
    <3>1. RecordsOK'
      BY <2>1 DEF RecordsOK, Calls, PlacesOK, HoursOK
    <3>2. PlacesOK'
      BY <2>1 DEF PlacesOK
    <3>3. HoursOK'
      BY <2>1 DEF HoursOK
    <3>4. WrittenOK'
      BY <2>1 DEF HoursOK, WrittenOK
    <3> QED
      BY <3>1, <3>2, <3>3, <3>4
  <2>3. KnowsStored' /\ HalfPut'
    BY <2>1 DEF KnowsStored, HalfPut
  <2> QED
    BY <2>1, <2>2, <2>3, StoredStays
<1> QED
  BY <1>1, <1>2, <1>3, <1>4, <1>5, <1>6, <1>7, <1>8 DEF HomeNext, PutHome, CheckHome

\* The position in flash is that of the last fix but for the distance and the
\* interval of home_save_maybe, however slowly the board moved and wherever
\* the power went, also between the keys of a save.
THEOREM PositionStored == HomeSpec => []HomeStored
<1>1. HomeInit => HomeInv
  BY HomeInitially
<1>2. HomeInv /\ [HomeNext]_homeVars => HomeInv'
  <2> SUFFICES ASSUME HomeInv, [HomeNext]_homeVars PROVE HomeInv'
    OBVIOUS
  <2>1. CASE UNCHANGED homeVars
    BY <2>1 DEF homeVars, HomeInv, RecordsOK, Calls, PlacesOK, HoursOK, WrittenOK, KnowsStored, HalfPut, HomeStored, Near, Between
  <2> QED
    BY <2>1, HomeKept DEF HomeInv
<1>3. HomeInv => HomeStored
  BY DEF HomeInv
<1> QED
  BY <1>1, <1>2, <1>3, PTL DEF HomeSpec

-----------------------------------------------------------------------------
(***************************************************************************)
(* TxSets: that after a pass in which no setting changed only what is      *)
(* enabled is on the air, at the interval of the rate (OnlyEnabled), for    *)
(* every set of rates and cadences and however many calls fail, settings    *)
(* change and sets are laid out anew.                                      *)
(*                                                                         *)
(* The argument: a set is settled once the pass has gone by it; until the   *)
(* pass ends nothing but a setting changes it again.                       *)
(***************************************************************************)
AnyRate == Rate \union {"spec"}
AnyPath == BlePath \union {NoPath}
Midway == {"take", "configure", "start"}
SetRecord == [path : AnyPath, active : BOOLEAN, rate : AnyRate, since : Nat, data : Nat, retry : Nat]
AirRecord == [path : AnyPath, rate : AnyRate]
PassRecord == [at : {"between", "set"} \union Midway, k : SetNo, path : AnyPath, ok : BOOLEAN, interval : AnyRate, r : AnyRate]

SetsTyped ==
  /\ running \in BOOLEAN /\ enabled \subseteq BlePath /\ rate \in Rate /\ nsets \in {2, 3}
  /\ advs \in [SetNo -> SetRecord]
  /\ onAir \in [SetNo -> AirRecord]
  /\ pass \in PassRecord
  /\ reading \in 0 .. LastReading /\ passed \in BOOLEAN /\ steady \in BOOLEAN
  /\ stray \subseteq SetNo /\ failed \in Nat /\ failed <= MaxFailed

\* What NimBLE said a set does, it does, but for one that a relayout could not
\* stop; a set beyond the layout is off.
AirIs ==
  \A k \in SetNo :
    /\ advs[k].active => onAir[k].path = advs[k].path
    /\ onAir[k] # Quiet => advs[k].active \/ k \in stray
    /\ k > nsets => ~advs[k].active

\* A pass takes a set that is off.
Taking ==
  /\ pass.k <= nsets /\ (pass.at # "between" => pass.r \in Rate) /\ (pass.at = "between" => pass.k = 1) /\ (pass.at # "start" => ~pass.ok)
  /\ pass.at \in Midway => pass.path \in BlePath
  /\ pass.at \in {"configure", "start"} => ~advs[pass.k].active

\* While no setting changes a pass goes by the settings as they are.
GoesBySettings ==
  steady =>
    /\ pass.at # "between" => pass.r = rate
    /\ pass.at \in Midway => Wanted(pass.path)
    /\ pass.at = "start" /\ pass.ok => pass.interval = rate

\* What OnlyEnabled asks of a set.
Settled(k) ==
  onAir[k] # Quiet /\ ~PutOff(k) /\ k \notin stray =>
    Wanted(onAir[k].path) /\ (onAir[k].rate = rate \/ onAir[k].rate # advs[k].rate)

\* The sets the pass has gone by, and those beyond the layout.
GoneBy(k) == IF pass.at = "between" THEN passed ELSE k < pass.k \/ k > nsets

BehindSettled == steady => \A k \in SetNo : GoneBy(k) => Settled(k)

SetsInv == SetsTyped /\ AirIs /\ Taking /\ GoesBySettings /\ BehindSettled

-----------------------------------------------------------------------------
LEMMA SetsValues ==
  /\ Turn \in [Rate -> Nat \ {0}] /\ \A r \in Rate : \A p \in BlePath : Every[r][p] \in Nat \ {0}
  /\ StopRetry \in Nat \ {0} /\ StartRetry \in Nat \ {0} /\ MaxFailed \in Nat /\ LastReading \in Nat
  /\ TxWrap \in Nat /\ TxWrap > 2 * StopRetry /\ TxWrap > 2 * StartRetry /\ TxWrap > 2 * LastReading
  /\ NoPath \notin BlePath /\ BlePath = {"ble5", "lr", "ble4"}
  /\ PathOrder["ble5"] = 1 /\ PathOrder["lr"] = 2 /\ PathOrder["ble4"] = 3
BY TxSetsAssumption DEF BlePath, PathOrder

\* A set whose next attempt is later is put off.
LEMMA LaterIsLater ==
  ASSUME NEW d \in Nat \ {0}, 2 * d < TxWrap, reading \in 0 .. LastReading
  PROVE  Later(d) \in Nat /\ 2 * Since(Later(d)) >= TxWrap
<1> DEFINE w == TxWrap
<1>1. w \in Nat /\ 2 * reading < w /\ reading \in Nat /\ w > 0
  BY SetsValues
<1>2. reading + d \in Nat /\ reading + d < w
  BY <1>1
<1>3. (reading + d) % w = reading + d
  BY <1>1, <1>2
<1>4. Since(reading + d) = (0 - d) % w
  BY <1>1 DEF Since
<1>5. (0 - d) % w = w - d
  BY <1>1, SMTT(30)
<1> QED
  BY <1>1, <1>2, <1>3, <1>4, <1>5 DEF Later

\* Somebody is first of any who want a set.
LEMMA FirstIsOne ==
  ASSUME NEW S \in SUBSET BlePath, S # {}
  PROVE  FirstPath(S) \in S /\ \A q \in S : PathOrder[FirstPath(S)] <= PathOrder[q]
<1>1. \E p \in S : \A q \in S : PathOrder[p] <= PathOrder[q]
  <2>1. CASE "ble5" \in S BY <2>1, SetsValues
  <2>2. CASE "ble5" \notin S /\ "lr" \in S BY <2>2, SetsValues
  <2>3. CASE "ble5" \notin S /\ "lr" \notin S
    <3>1. S = {"ble4"} BY <2>3, SetsValues
    <3> QED BY <3>1, SetsValues
  <2> QED BY <2>1, <2>2, <2>3
<1> QED
  BY <1>1 DEF FirstPath

\* Who is taken on a set wants it.
LEMMA OnTurnWants ==
  ASSUME NEW k \in SetNo, Wants(k) # {}
  PROVE  OnTurn(k) \in Wants(k)
<1> DEFINE want == Wants(k)
<1> DEFINE after == {p \in want : PathOrder[p] > PathOrder[advs[k].path]}
<1>1. want \in SUBSET BlePath /\ after \in SUBSET want
  BY DEF Wants
<1>2. FirstPath(want) \in want /\ (after # {} => FirstPath(after) \in after)
  BY <1>1, FirstIsOne
<1> QED
  BY <1>1, <1>2 DEF OnTurn

\* When the pass is on to the next set, or over, what it has gone by is what it
\* had gone by and the set it was at.
LEMMA OnToNext ==
  ASSUME SetsTyped, NextSet(nsets'), nsets' \in {2, 3}, nsets' = nsets \/ pass.k = 3, pass.at # "between"
  PROVE  /\ pass' \in PassRecord
         /\ pass'.k <= nsets' /\ pass'.at \in {"between", "set"} /\ passed' \in BOOLEAN
         /\ pass'.at = "set" => pass'.r = pass.r
         /\ pass'.at = "between" => pass'.k = 1
         /\ ~pass'.ok
         /\ \A k \in SetNo : GoneBy(k)' => GoneBy(k) \/ k = pass.k \/ k > nsets'
<1>1. pass.k \in SetNo /\ pass.r \in AnyRate
  BY DEF SetsTyped, PassRecord
<1>2. CASE pass.k < nsets'
  <2>1. /\ pass' = [at |-> "set", k |-> pass.k + 1, path |-> NoPath, ok |-> FALSE, interval |-> "spec", r |-> pass.r]
        /\ passed' = passed
    BY <1>1, <1>2 DEF NextSet, Rested
  <2>3. pass.k + 1 \in SetNo
    BY <1>1, <1>2 DEF SetNo
  <2>2. nsets' = nsets
    BY <1>2
  <2> QED
    BY <1>1, <1>2, <2>1, <2>2, <2>3 DEF GoneBy, PassRecord, AnyPath, AnyRate, SetsTyped, SetNo
<1>3. CASE ~(pass.k < nsets')
  <2>1. pass' = [at |-> "between", k |-> 1, path |-> NoPath, ok |-> FALSE, interval |-> "spec", r |-> "spec"] /\ passed' = TRUE
    BY <1>3 DEF NextSet, Rested
  <2>2. \A k \in SetNo : k < pass.k \/ k = pass.k \/ k > nsets'
    BY <1>1, <1>3 DEF SetNo
  <2> QED
    BY <2>1, <2>2 DEF GoneBy, PassRecord, AnyPath, AnyRate, SetNo
<1> QED
  BY <1>2, <1>3

\* A step of the pass that leaves every other set as it is, and settles its own
\* when it goes on.
LEMMA PassSettles ==
  ASSUME SetsInv, UNCHANGED <<settings, reading, steady>>, pass.at # "between",
         nsets' = nsets \/ (pass.k = 3 /\ nsets' = 2),
         \A k \in SetNo \ {pass.k} : advs'[k] = advs[k] /\ onAir'[k] = onAir[k] /\ (k \in stray => k \in stray'),
         \A k \in SetNo : k > nsets' => Settled(k)',
         \/ NextSet(nsets') /\ (steady => \A n \in SetNo : n = pass.k => Settled(n)')
         \/ pass'.at \in Midway /\ pass'.k = pass.k /\ nsets' = nsets
  PROVE  BehindSettled'
<1> SUFFICES ASSUME steady', NEW k \in SetNo, GoneBy(k)'
             PROVE  Settled(k)'
  BY DEF BehindSettled
<1>1. steady /\ k <= 3 /\ pass.k \in SetNo
  BY DEF SetsInv, SetsTyped, PassRecord, SetNo
<1>2. CASE k > nsets'
  BY <1>2
<1>3. CASE k = pass.k /\ NextSet(nsets') /\ (steady => \A n \in SetNo : n = pass.k => Settled(n)')
  BY <1>1, <1>3
<1>4. CASE k # pass.k /\ GoneBy(k)
  <2>1. Settled(k)
    BY <1>1, <1>4 DEF SetsInv, BehindSettled
  <2>2. advs'[k] = advs[k] /\ onAir'[k] = onAir[k] /\ (k \in stray => k \in stray')
    BY <1>4
  <2> QED
    BY <2>1, <2>2 DEF Settled, PutOff, Since, Wanted, settings
<1>5. k > nsets' \/ (k = pass.k /\ NextSet(nsets') /\ (steady => \A n \in SetNo : n = pass.k => Settled(n)')) \/ (k # pass.k /\ GoneBy(k))
  <2>1. CASE NextSet(nsets') /\ (steady => \A n \in SetNo : n = pass.k => Settled(n)')
    <3>1. GoneBy(k) \/ k = pass.k \/ k > nsets'
      BY <2>1, OnToNext DEF SetsInv, SetsTyped
    <3> QED
      BY <2>1, <3>1
  <2>2. CASE pass'.at \in Midway /\ pass'.k = pass.k /\ nsets' = nsets
    <3>1. GoneBy(k)
      BY <2>2 DEF GoneBy, Midway
    <3>2. k # pass.k \/ k > nsets'
      BY <2>2, <1>1 DEF GoneBy, Midway, SetsInv, SetsTyped, SetNo
    <3> QED
      BY <3>1, <3>2
  <2> QED
    BY <2>1, <2>2
<1> QED
  BY <1>2, <1>3, <1>4, <1>5

-----------------------------------------------------------------------------
LEMMA SetsInitially == TxInit => SetsInv
<1> SUFFICES ASSUME TxInit
             PROVE  SetsInv
  OBVIOUS
<1>1. SetsTyped
  <2>1. IdleSet \in SetRecord /\ ~IdleSet.active
    BY DEF IdleSet, SetRecord, AnyPath, AnyRate
  <2>2. Quiet \in AirRecord
    BY DEF Quiet, AirRecord, AnyPath, AnyRate
  <2>3. Rested \in PassRecord
    BY DEF Rested, PassRecord, AnyPath, AnyRate, SetNo
  <2>4. advs \in [SetNo -> SetRecord] /\ onAir \in [SetNo -> AirRecord]
    BY <2>1, <2>2 DEF TxInit
  <2>5. reading \in 0 .. LastReading /\ failed \in Nat /\ failed <= MaxFailed
    BY SetsValues DEF TxInit
  <2> QED
    BY <2>3, <2>4, <2>5 DEF TxInit, SetsTyped
<1>2. AirIs
  BY DEF TxInit, AirIs, IdleSet
<1>3. Taking /\ GoesBySettings /\ BehindSettled
  <2>1. pass.at = "between" /\ pass.k = 1 /\ ~pass.ok /\ nsets \in {2, 3} /\ passed = FALSE
    BY DEF TxInit, Rested
  <2> QED
    BY <2>1 DEF Taking, GoesBySettings, BehindSettled, GoneBy, Midway
<1> QED
  BY <1>1, <1>2, <1>3 DEF SetsInv

\* The values a set and the controller may have.
LEMMA Readings ==
  ASSUME SetsTyped
  PROVE  /\ reading \in Nat /\ pass.k \in SetNo
         /\ \A d \in {StopRetry, StartRetry} : Later(d) \in Nat /\ 2 * Since(Later(d)) >= TxWrap
         /\ \A every \in Nat : \A from \in Nat : Advanced(from, every) \in Nat
<1>1. reading \in 0 .. LastReading /\ reading \in Nat
  BY SetsValues DEF SetsTyped
<1>2. ASSUME NEW d \in {StopRetry, StartRetry}
      PROVE  Later(d) \in Nat /\ 2 * Since(Later(d)) >= TxWrap
  <2>1. d \in Nat \ {0} /\ 2 * d < TxWrap
    BY SetsValues
  <2> QED
    BY <1>1, <2>1, LaterIsLater
<1>3. ASSUME NEW every \in Nat, NEW from \in Nat
      PROVE  Advanced(from, every) \in Nat
  <2>1. (from + every) % TxWrap \in Nat
    BY SetsValues
  <2> QED
    BY <1>1, <2>1 DEF Advanced
<1> QED
  BY <1>1, <1>2, <1>3 DEF SetsTyped, PassRecord

LEMMA BeginKeeps ==
  ASSUME SetsInv, BeginPass
  PROVE  SetsInv'
<1>1. /\ pass' = [at |-> "set", k |-> 1, path |-> NoPath, ok |-> FALSE, interval |-> "spec", r |-> rate] /\ steady' = TRUE
      /\ UNCHANGED <<settings, advs, nsets, onAir, reading, passed, stray, idle, failed>>
  BY DEF BeginPass, Rested
<1>2. SetsTyped'
  BY <1>1 DEF SetsInv, SetsTyped, PassRecord, AnyPath, AnyRate, SetNo, settings
<1>3. AirIs' /\ Taking'
  BY <1>1 DEF SetsInv, SetsTyped, AirIs, Taking, Midway
<1>4. GoesBySettings'
  BY <1>1 DEF GoesBySettings, Midway, settings
<1>5. BehindSettled'
  <2> SUFFICES ASSUME NEW k \in SetNo, GoneBy(k)'
               PROVE  Settled(k)'
    BY DEF BehindSettled
  <2>1. k > nsets
    BY <1>1 DEF GoneBy, SetNo, SetsInv, SetsTyped
  <2> QED
    BY <1>1, <2>1 DEF Settled, SetsInv, AirIs
<1> QED
  BY <1>2, <1>3, <1>4, <1>5 DEF SetsInv

LEMMA QuietenKeeps ==
  ASSUME SetsInv, Quieten
  PROVE  SetsInv'
<1>0. PICK k \in SetNo : k = pass.k
  BY DEF SetsInv, SetsTyped, PassRecord
<1>1. SetsTyped /\ pass.at = "set" /\ NextSet(nsets) /\ UNCHANGED <<always, nsets, stray, idle>>
  BY DEF SetsInv, SetsTyped, Quieten
<1>2. \/ advs[k].active /\ PutOff(k) /\ UNCHANGED <<advs, onAir>> /\ CallWorks
      \/ advs[k].active /\ ~PutOff(k) /\ advs' = [advs EXCEPT ![k].retry = Later(StopRetry)] /\ UNCHANGED onAir /\ CallFails
      \/ /\ advs[k].active /\ ~PutOff(k) /\ advs' = [advs EXCEPT ![k].active = FALSE, ![k].path = NoPath]
         /\ onAir' = [onAir EXCEPT ![k] = Quiet] /\ CallWorks
      \/ ~advs[k].active /\ advs' = [advs EXCEPT ![k].path = NoPath] /\ UNCHANGED onAir /\ CallWorks
  BY <1>0 DEF Quieten
<1>3. /\ advs' \in [SetNo -> SetRecord]
      /\ onAir' \in [SetNo -> AirRecord] /\ failed' \in Nat /\ failed' <= MaxFailed
      /\ \A n \in SetNo \ {k} : advs'[n] = advs[n] /\ onAir'[n] = onAir[n]
  <2>1. Later(StopRetry) \in Nat
    BY <1>1, Readings
  <2>2. Quiet \in AirRecord /\ NoPath \in AnyPath
    BY DEF Quiet, AirRecord, AnyPath, AnyRate
  <2>3. failed' \in Nat /\ failed' <= MaxFailed
    BY <1>1, <1>2, SetsValues DEF CallWorks, CallFails, SetsTyped
  <2>4. CASE UNCHANGED advs
    BY <1>1, <1>2, <2>2, <2>3, <2>4 DEF SetsTyped
  <2>5. CASE advs' = [advs EXCEPT ![k].retry = Later(StopRetry)] /\ UNCHANGED onAir
    BY <1>1, <2>1, <2>3, <2>5 DEF SetsTyped, SetRecord
  <2>6. CASE advs' = [advs EXCEPT ![k].active = FALSE, ![k].path = NoPath] /\ onAir' = [onAir EXCEPT ![k] = Quiet]
    <3>0. advs[k] \in SetRecord
      BY <1>1 DEF SetsTyped
    <3>1. [advs[k] EXCEPT !.active = FALSE, !.path = NoPath] \in SetRecord
      BY <2>2, <3>0, ZenonT(40) DEF SetRecord
    <3>2. advs' = [advs EXCEPT ![k] = [advs[k] EXCEPT !.active = FALSE, !.path = NoPath]]
      BY <1>1, <2>6 DEF SetsTyped
    <3> QED
      BY <1>1, <2>2, <2>3, <2>6, <3>1, <3>2 DEF SetsTyped
  <2>7. CASE advs' = [advs EXCEPT ![k].path = NoPath] /\ UNCHANGED onAir
    BY <1>1, <2>2, <2>3, <2>7 DEF SetsTyped, SetRecord
  <2> QED
    BY <1>2, <2>4, <2>5, <2>6, <2>7
<1>4. SetsTyped'
  BY <1>1, <1>3, OnToNext DEF SetsTyped, always, settings
<1>5. AirIs'
  <2>1. \/ advs'[k].active = advs[k].active /\ advs[k].active /\ advs'[k].path = advs[k].path /\ onAir'[k] = onAir[k]
        \/ ~advs'[k].active /\ onAir'[k] = Quiet
        \/ ~advs'[k].active /\ ~advs[k].active /\ onAir'[k] = onAir[k]
    BY <1>1, <1>2 DEF SetsTyped, SetRecord
  <2> QED
    BY <1>1, <1>3, <2>1 DEF SetsInv, AirIs
<1>6. Taking' /\ GoesBySettings'
  <2>1. pass'.k <= nsets /\ pass'.at \in {"between", "set"} /\ (pass'.at = "set" => pass'.r = pass.r) /\ (pass'.at = "between" => pass'.k = 1) /\ ~pass'.ok
    BY <1>1, OnToNext DEF SetsTyped
  <2> QED
    BY <1>1, <2>1 DEF SetsInv, Taking, GoesBySettings, Midway, always, settings
<1>7. Settled(k)'
  <2>1. CASE advs[k].active /\ PutOff(k) /\ UNCHANGED <<advs, onAir>>
    BY <1>1, <2>1 DEF Settled, PutOff, Since, always
  <2>2. CASE advs' = [advs EXCEPT ![k].retry = Later(StopRetry)]
    <3>1. advs'[k].retry = Later(StopRetry) /\ reading' = reading
      BY <1>1, <2>2 DEF SetsTyped, always
    <3> QED
      BY <1>1, <3>1, Readings DEF Settled, PutOff, Since
  <2>3. CASE onAir' = [onAir EXCEPT ![k] = Quiet]
    BY <1>1, <2>3 DEF Settled, SetsTyped
  <2>4. CASE ~advs[k].active /\ UNCHANGED onAir
    BY <1>1, <2>4 DEF Settled, SetsInv, AirIs
  <2> QED
    BY <1>2, <2>1, <2>2, <2>3, <2>4
<1>8. BehindSettled'
  <2>1. \A n \in SetNo : n > nsets' => Settled(n)'
    BY <1>5 DEF AirIs, Settled
  <2> QED
    BY <1>0, <1>1, <1>3, <1>7, <2>1, PassSettles DEF always
<1> QED
  BY <1>4, <1>5, <1>6, <1>8 DEF SetsInv

\* What a wanted set may become: it is left, its payload is renewed, or it is to
\* be taken. Left as it is, it is put off or as it should be.
LEMMA ServeKeeps ==
  ASSUME SetsInv, Serve
  PROVE  SetsInv'
<1>0. PICK k \in SetNo : k = pass.k
  BY DEF SetsInv, SetsTyped, PassRecord
<1>1. SetsTyped /\ pass.at = "set" /\ Wants(k) # {} /\ UNCHANGED <<always, nsets, onAir, stray, idle>>
  BY <1>0 DEF SetsInv, Serve
<1>2. PICK p \in Wants(k) : p = OnTurn(k)
  BY <1>1, OnTurnWants
<1>3. p \in BlePath /\ p \in AnyPath /\ Wanted(p)
  BY <1>2 DEF Wants, AnyPath
<1>4. \/ (PutOff(k) \/ ~MustTake(k)) /\ NextSet(nsets) /\ CallWorks /\ UNCHANGED advs
      \/ ~MustTake(k) /\ NextSet(nsets) /\ CallWorks /\ advs' = [advs EXCEPT ![k].data = Advanced(@, Every[pass.r][p])]
      \/ pass' = [pass EXCEPT !.at = "take", !.path = p] /\ UNCHANGED <<passed, advs>> /\ (CallWorks \/ CallFails)
  BY <1>0, <1>2 DEF Serve, Goes
<1>5. failed' \in Nat /\ failed' <= MaxFailed
  BY <1>1, <1>4, SetsValues DEF CallWorks, CallFails, SetsTyped
<1>6. CASE NextSet(nsets) /\ (\/ (PutOff(k) \/ ~MustTake(k)) /\ UNCHANGED advs
                              \/ ~MustTake(k) /\ advs' = [advs EXCEPT ![k].data = Advanced(@, Every[pass.r][p])])
  <2>1. /\ advs' \in [SetNo -> SetRecord] /\ \A n \in SetNo \ {k} : advs'[n] = advs[n]
        /\ advs'[k].active = advs[k].active /\ advs'[k].path = advs[k].path /\ advs'[k].rate = advs[k].rate /\ advs'[k].retry = advs[k].retry
    <3>1. Advanced(advs[k].data, Every[pass.r][p]) \in Nat
      <4>1. advs[k].data \in Nat
        BY <1>1 DEF SetsTyped, SetRecord
      <4>2. Every[pass.r][p] \in Nat
        BY <1>1, <1>3, SetsValues DEF SetsInv, Taking
      <4> QED
        BY <1>1, <4>1, <4>2, Readings
    <3>2. CASE UNCHANGED advs
      BY <1>1, <3>2 DEF SetsTyped
    <3>3. CASE advs' = [advs EXCEPT ![k].data = Advanced(@, Every[pass.r][p])]
      BY <1>1, <3>1, <3>3 DEF SetsTyped, SetRecord
    <3> QED
      BY <1>6, <3>2, <3>3
  <2>2. SetsTyped'
    BY <1>1, <1>5, <1>6, <2>1, OnToNext DEF SetsTyped, always, settings
  <2>3. AirIs'
    BY <1>1, <2>1 DEF SetsInv, AirIs
  <2>4. Taking' /\ GoesBySettings'
    <3>1. pass'.k <= nsets /\ pass'.at \in {"between", "set"} /\ (pass'.at = "set" => pass'.r = pass.r) /\ (pass'.at = "between" => pass'.k = 1) /\ ~pass'.ok
      BY <1>1, <1>6, OnToNext DEF SetsTyped
    <3> QED
      BY <1>1, <3>1 DEF SetsInv, Taking, GoesBySettings, Midway, always, settings
  <2>5. Settled(k)'
    <3>1. CASE PutOff(k)
      BY <1>1, <2>1, <3>1 DEF Settled, PutOff, Since, always
    <3>2. CASE ~MustTake(k)
      <4>1. p = advs[k].path /\ advs[k].active /\ advs[k].rate = rate
        BY <1>2, <3>2 DEF MustTake
      <4>2. onAir[k].path = p
        BY <4>1 DEF SetsInv, AirIs
      <4> QED
        BY <1>1, <1>3, <2>1, <4>1, <4>2 DEF Settled, Wanted, always, settings
    <3> QED
      BY <1>6, <3>1, <3>2
  <2>6. BehindSettled'
    <3>1. \A n \in SetNo : n > nsets' => Settled(n)'
      BY <2>3 DEF AirIs, Settled
    <3> QED
      BY <1>0, <1>1, <1>6, <2>1, <2>5, <3>1, PassSettles DEF always
  <2> QED
    BY <2>2, <2>3, <2>4, <2>6 DEF SetsInv
<1>7. CASE pass' = [pass EXCEPT !.at = "take", !.path = p] /\ UNCHANGED <<passed, advs>>
  <2>1. /\ pass' \in PassRecord /\ pass'.at = "take" /\ pass'.path = p /\ pass'.k = pass.k /\ pass'.r = pass.r /\ pass'.ok = pass.ok
    BY <1>1, <1>3, <1>7 DEF SetsTyped, PassRecord, Midway
  <2>2. SetsTyped'
    BY <1>1, <1>5, <1>7, <2>1 DEF SetsTyped, always, settings
  <2>3. AirIs' /\ Taking' /\ GoesBySettings'
    BY <1>1, <1>3, <1>7, <2>1 DEF SetsInv, AirIs, Taking, GoesBySettings, Midway, Wanted, always, settings
  <2>4. BehindSettled'
    <3>1. \A n \in SetNo : n > nsets' => Settled(n)'
      BY <2>3 DEF AirIs, Settled
    <3> QED
      BY <1>1, <1>7, <2>1, <3>1, PassSettles DEF always, Midway
  <2> QED
    BY <2>2, <2>3, <2>4 DEF SetsInv
<1> QED
  BY <1>4, <1>6, <1>7

LEMMA TakeKeeps ==
  ASSUME SetsInv, Take
  PROVE  SetsInv'
<1>0. PICK k \in SetNo : k = pass.k
  BY DEF SetsInv, SetsTyped, PassRecord
<1>1. SetsTyped /\ pass.at = "take" /\ UNCHANGED <<always, nsets, stray, idle>>
  BY DEF SetsInv, Take
<1>2. \/ /\ advs' = [advs EXCEPT ![k].retry = Later(StopRetry)] /\ CallFails
         /\ NextSet(nsets) /\ UNCHANGED onAir
      \/ /\ advs' = [advs EXCEPT ![k].active = FALSE] /\ CallWorks
         /\ onAir' = IF advs[k].active THEN [onAir EXCEPT ![k] = Quiet] ELSE onAir
         /\ pass' = [pass EXCEPT !.at = "configure"] /\ UNCHANGED passed
  BY <1>0 DEF Take, Goes
<1>3. failed' \in Nat /\ failed' <= MaxFailed
  BY <1>1, <1>2, SetsValues DEF CallWorks, CallFails, SetsTyped
<1>4. CASE advs' = [advs EXCEPT ![k].retry = Later(StopRetry)] /\ NextSet(nsets) /\ UNCHANGED onAir
  <2>1. /\ advs' \in [SetNo -> SetRecord] /\ \A n \in SetNo \ {k} : advs'[n] = advs[n]
        /\ advs'[k].active = advs[k].active /\ advs'[k].path = advs[k].path /\ advs'[k].retry = Later(StopRetry)
    <3>1. Later(StopRetry) \in Nat
      BY <1>1, Readings
    <3> QED
      BY <1>1, <1>4, <3>1 DEF SetsTyped, SetRecord
  <2>2. SetsTyped'
    BY <1>1, <1>3, <1>4, <2>1, OnToNext DEF SetsTyped, always, settings
  <2>3. AirIs'
    BY <1>1, <1>4, <2>1 DEF SetsInv, AirIs
  <2>4. Taking' /\ GoesBySettings'
    <3>1. pass'.k <= nsets /\ pass'.at \in {"between", "set"} /\ (pass'.at = "set" => pass'.r = pass.r) /\ (pass'.at = "between" => pass'.k = 1) /\ ~pass'.ok
      BY <1>1, <1>4, OnToNext DEF SetsTyped
    <3> QED
      BY <1>1, <3>1 DEF SetsInv, Taking, GoesBySettings, Midway, always, settings
  <2>5. Settled(k)'
    BY <1>1, <2>1, Readings DEF Settled, PutOff, Since, always
  <2>6. BehindSettled'
    <3>1. \A n \in SetNo : n > nsets' => Settled(n)'
      BY <2>3 DEF AirIs, Settled
    <3> QED
      BY <1>0, <1>1, <1>4, <2>1, <2>5, <3>1, PassSettles DEF always
  <2> QED
    BY <2>2, <2>3, <2>4, <2>6 DEF SetsInv
<1>5. CASE /\ advs' = [advs EXCEPT ![k].active = FALSE]
           /\ onAir' = IF advs[k].active THEN [onAir EXCEPT ![k] = Quiet] ELSE onAir
           /\ pass' = [pass EXCEPT !.at = "configure"] /\ UNCHANGED passed
  <2>1. /\ pass' \in PassRecord /\ pass'.at = "configure" /\ pass'.path = pass.path /\ pass'.k = pass.k /\ pass'.r = pass.r /\ pass'.ok = pass.ok
    BY <1>1, <1>5 DEF SetsTyped, PassRecord, Midway
  <2>2. /\ advs' \in [SetNo -> SetRecord] /\ onAir' \in [SetNo -> AirRecord]
        /\ \A n \in SetNo \ {k} : advs'[n] = advs[n] /\ onAir'[n] = onAir[n]
        /\ ~advs'[k].active /\ (onAir'[k] # Quiet => ~advs[k].active /\ onAir'[k] = onAir[k])
    <3>1. Quiet \in AirRecord
      BY DEF Quiet, AirRecord, AnyPath, AnyRate
    <3> QED
      BY <1>1, <1>5, <3>1 DEF SetsTyped, SetRecord
  <2>3. SetsTyped'
    BY <1>1, <1>3, <1>5, <2>1, <2>2 DEF SetsTyped, always, settings
  <2>4. AirIs'
    BY <1>1, <2>2 DEF SetsInv, AirIs
  <2>5. Taking' /\ GoesBySettings'
    BY <1>0, <1>1, <2>1, <2>2 DEF SetsInv, Taking, GoesBySettings, Midway, Wanted, always, settings
  <2>6. BehindSettled'
    <3>1. \A n \in SetNo : n > nsets' => Settled(n)'
      BY <2>4 DEF AirIs, Settled
    <3> QED
      BY <1>0, <1>1, <2>1, <2>2, <3>1, PassSettles DEF always, Midway
  <2> QED
    BY <2>3, <2>4, <2>5, <2>6 DEF SetsInv
<1> QED
  BY <1>2, <1>4, <1>5

LEMMA ConfigureKeeps ==
  ASSUME SetsInv, Configure
  PROVE  SetsInv'
<1>0. PICK k \in SetNo : k = pass.k
  BY DEF SetsInv, SetsTyped, PassRecord
<1>1. SetsTyped /\ pass.at = "configure" /\ ~advs[k].active /\ UNCHANGED <<always, advs, nsets, idle, passed>>
  BY <1>0 DEF SetsInv, Taking, Configure, Goes
<1>2. /\ pass' = [pass EXCEPT !.at = "start", !.ok = TRUE, !.interval = rate] \/ pass' = [pass EXCEPT !.at = "start"]
      /\ onAir' = [onAir EXCEPT ![k] = Quiet] \/ onAir' = onAir
      /\ stray' = IF onAir'[k] = Quiet THEN stray \ {k} ELSE stray
      /\ CallWorks \/ CallFails
  BY <1>0 DEF Configure, Goes
<1>3. failed' \in Nat /\ failed' <= MaxFailed
  BY <1>1, <1>2, SetsValues DEF CallWorks, CallFails, SetsTyped
<1>4. /\ pass' \in PassRecord /\ pass'.at = "start" /\ pass'.path = pass.path /\ pass'.k = pass.k /\ pass'.r = pass.r
      /\ pass'.ok => pass'.interval = rate
  BY <1>1, <1>2 DEF SetsInv, Taking, SetsTyped, PassRecord, Midway, AnyRate
<1>5. /\ onAir' \in [SetNo -> AirRecord] /\ stray' \subseteq SetNo
      /\ \A n \in SetNo \ {k} : onAir'[n] = onAir[n] /\ (n \in stray => n \in stray')
      /\ onAir'[k] # Quiet => onAir'[k] = onAir[k] /\ stray' = stray
  <2>1. Quiet \in AirRecord
    BY DEF Quiet, AirRecord, AnyPath, AnyRate
  <2> QED
    BY <1>1, <1>2, <2>1 DEF SetsTyped
<1>6. SetsTyped'
  BY <1>1, <1>3, <1>4, <1>5 DEF SetsTyped, always, settings
<1>7. AirIs'
  BY <1>1, <1>5 DEF SetsInv, AirIs
<1>8. Taking' /\ GoesBySettings'
  BY <1>0, <1>1, <1>4 DEF SetsInv, Taking, GoesBySettings, Midway, Wanted, always, settings
<1>9. BehindSettled'
  <2>1. \A n \in SetNo : n > nsets' => Settled(n)'
    BY <1>7 DEF AirIs, Settled
  <2> QED
    BY <1>0, <1>1, <1>4, <1>5, <2>1, PassSettles DEF always, Midway
<1> QED
  BY <1>6, <1>7, <1>8, <1>9 DEF SetsInv

\* A set that starts goes by the settings as they were since the pass began.
LEMMA StartKeeps ==
  ASSUME SetsInv, Start
  PROVE  SetsInv'
<1>0. PICK k \in SetNo : k = pass.k
  BY DEF SetsInv, SetsTyped, PassRecord
<1>1. /\ SetsTyped /\ pass.at = "start" /\ ~advs[k].active /\ pass.path \in BlePath /\ UNCHANGED <<always, stray>>
  BY <1>0 DEF SetsInv, Taking, Start, Midway
<1>2. DEFINE noted == [advs[k] EXCEPT !.path = pass.path, !.since = reading, !.data = reading, !.rate = rate]
<1>3. \/ /\ pass.ok /\ CallWorks /\ advs' = [advs EXCEPT ![k] = [noted EXCEPT !.active = TRUE]]
         /\ onAir' = [onAir EXCEPT ![k] = [path |-> pass.path, rate |-> pass.interval]] /\ nsets' = nsets
      \/ /\ CallFails \/ CallWorks
         /\ advs' = [advs EXCEPT ![k] = [noted EXCEPT !.retry = Later(StartRetry), !.path = IF k = 3 THEN NoPath ELSE @]]
         /\ nsets' = (IF k = 3 THEN 2 ELSE nsets) /\ UNCHANGED onAir
  BY <1>0 DEF Start
<1>4. NextSet(nsets') /\ nsets' \in {2, 3} /\ (nsets' = nsets \/ (pass.k = 3 /\ nsets' = 2)) /\ nsets' <= nsets
  <2>1. NextSet(nsets')
    BY DEF Start
  <2> QED
    BY <1>0, <1>1, <1>3, <2>1 DEF SetsTyped
<1>5. failed' \in Nat /\ failed' <= MaxFailed
  BY <1>1, <1>3, SetsValues DEF CallWorks, CallFails, SetsTyped
<1>6. noted \in SetRecord /\ noted.path = pass.path /\ noted.rate = rate /\ noted.active = FALSE
  <2>1. pass.path \in AnyPath /\ rate \in AnyRate /\ reading \in Nat
    BY <1>1, Readings DEF AnyPath, AnyRate, SetsTyped
  <2> QED
    BY <1>1, <2>1 DEF SetsTyped, SetRecord
<1> HIDE DEF noted
<1>7. /\ advs' \in [SetNo -> SetRecord] /\ onAir' \in [SetNo -> AirRecord]
      /\ \A n \in SetNo \ {k} : advs'[n] = advs[n] /\ onAir'[n] = onAir[n]
      /\ \/ /\ pass.ok /\ advs'[k].active /\ advs'[k].path = pass.path /\ advs'[k].rate = rate
            /\ onAir'[k].path = pass.path /\ onAir'[k].rate = pass.interval /\ nsets' = nsets
         \/ ~advs'[k].active /\ onAir'[k] = onAir[k]
  <2>1. CASE /\ pass.ok /\ CallWorks /\ advs' = [advs EXCEPT ![k] = [noted EXCEPT !.active = TRUE]]
             /\ onAir' = [onAir EXCEPT ![k] = [path |-> pass.path, rate |-> pass.interval]] /\ nsets' = nsets
    <3>1. [noted EXCEPT !.active = TRUE] \in SetRecord
      BY <1>6 DEF SetRecord
    <3>2. [path |-> pass.path, rate |-> pass.interval] \in AirRecord
      BY <1>1 DEF SetsTyped, PassRecord, AirRecord
    <3>3. [noted EXCEPT !.active = TRUE].active /\ [noted EXCEPT !.active = TRUE].path = pass.path /\ [noted EXCEPT !.active = TRUE].rate = rate
      BY <1>6 DEF SetRecord
    <3> QED
      BY <1>1, <2>1, <3>1, <3>2, <3>3 DEF SetsTyped
  <2>2. CASE advs' = [advs EXCEPT ![k] = [noted EXCEPT !.retry = Later(StartRetry), !.path = IF k = 3 THEN NoPath ELSE @]] /\ UNCHANGED onAir
    <3>1. [noted EXCEPT !.retry = Later(StartRetry), !.path = IF k = 3 THEN NoPath ELSE @] \in SetRecord
      <4>1. Later(StartRetry) \in Nat /\ NoPath \in AnyPath
        BY <1>1, Readings DEF AnyPath
      <4> QED
        BY <1>6, <4>1 DEF SetRecord
    <3>2. ~[noted EXCEPT !.retry = Later(StartRetry), !.path = IF k = 3 THEN NoPath ELSE @].active
      BY <1>6 DEF SetRecord
    <3> QED
      BY <1>1, <2>2, <3>1, <3>2 DEF SetsTyped
  <2> QED
    BY <1>3, <2>1, <2>2
<1>8. SetsTyped'
  BY <1>1, <1>4, <1>5, <1>7, OnToNext DEF SetsTyped, always, settings
<1>9. AirIs'
  <2>1. ~(k > nsets)
    BY <1>0 DEF SetsInv, Taking, SetsTyped, SetNo
  <2>2. \A n \in SetNo \ {k} : n > nsets' => n > nsets
    BY <1>0, <1>1, <1>4 DEF SetsTyped, SetNo
  <2> QED
    BY <1>1, <1>7, <2>1, <2>2 DEF SetsInv, AirIs
<1>10. Taking' /\ GoesBySettings'
  <2>1. pass'.k <= nsets' /\ pass'.at \in {"between", "set"} /\ (pass'.at = "set" => pass'.r = pass.r) /\ (pass'.at = "between" => pass'.k = 1) /\ ~pass'.ok
    BY <1>1, <1>4, OnToNext DEF SetsTyped
  <2> QED
    BY <1>1, <2>1 DEF SetsInv, Taking, GoesBySettings, Midway, always, settings
<1>11. steady => Settled(k)'
  <2>1. CASE ~advs'[k].active /\ onAir'[k] = onAir[k]
    BY <1>1, <2>1 DEF Settled, SetsInv, AirIs
  <2>2. CASE onAir'[k].path = pass.path /\ onAir'[k].rate = pass.interval /\ pass.ok
    BY <1>1, <2>2 DEF Settled, SetsInv, GoesBySettings, Midway, Wanted, always, settings
  <2> QED
    BY <1>7, <2>1, <2>2
<1>12. BehindSettled'
  <2>1. \A n \in SetNo : n > nsets' => Settled(n)'
    BY <1>9 DEF AirIs, Settled
  <2> QED
    BY <1>0, <1>1, <1>4, <1>7, <1>11, <2>1, PassSettles DEF always
<1> QED
  BY <1>8, <1>9, <1>10, <1>12 DEF SetsInv

-----------------------------------------------------------------------------
\* What is not the pass: a setting or a layout that changes makes it unsteady.
LEMMA SwitchKeeps ==
  ASSUME SetsInv, Switch \/ Relayout
  PROVE  SetsInv'
<1>1. CASE Switch
  <2>1. SetsTyped'
    <3>1. CASE running' = ~running /\ UNCHANGED <<enabled, rate>>
      BY <1>1, <3>1 DEF Switch, SetsInv, SetsTyped
    <3>2. CASE \E p \in BlePath : enabled' = (enabled \ {p}) \union ({p} \ enabled) /\ UNCHANGED <<running, rate>>
      BY <1>1, <3>2 DEF Switch, SetsInv, SetsTyped
    <3>3. CASE rate' \in Rate \ {rate} /\ UNCHANGED <<running, enabled>>
      BY <1>1, <3>3 DEF Switch, SetsInv, SetsTyped
    <3> QED
      BY <1>1, <3>1, <3>2, <3>3 DEF Switch
  <2>2. AirIs' /\ Taking' /\ GoesBySettings' /\ BehindSettled'
    BY <1>1 DEF Switch, SetsInv, AirIs, Taking, GoesBySettings, BehindSettled
  <2> QED
    BY <2>1, <2>2 DEF SetsInv
<1>2. CASE Relayout
  <2>1. SetsTyped /\ AirIs /\ Taking /\ pass.at = "between" /\ steady' = FALSE /\ nsets' \in {2, 3}
        /\ UNCHANGED <<running, enabled, rate, pass, reading, passed>>
    BY <1>2 DEF Relayout, SetsInv
  <2>2. stray' \in SUBSET SetNo /\ failed' = failed + Cardinality(stray') /\ failed' <= MaxFailed
    BY <1>2 DEF Relayout
  <2>3. failed' \in Nat
    <3>1. IsFiniteSet(stray')
      BY <2>2, FS_Interval, FS_Subset, 1 \in Int, 3 \in Int DEF SetNo
    <3>2. Cardinality(stray') \in Nat
      BY <3>1, FS_CardinalityType
    <3> QED
      BY <2>1, <2>2, <3>2 DEF SetsTyped
  <2>4. /\ advs' = [k \in SetNo |-> [advs[k] EXCEPT !.active = FALSE, !.path = NoPath, !.retry = 0]]
        /\ onAir' = [k \in SetNo |-> IF k \in stray' THEN onAir[k] ELSE Quiet]
    BY <1>2 DEF Relayout
  <2>5. \A k \in SetNo : advs'[k] \in SetRecord /\ ~advs'[k].active /\ onAir'[k] \in AirRecord
    <3>1. Quiet \in AirRecord /\ NoPath \in AnyPath
      BY DEF Quiet, AirRecord, AnyPath, AnyRate
    <3> QED
      BY <2>1, <2>4, <3>1 DEF SetsTyped, SetRecord
  <2>6. advs' \in [SetNo -> SetRecord] /\ onAir' \in [SetNo -> AirRecord]
    BY <2>4, <2>5
  <2>7. SetsTyped'
    BY <2>1, <2>2, <2>3, <2>6 DEF SetsTyped
  <2>8. AirIs'
    BY <2>4, <2>5 DEF AirIs
  <2>9. Taking' /\ GoesBySettings' /\ BehindSettled'
    BY <2>1 DEF Taking, GoesBySettings, BehindSettled, Midway
  <2> QED
    BY <2>7, <2>8, <2>9 DEF SetsInv
<1> QED
  BY <1>1, <1>2

LEMMA TimeKeepsSets ==
  ASSUME SetsInv, TxTick \/ UNCHANGED txVars
  PROVE  SetsInv'
<1>1. CASE TxTick
  <2>1. SetsTyped'
    <3>1. reading' \in 0 .. LastReading
      BY <1>1, SetsValues DEF TxTick, SetsInv, SetsTyped
    <3> QED
      BY <1>1, <3>1 DEF TxTick, SetsInv, SetsTyped, settings
  <2>2. AirIs' /\ Taking' /\ GoesBySettings'
    BY <1>1 DEF TxTick, SetsInv, AirIs, Taking, GoesBySettings, Midway, Wanted, settings
  <2>3. BehindSettled'
    BY <1>1 DEF TxTick, BehindSettled, GoneBy
  <2> QED
    BY <2>1, <2>2, <2>3 DEF SetsInv
<1>2. CASE UNCHANGED txVars
  BY <1>2 DEF txVars, settings, SetsInv, SetsTyped, AirIs, Taking, GoesBySettings, BehindSettled, GoneBy, Settled, PutOff, Since, Wanted
<1> QED
  BY <1>1, <1>2

\* After a pass in which no setting changed only what is enabled is on the air,
\* at the interval of the rate, with the exceptions OnlyEnabled names (ble_service).
THEOREM OnlyEnabledOnAir == TxSpec => []OnlyEnabled
<1>1. SetsInv /\ [TxNext]_txVars => SetsInv'
  BY BeginKeeps, QuietenKeeps, ServeKeeps, TakeKeeps, ConfigureKeeps, StartKeeps, SwitchKeeps, TimeKeepsSets DEF TxNext
<1>2. SetsInv => OnlyEnabled
  BY DEF SetsInv, BehindSettled, GoneBy, Settled, OnlyEnabled
<1> QED
  BY SetsInitially, <1>1, <1>2, PTL DEF TxSpec

-----------------------------------------------------------------------------
(***************************************************************************)
(* TxSlots: that no path that is due is passed over for another more than   *)
(* once, and none is on the air oftener than its cadence (NotPassedOver,    *)
(* NotTooOften), for every number of paths, cadence and range of millis(),  *)
(* and any number of refusals and changes.                                 *)
(*                                                                         *)
(* The argument: what has passed over a path that is due has moved behind   *)
(* it. And the frames sent, each a period, and the time since the slot had  *)
(* last never exceed the time there was by more than two periods: a path    *)
(* that keeps its cadence spends a period of that time on each frame, one   *)
(* that starts anew has let two go by.                                     *)
(***************************************************************************)
\* How far the turn is from a path.
Distance(p) == IF p >= rr THEN p - rr ELSE p - rr + Paths

AheadOf(q) == {p \in on : Distance(p) < Distance(q)}

SlotsTyped ==
  /\ on \subseteq Path /\ speed \in Speed /\ last \in [Path -> Nat] /\ rr \in Path /\ time \in Nat
  /\ waits \in [Path -> Nat] /\ refused \in [Path -> Nat]
  /\ DOMAIN frames = {"n", "from"} /\ frames.n \in [Path -> Nat] /\ frames.from \in Nat /\ frames.from <= time

PassedOver == \A q \in on : waits[q] + Cardinality(AheadOf(q)) < Cardinality(on)

Cadence ==
  \A p \in Path : frames.n[p] > 0 =>
    frames.n[p] * Period[speed][p] + For(p) < (time - frames.from) + 2 * Period[speed][p]

SlotsInv == SlotsTyped /\ PassedOver /\ Cadence

-----------------------------------------------------------------------------
LEMMA SlotsValues ==
  /\ Paths \in Nat \ {0} /\ SlotWrap \in Nat \ {0} /\ RetryIn \in Nat
  /\ \A s \in Speed : \A p \in Path : Period[s][p] \in Nat \ {0} /\ RetryIn <= Period[s][p]
  /\ IsFiniteSet(Path) /\ \A p \in Path : p \in Nat /\ p < Paths
<1>1. IsFiniteSet(Path)
  <2>1. 0 \in Int /\ Paths - 1 \in Int
    BY TxSlotsAssumption
  <2> QED
    BY <2>1, FS_Interval DEF Path
<1> QED
  BY <1>1, TxSlotsAssumption DEF Path

\* A remainder, and that a multiple changes none.
LEMMA Remainder ==
  ASSUME NEW x \in Int, NEW c \in Nat \ {0}
  PROVE  x % c \in 0 .. c - 1 /\ \E q \in Int : x = c * q + (x % c)
<1>1. x \div c \in Int /\ x = c * (x \div c) + (x % c) /\ x % c \in 0 .. c - 1
  BY SMTT(30)
<1> QED
  BY <1>1

LEMMA RemainderIs ==
  ASSUME NEW c \in Nat \ {0}, NEW q \in Int, NEW r \in 0 .. c - 1, NEW s \in 0 .. c - 1, r = c * q + s
  PROVE  r = s
<1>1. q >= 1 => c * q >= c
  BY SMTT(30)
<1>2. q <= -1 => c * q <= -c
  BY SMTT(30)
<1>3. ~(q >= 1)
  BY <1>1
<1>4. ~(q <= -1)
  BY <1>2
<1>5. q = 0
  BY <1>3, <1>4
<1> QED
  BY <1>5

LEMMA SameRemainder ==
  ASSUME NEW c \in Nat \ {0}, NEW x \in Int, NEW y \in Int, NEW m \in Int, x = y + c * m
  PROVE  x % c = y % c
<1>1. PICK q1 \in Int : x = c * q1 + (x % c)
  BY Remainder
<1>2. PICK q2 \in Int : y = c * q2 + (y % c)
  BY Remainder
<1>3. x % c \in 0 .. c - 1 /\ y % c \in 0 .. c - 1
  BY Remainder
<1> DEFINE r == x % c
           s == y % c
<1>4. r \in 0 .. c - 1 /\ s \in 0 .. c - 1 /\ x = c * q1 + r /\ y = c * q2 + s
  BY <1>1, <1>2, <1>3
<1> HIDE DEF r, s
<1>5. c * (q2 + m - q1) = c * q2 + c * m - c * q1 /\ c * q1 \in Int /\ c * q2 \in Int /\ c * m \in Int
  BY SMTT(30)
<1>6. r = c * (q2 + m - q1) + s /\ q2 + m - q1 \in Int /\ s \in Int
  BY <1>4, <1>5
<1> DEFINE q == q2 + m - q1
<1>7. q \in Int /\ r = c * q + s
  BY <1>6
<1> HIDE DEF q
<1>8. r = s
  BY <1>4, <1>7, RemainderIs
<1> QED
  BY <1>8 DEF r, s

\* A remainder of what is not negative is at most that.
LEMMA AtMostItself ==
  ASSUME NEW x \in Nat, NEW c \in Nat \ {0}
  PROVE  x % c \in Nat /\ x % c <= x
<1>0. x \in Int
  OBVIOUS
<1>1. PICK q \in Int : x = c * q + (x % c)
  BY <1>0, Remainder
<1>2. x % c \in 0 .. c - 1
  BY <1>0, Remainder
<1>3. q <= -1 => c * q <= -c
  BY SMTT(30)
<1>4. q >= 0 => c * q >= 0
  BY SMTT(30)
<1>5. c * q \in Int
  OBVIOUS
<1>6. q >= 0
  BY <1>1, <1>2, <1>3, <1>5
<1> QED
  BY <1>1, <1>2, <1>4, <1>5, <1>6

\* The time since a slot that was moved by a known amount.
LEMMA SinceMoved ==
  ASSUME NEW c \in Nat \ {0}, NEW t \in Int, NEW l \in Int, NEW u \in Int, NEW k \in Int, NEW e \in Int,
         u - k = t - l + e, ((t - l) % c) + e >= 0
  PROVE  (u - k) % c <= ((t - l) % c) + e
<1> DEFINE f == (t - l) % c
           x == u - k
           y == f + e
<1>1. t - l \in Int
  OBVIOUS
<1>2. f \in 0 .. c - 1 /\ \E q \in Int : t - l = c * q + f
  BY <1>1, Remainder, Zenon
<1> HIDE DEF f
<1>3. PICK q \in Int : t - l = c * q + f
  BY <1>2
<1>4. c * q \in Int /\ y \in Nat /\ y \in Int /\ x \in Int
  BY <1>2 DEF f
<1>5. x = y + c * q
  BY <1>2, <1>3, <1>4
<1> HIDE DEF x, y
<1>6. x % c = y % c
  BY <1>4, <1>5, SameRemainder
<1>7. y % c <= y
  BY <1>4, AtMostItself
<1> QED
  BY <1>6, <1>7 DEF f, x, y

\* A slot that was put at a reading: the time since is that since the reading.
LEMMA SinceReading ==
  ASSUME NEW c \in Nat \ {0}, NEW t \in Int, NEW l \in Int
  PROVE  (t - (l % c)) % c = (t - l) % c
<1>1. l % c \in 0 .. c - 1
  BY Remainder
<1>2. PICK q \in Int : l = c * q + (l % c)
  BY Remainder
<1> DEFINE r == l % c
<1>3. r \in Int /\ l = c * q + r
  BY <1>1, <1>2
<1> HIDE DEF r
<1>4. c * q \in Int
  OBVIOUS
<1>5. t - r \in Int /\ t - l \in Int /\ t - r = (t - l) + c * q
  BY <1>3, <1>4
<1>6. (t - r) % c = (t - l) % c
  BY <1>5, SameRemainder
<1> QED
  BY <1>6 DEF r

\* Of some numbers one is the least.
LEMMA LeastOf ==
  ASSUME NEW S \in SUBSET Nat, S # {}
  PROVE  Min(S) \in S /\ \A r \in S : Min(S) <= r
<1>1. PICK s \in S : \A r \in S : <<r, s>> \notin OpToRel(<, Nat)
  BY NatLessThanWellFounded, WFMin, Zenon
<1>2. \A r \in S : ~(r < s)
  BY <1>1 DEF OpToRel
<1>3. \A r \in S : s <= r
  BY <1>2
<1> QED
  BY <1>3 DEF Min

\* A path is as far from the turn as many steps lead to it.
LEMMA DistanceLeads ==
  ASSUME SlotsTyped, NEW p \in Path
  PROVE  Distance(p) \in Path /\ (rr + Distance(p)) % Paths = p
<1>1. rr \in Nat /\ p \in Nat /\ rr < Paths /\ p < Paths /\ Paths \in Nat \ {0}
  BY SlotsValues DEF SlotsTyped
<1>2. Distance(p) \in Path
  BY <1>1 DEF Distance, Path
<1>3. CASE p >= rr
  <2>1. rr + Distance(p) = p
    BY <1>1, <1>3 DEF Distance
  <2>2. p % Paths = p
    BY <1>1, SMTT(30)
  <2> QED
    BY <1>2, <2>1, <2>2
<1>4. CASE ~(p >= rr)
  <2>1. rr + Distance(p) = p + Paths
    BY <1>1, <1>4 DEF Distance
  <2>2. (p + Paths) % Paths = p
    BY <1>1, SMTT(30)
  <2> QED
    BY <1>2, <2>1, <2>2
<1> QED
  BY <1>3, <1>4

\* As many steps lead to a path that is as far.
LEMMA LeadsDistance ==
  ASSUME SlotsTyped, NEW d \in Path
  PROVE  (rr + d) % Paths \in Path /\ Distance((rr + d) % Paths) = d
<1>1. rr \in Nat /\ d \in Nat /\ rr < Paths /\ d < Paths /\ Paths \in Nat \ {0}
  BY SlotsValues DEF SlotsTyped
<1>2. (rr + d) % Paths = IF rr + d < Paths THEN rr + d ELSE rr + d - Paths
  BY <1>1, SMTT(30)
<1> QED
  BY <1>1, <1>2 DEF Distance, Path

\* The one that is sent is the nearest of those due.
LEMMA NearestSent ==
  ASSUME SlotsTyped, \E p \in Path : Due(p)
  PROVE  /\ Next1 \in Path /\ Due(Next1)
         /\ \A q \in Path : Due(q) => Distance(Next1) <= Distance(q)
<1> DEFINE S == {k \in Path : Due((rr + k) % Paths)}
<1>1. \A q \in Path : Due(q) => Distance(q) \in S
  BY DistanceLeads
<1>2. S \in SUBSET Nat /\ S # {}
  BY <1>1, SlotsValues
<1>3. Min(S) \in S /\ \A r \in S : Min(S) <= r
  BY <1>2, LeastOf
<1> HIDE DEF S
<1>4. Next1 = (rr + Min(S)) % Paths
  BY DEF Next1, S
<1>5. Min(S) \in Path /\ Due((rr + Min(S)) % Paths)
  BY <1>3 DEF S
<1>6. (rr + Min(S)) % Paths \in Path /\ Distance((rr + Min(S)) % Paths) = Min(S)
  BY <1>5, LeadsDistance
<1> QED
  BY <1>1, <1>3, <1>4, <1>5, <1>6

\* Others are before a path, never itself.
LEMMA BeforeOthers ==
  ASSUME NEW S \in SUBSET Path, NEW q \in S, NEW B \in SUBSET (S \ {q})
  PROVE  Cardinality(B) \in Nat /\ Cardinality(B) < Cardinality(S) /\ IsFiniteSet(B)
<1>1. IsFiniteSet(S)
  BY SlotsValues, FS_Subset
<1>2. IsFiniteSet(S \ {q}) /\ Cardinality(S \ {q}) = Cardinality(S) - 1
  BY <1>1, FS_RemoveElement
<1>3. IsFiniteSet(B) /\ Cardinality(B) <= Cardinality(S \ {q})
  BY <1>2, FS_Subset
<1> QED
  BY <1>1, <1>2, <1>3, FS_CardinalityType

LEMMA NoneBeforeItself ==
  ASSUME SlotsTyped, NEW q \in on
  PROVE  Cardinality(AheadOf(q)) \in Nat /\ Cardinality(AheadOf(q)) < Cardinality(on)
<1>1. AheadOf(q) \in SUBSET (on \ {q}) /\ on \in SUBSET Path
  <2>1. q \in Path
    BY DEF SlotsTyped
  <2>2. Distance(q) \in Nat
    BY <2>1, DistanceLeads, SlotsValues
  <2> QED
    BY <2>2 DEF AheadOf, SlotsTyped
<1> QED
  BY <1>1, BeforeOthers

LEMMA NoneBeforeItselfThen ==
  ASSUME SlotsTyped', NEW q \in on'
  PROVE  Cardinality(AheadOf(q)') \in Nat /\ Cardinality(AheadOf(q)') < Cardinality(on')
<1>1. AheadOf(q)' = {p \in on' : Distance(p)' < Distance(q)'} /\ on' \in SUBSET Path /\ rr' \in Path /\ q \in Path
  BY DEF AheadOf, SlotsTyped
<1>2. Distance(q)' = IF q >= rr' THEN q - rr' ELSE q - rr' + Paths
  BY DEF Distance
<1>3. Distance(q)' \in Int
  BY <1>1, <1>2, SlotsValues
<1>4. AheadOf(q)' \in SUBSET (on' \ {q})
  BY <1>1, <1>3
<1> QED
  BY <1>1, <1>4, BeforeOthers

\* When the turn passes on from a path, those beyond it are nearer by as much,
\* and those up to it come last.
LEMMA TurnPassesOn ==
  ASSUME SlotsTyped, NEW p \in Path, rr' = (p + 1) % Paths, NEW q \in Path
  PROVE  Distance(q)' = IF Distance(q) > Distance(p) THEN Distance(q) - Distance(p) - 1
                        ELSE Distance(q) + Paths - Distance(p) - 1
<1>1. rr \in Nat /\ p \in Nat /\ q \in Nat /\ rr < Paths /\ p < Paths /\ q < Paths /\ Paths \in Nat \ {0}
  BY SlotsValues DEF SlotsTyped
<1>2. rr' = IF p + 1 < Paths THEN p + 1 ELSE 0
  BY <1>1, SMTT(30)
<1>3. Distance(q)' = IF q >= rr' THEN q - rr' ELSE q - rr' + Paths
  BY DEF Distance
<1> QED
  BY <1>1, <1>2, <1>3 DEF Distance

\* One that is passed over has one less before it.
LEMMA OneLessBefore ==
  ASSUME SlotsTyped, NEW p \in on, rr' = (p + 1) % Paths, on' = on, NEW q \in on, Distance(p) < Distance(q)
  PROVE  Cardinality(AheadOf(q)') < Cardinality(AheadOf(q)) /\ Cardinality(AheadOf(q)') \in Nat
<1>1. p \in Path /\ q \in Path /\ on \subseteq Path
  BY DEF SlotsTyped
<1>2. \A n \in Path : Distance(n) \in Nat /\ Distance(n) < Paths
  BY DistanceLeads, SlotsValues
<1>3. Distance(q)' = Distance(q) - Distance(p) - 1
  BY <1>1, TurnPassesOn
<1>4. AheadOf(q)' \in SUBSET (AheadOf(q) \ {p})
  <2> SUFFICES ASSUME NEW n \in on, Distance(n)' < Distance(q)'
               PROVE  Distance(n) < Distance(q) /\ n # p
    BY DEF AheadOf
  <2>1. n \in Path
    BY <1>1
  <2>2. Distance(n)' = IF Distance(n) > Distance(p) THEN Distance(n) - Distance(p) - 1 ELSE Distance(n) + Paths - Distance(p) - 1
    BY <1>1, <2>1, TurnPassesOn
  <2> QED
    BY <1>1, <1>2, <1>3, <2>1, <2>2, SlotsValues
<1>5. p \in AheadOf(q) /\ AheadOf(q) \in SUBSET Path
  BY <1>1 DEF AheadOf
<1> QED
  BY <1>4, <1>5, BeforeOthers

-----------------------------------------------------------------------------
\* The time since a path's slot, after a pass: no more than one later; a period
\* less when it keeps its cadence, next to none when it starts anew; and a frame
\* that was refused is due no earlier than the next pass.
LEMMA TimeSince ==
  ASSUME SlotsTyped, NEW p \in Path, time' = time + 1
  PROVE  /\ For(p) \in Nat
         /\ (last'[p] = last[p] => For(p)' <= For(p) + 1)
         /\ (last'[p] = Advance(p) /\ For(p) >= Period[speed][p] /\ For(p) < 2 * Period[speed][p] => For(p)' <= For(p) + 1 - Period[speed][p])
         /\ (last'[p] = Advance(p) /\ For(p) >= 2 * Period[speed][p] => For(p)' <= 1)
         /\ (last'[p] = Retry(p) => For(p)' <= 1 + Period[speed][p] - RetryIn)
         /\ (last' \in [Path -> Nat] => For(p)' \in Nat)
<1> DEFINE c == SlotWrap
           P == Period[speed][p]
           l == last[p]
           f == For(p)
           g == For(p)'
           l1 == last'[p]
<1>1. c \in Nat \ {0} /\ P \in Nat \ {0} /\ RetryIn \in Nat /\ RetryIn <= P /\ l \in Nat /\ time \in Nat
  BY SlotsValues DEF SlotsTyped
<1>2. f = (time - l) % c /\ g = (time' - l1) % c
  BY DEF For
<1>3. Advance(p) = (IF f < 2 * P THEN (l + P) % c ELSE time) /\ Retry(p) = (time - P + RetryIn) % c
  BY DEF Advance, Retry
<1> HIDE DEF c, P, l, f, g, l1
<1>4. f \in Nat /\ time' \in Nat
  BY <1>1, <1>2
<1>5. PICK u \in Int : u = time'
  BY <1>4
<1>6. u = time + 1 /\ g = (u - l1) % c
  BY <1>2, <1>5
<1>7. l1 = l => g <= f + 1
  <2>1. time \in Int /\ l \in Int /\ 1 \in Int
    BY <1>1
  <2>2. ((time - l) % c) + 1 >= 0
    BY <1>2, <1>4
  <2>3. u - l = time - l + 1
    BY <1>1, <1>6
  <2>4. (u - l) % c <= ((time - l) % c) + 1
    BY <1>1, <2>1, <2>2, <2>3, SinceMoved, Zenon
  <2> QED
    BY <1>2, <1>6, <2>4
<1>8. l1 = Advance(p) /\ f >= P /\ f < 2 * P => g <= f + 1 - P
  <2> SUFFICES ASSUME l1 = Advance(p), f >= P, f < 2 * P PROVE g <= f + 1 - P
    OBVIOUS
  <2> DEFINE m == l + P
             e == 1 - P
  <2>1. g = (u - (m % c)) % c
    BY <1>6, <1>3
  <2>2. m \in Int /\ e \in Int /\ u - m = time - l + e
    BY <1>1, <1>6
  <2>3. f + e >= 0 /\ f + e = f + 1 - P
    BY <1>1, <1>4
  <2> HIDE DEF m, e
  <2>4. (u - (m % c)) % c = (u - m) % c
    BY <1>1, <2>2, SinceReading
  <2>5. (u - m) % c <= ((time - l) % c) + e
    BY <1>1, <1>2, <1>4, <2>2, <2>3, SinceMoved
  <2> QED
    BY <1>2, <2>1, <2>3, <2>4, <2>5
<1>9. l1 = Advance(p) /\ f >= 2 * P => g <= 1
  <2> SUFFICES ASSUME l1 = Advance(p), f >= 2 * P PROVE g <= 1
    OBVIOUS
  <2>1. l1 = time
    BY <1>1, <1>3, <1>4
  <2>2. u - l1 = 1
    BY <1>1, <1>6, <2>1
  <2> QED
    BY <1>1, <1>6, <2>2, AtMostItself
<1>10. l1 = Retry(p) => g <= 1 + P - RetryIn
  <2> SUFFICES ASSUME l1 = Retry(p) PROVE g <= 1 + P - RetryIn
    OBVIOUS
  <2> DEFINE m == time - P + RetryIn
             e == 1 + P - RetryIn
  <2>1. g = (u - (m % c)) % c
    BY <1>6, <1>3
  <2>2. m \in Int /\ e \in Nat /\ u - m = e
    BY <1>1, <1>6
  <2> HIDE DEF m
  <2>3. (u - (m % c)) % c = (u - m) % c
    BY <1>1, <2>2, SinceReading
  <2>4. e % c <= e
    BY <1>1, <2>2, AtMostItself
  <2> QED
    BY <2>1, <2>2, <2>3, <2>4
<1>11. last' \in [Path -> Nat] => g \in Nat
  <2>1. last' \in [Path -> Nat] => l1 \in Nat
    BY DEF l1
  <2> QED
    BY <1>1, <1>2, <1>4, <2>1
<1> QED
  BY <1>4, <1>7, <1>8, <1>9, <1>10, <1>11 DEF c, P, l, f, g, l1

LEMMA SlotsInitially == SlotInit => SlotsInv
<1> SUFFICES ASSUME SlotInit PROVE SlotsInv
  OBVIOUS
<1>1. SlotsTyped
  BY SlotsValues DEF SlotInit, SlotsTyped, Path
<1>2. PassedOver
  <2>1. \A q \in on : waits[q] = 0
    BY <1>1 DEF SlotInit, SlotsTyped
  <2> QED
    BY <1>1, <2>1, NoneBeforeItself DEF PassedOver
<1>3. Cadence
  BY DEF SlotInit, Cadence
<1> QED
  BY <1>1, <1>2, <1>3 DEF SlotsInv

\* A path for which no frame went out and whose slot is no later than it was, or
\* whose frame was refused.
LEMMA CadenceWaits ==
  ASSUME SlotsInv, NEW p \in Path, time' = time + 1, speed' = speed, last' \in [Path -> Nat],
         frames'.n[p] = frames.n[p], frames'.from = frames.from,
         For(p)' <= For(p) + 1, frames'.n[p] > 0
  PROVE  frames'.n[p] * Period[speed][p] + For(p)' < (time' - frames'.from) + 2 * Period[speed][p]
<1> DEFINE P == Period[speed][p]
           n == frames.n[p]
           f == For(p)
           g == For(p)'
<1>1. P \in Nat \ {0} /\ n \in Nat /\ time \in Nat /\ frames.from \in Nat /\ f \in Nat /\ g \in Nat
  BY SlotsValues, TimeSince DEF SlotsInv, SlotsTyped
<1>2. n * P + f < (time - frames.from) + 2 * P
  BY DEF SlotsInv, Cadence
<1>3. n * P \in Nat
  BY <1>1
<1> HIDE DEF P, f, g
<1>4. g <= f + 1
  BY DEF f, g
<1>5. n * P + g < (time + 1 - frames.from) + 2 * P
  BY <1>1, <1>2, <1>3, <1>4
<1>6. time' - frames'.from = time + 1 - frames.from
  BY <1>1
<1> QED
  BY <1>5, <1>6 DEF P, g

\* One that went out keeps the cadence or starts anew.
LEMMA CadenceSends ==
  ASSUME SlotsInv, NEW p \in Path, time' = time + 1, speed' = speed, last' \in [Path -> Nat],
         frames'.n[p] = frames.n[p] + 1, frames'.from = frames.from,
         For(p) >= Period[speed][p], last'[p] = Advance(p)
  PROVE  frames'.n[p] * Period[speed][p] + For(p)' < (time' - frames'.from) + 2 * Period[speed][p]
<1> DEFINE P == Period[speed][p]
           n == frames.n[p]
           f == For(p)
           g == For(p)'
           T == time - frames.from
<1>1. P \in Nat \ {0} /\ n \in Nat /\ f \in Nat /\ g \in Nat /\ T \in Nat /\ f >= P
  BY SlotsValues, TimeSince DEF SlotsInv, SlotsTyped
<1>2. n > 0 => n * P + f < T + 2 * P
  BY DEF SlotsInv, Cadence
<1>3. (f < 2 * P => g <= f + 1 - P) /\ (f >= 2 * P => g <= 1)
  BY TimeSince DEF SlotsInv
<1>4. time' - frames'.from = T + 1 /\ frames'.n[p] = n + 1
  BY DEF SlotsInv, SlotsTyped
<1> HIDE DEF P, f, g, T, n
<1>5. n * P \in Nat /\ (n + 1) * P = n * P + P /\ (n = 0 => n * P = 0)
  BY <1>1
<1>6. (n + 1) * P + g < T + 1 + 2 * P
  <2>1. CASE f < 2 * P
    BY <1>1, <1>2, <1>3, <1>5, <2>1
  <2>2. CASE f >= 2 * P
    BY <1>1, <1>2, <1>3, <1>5, <2>2
  <2> QED
    BY <1>1, <2>1, <2>2
<1> QED
  BY <1>4, <1>6 DEF P, g

LEMMA SendFrameKeeps ==
  ASSUME SlotsInv, SendFrame
  PROVE  SlotsInv'
<1> USE DEF SlotsInv
<1>1. PICK p \in Path : p = Next1
  BY NearestSent DEF SendFrame
<1>2. /\ Due(p) /\ p \in on /\ For(p) >= Period[speed][p]
      /\ \A q \in Path : Due(q) => Distance(p) <= Distance(q)
  BY <1>1, NearestSent DEF SendFrame, Due
<1>3. /\ time' = time + 1 /\ UNCHANGED <<on, speed, changed>> /\ rr' = (p + 1) % Paths
      /\ waits' = [q \in Path |-> IF q # p /\ Due(q) THEN waits[q] + 1 ELSE 0]
      /\ \/ /\ last' = [last EXCEPT ![p] = Advance(p)] /\ frames' = [frames EXCEPT !.n[p] = @ + 1]
            /\ UNCHANGED refused
         \/ /\ refused' = [refused EXCEPT ![p] = @ + 1]
            /\ last' = [last EXCEPT ![p] = Retry(p)] /\ UNCHANGED frames
  BY <1>1 DEF SendFrame, PassOn
<1>4. Advance(p) \in Nat /\ Retry(p) \in Nat
  <2>1. last[p] + Period[speed][p] \in Int /\ time - Period[speed][p] + RetryIn \in Int /\ SlotWrap \in Nat \ {0} /\ time \in Nat
    BY SlotsValues DEF SlotsTyped
  <2> QED
    BY <2>1 DEF Advance, Retry
<1>5. SlotsTyped'
  <2>1. rr' \in Path
    BY <1>3, SlotsValues, SMTT(30) DEF SlotsTyped, Path
  <2>2. waits' \in [Path -> Nat]
    BY <1>3 DEF SlotsTyped
  <2>3. last' \in [Path -> Nat] /\ refused' \in [Path -> Nat]
    BY <1>3, <1>4 DEF SlotsTyped
  <2>4. DOMAIN frames' = {"n", "from"} /\ frames'.n \in [Path -> Nat] /\ frames'.from = frames.from
    BY <1>3 DEF SlotsTyped
  <2> QED
    BY <1>3, <2>1, <2>2, <2>3, <2>4 DEF SlotsTyped
<1>6. PassedOver'
  <2> SUFFICES ASSUME NEW q \in on PROVE waits'[q] + Cardinality(AheadOf(q)') < Cardinality(on)
    BY <1>3 DEF PassedOver
  <2>1. q \in Path
    BY DEF SlotsTyped
  <2>2. CASE q # p /\ Due(q)
    <3>1. Distance(p) <= Distance(q) /\ Distance(p) # Distance(q)
      <4>1. (rr + Distance(p)) % Paths = p /\ (rr + Distance(q)) % Paths = q
        BY <2>1, DistanceLeads
      <4> QED
        BY <1>2, <2>1, <2>2, <4>1
    <3>2. Distance(p) < Distance(q)
      <4>1. Distance(p) \in Nat /\ Distance(q) \in Nat
        BY <2>1, DistanceLeads, SlotsValues
      <4> QED
        BY <3>1, <4>1
    <3>3. Cardinality(AheadOf(q)') < Cardinality(AheadOf(q)) /\ Cardinality(AheadOf(q)') \in Nat
      BY <1>2, <1>3, <3>2, OneLessBefore
    <3>4. waits'[q] = waits[q] + 1 /\ waits[q] \in Nat
      BY <1>3, <2>1, <2>2 DEF SlotsTyped
    <3>5. waits[q] + Cardinality(AheadOf(q)) < Cardinality(on)
      BY DEF PassedOver
    <3>6. Cardinality(AheadOf(q)) \in Nat /\ Cardinality(on) \in Nat
      <4>1. IsFiniteSet(on)
        BY SlotsValues, FS_Subset DEF SlotsTyped
      <4> QED
        BY <4>1, FS_CardinalityType, NoneBeforeItself
    <3> QED
      BY <3>3, <3>4, <3>5, <3>6
  <2>3. CASE ~(q # p /\ Due(q))
    <3>1. waits'[q] = 0
      BY <1>3, <2>1, <2>3
    <3>2. \A n \in on' : Cardinality(AheadOf(n)') \in Nat /\ Cardinality(AheadOf(n)') < Cardinality(on')
      BY <1>5, NoneBeforeItselfThen
    <3> QED
      BY <1>3, <3>1, <3>2
  <2> QED
    BY <2>2, <2>3
<1>7. Cadence'
  <2> SUFFICES ASSUME NEW q \in Path, frames'.n[q] > 0
               PROVE  frames'.n[q] * Period[speed][q] + For(q)' < (time' - frames'.from) + 2 * Period[speed][q]
    BY <1>3 DEF Cadence
  <2>0. last' \in [Path -> Nat] /\ frames'.from = frames.from
    BY <1>3, <1>5 DEF SlotsTyped
  <2>1. CASE q # p
    <3>1. last'[q] = last[q] /\ frames'.n[q] = frames.n[q]
      BY <1>3, <2>1 DEF SlotsTyped
    <3>2. For(q)' <= For(q) + 1
      BY <1>3, <3>1, TimeSince
    <3> QED
      BY <1>3, <2>0, <3>1, <3>2, CadenceWaits
  <2>2. CASE q = p /\ last' = [last EXCEPT ![p] = Advance(p)] /\ frames' = [frames EXCEPT !.n[p] = @ + 1]
    <3>1. last'[p] = Advance(p) /\ frames'.n[p] = frames.n[p] + 1
      BY <2>2 DEF SlotsTyped
    <3> QED
      BY <1>2, <1>3, <2>0, <2>2, <3>1, CadenceSends
  <2>3. CASE q = p /\ last' = [last EXCEPT ![p] = Retry(p)] /\ UNCHANGED frames
    <3>1. last'[p] = Retry(p) /\ frames'.n[p] = frames.n[p]
      BY <2>3 DEF SlotsTyped
    <3>2. For(p)' <= 1 + Period[speed][p] - RetryIn /\ For(p) \in Nat /\ For(p)' \in Nat
      BY <1>3, <2>0, <3>1, TimeSince
    <3>3. For(p)' <= For(p) + 1
      BY <1>2, <3>2, SlotsValues DEF SlotsTyped
    <3> QED
      BY <1>3, <2>0, <2>3, <3>1, <3>3, CadenceWaits
  <2> QED
    BY <1>3, <2>1, <2>2, <2>3
<1> QED
  BY <1>5, <1>6, <1>7

LEMMA NothingDueKeeps ==
  ASSUME SlotsInv, NothingDue
  PROVE  SlotsInv'
<1> USE DEF SlotsInv
<1>1. time' = time + 1 /\ UNCHANGED <<on, speed, changed, last, rr, waits, frames, refused>>
  BY DEF NothingDue, PassOn
<1>2. SlotsTyped'
  BY <1>1 DEF SlotsTyped
<1>3. PassedOver'
  BY <1>1 DEF PassedOver, AheadOf, Distance
<1>4. Cadence'
  <2> SUFFICES ASSUME NEW q \in Path, frames'.n[q] > 0
               PROVE  frames'.n[q] * Period[speed][q] + For(q)' < (time' - frames'.from) + 2 * Period[speed][q]
    BY <1>1 DEF Cadence
  <2>1. For(q)' <= For(q) + 1
    BY <1>1, TimeSince
  <2> QED
    BY <1>1, <1>2, <2>1, CadenceWaits DEF SlotsTyped
<1> QED
  BY <1>2, <1>3, <1>4

LEMMA ChangeKeeps ==
  ASSUME SlotsInv, Change
  PROVE  SlotsInv'
<1> USE DEF SlotsInv
<1>1. /\ on' \subseteq Path /\ speed' \in Speed
      /\ frames' = [n |-> [p \in Path |-> 0], from |-> time] /\ waits' = [p \in Path |-> 0]
      /\ refused' = [p \in Path |-> 0] /\ UNCHANGED <<last, rr, time>>
  BY DEF Change, SlotsTyped
<1>2. SlotsTyped'
  BY <1>1 DEF SlotsTyped
<1>3. PassedOver'
  <2>1. \A n \in on' : Cardinality(AheadOf(n)') \in Nat /\ Cardinality(AheadOf(n)') < Cardinality(on')
    BY <1>2, NoneBeforeItselfThen
  <2>2. \A n \in on' : waits'[n] = 0
    BY <1>1
  <2> QED
    BY <2>1, <2>2 DEF PassedOver
<1>4. Cadence'
  BY <1>1 DEF Cadence
<1> QED
  BY <1>2, <1>3, <1>4

LEMMA SlotsKept == SlotsInv /\ [SlotNext]_slotVars => SlotsInv'
<1> SUFFICES ASSUME SlotsInv, [SlotNext]_slotVars PROVE SlotsInv'
  OBVIOUS
<1>1. CASE UNCHANGED slotVars
  BY <1>1 DEF slotVars, SlotsInv, SlotsTyped, PassedOver, AheadOf, Distance, Cadence, For
<1> QED
  BY <1>1, SendFrameKeeps, NothingDueKeeps, ChangeKeeps DEF SlotNext

\* What the frames and the time since never exceed bounds the frames.
LEMMA AtMostTwoMore ==
  ASSUME NEW n \in Nat, NEW P \in Nat \ {0}, NEW f \in Nat, NEW T \in Nat, n * P + f < T + 2 * P
  PROVE  n <= T \div P + 2
<1>1. T \div P \in Int /\ T = P * (T \div P) + (T % P) /\ T % P < P /\ T % P \in Int
  BY SMTT(30)
<1> DEFINE q == T \div P
<1>2. q \in Int /\ n * P < P * q + P + 2 * P
  BY <1>1
<1> HIDE DEF q
<1>3. n >= q + 3 => n * P >= P * q + 3 * P
  BY <1>2, SMTT(30)
<1>4. ~(n >= q + 3)
  BY <1>2, <1>3
<1> QED
  BY <1>2, <1>4 DEF q

LEMMA SlotsInTurn == SlotSpec => [](NotPassedOver /\ NotTooOften)
<1>1. SlotsInv => NotPassedOver /\ NotTooOften
  <2> SUFFICES ASSUME SlotsInv PROVE NotPassedOver /\ NotTooOften
    OBVIOUS
  <2>1. NotPassedOver
    <3> SUFFICES ASSUME NEW p \in on PROVE waits[p] < Cardinality(on)
      BY DEF NotPassedOver
    <3>1. Cardinality(AheadOf(p)) \in Nat /\ Cardinality(on) \in Nat /\ waits[p] \in Nat
      <4>1. IsFiniteSet(on) /\ p \in Path
        BY SlotsValues, FS_Subset DEF SlotsInv, SlotsTyped
      <4> QED
        BY <4>1, FS_CardinalityType, NoneBeforeItself DEF SlotsInv, SlotsTyped
    <3> QED
      BY <3>1 DEF SlotsInv, PassedOver
  <2>2. NotTooOften
    <3> SUFFICES ASSUME NEW p \in Path PROVE frames.n[p] <= (time - frames.from) \div Period[speed][p] + 2
      BY DEF NotTooOften
    <3> DEFINE n == frames.n[p]
               P == Period[speed][p]
               f == For(p)
               T == time - frames.from
    <3>1. n \in Nat /\ P \in Nat \ {0} /\ T \in Nat
      BY SlotsValues DEF SlotsInv, SlotsTyped
    <3>2. f \in Nat
      BY SlotsValues DEF SlotsInv, SlotsTyped, For
    <3>3. n > 0 => n * P + f < T + 2 * P
      BY DEF SlotsInv, Cadence
    <3> HIDE DEF n, P, f, T
    <3>4. n > 0 => n <= T \div P + 2
      BY <3>1, <3>2, <3>3, AtMostTwoMore
    <3>5. T \div P >= 0
      BY <3>1, SMTT(30)
    <3>6. n <= T \div P + 2
      BY <3>1, <3>4, <3>5
    <3> QED
      BY <3>6 DEF n, P, T
  <2> QED
    BY <2>1, <2>2
<1> QED
  BY <1>1, SlotsInitially, SlotsKept, PTL DEF SlotSpec

-----------------------------------------------------------------------------
(***************************************************************************)
(* TxSets: that a path that is enabled comes on the air within the turn of  *)
(* the one it shares a set with, and a turn more for each call that fails   *)
(* and each setting that changes (SetsInTurn), for every set of rates,      *)
(* turns and cadences and any number of failures and changes.              *)
(*                                                                         *)
(* The argument: a path waits while another that wants the set has had it   *)
(* for less than a turn, so it has waited no longer than that one has had   *)
(* it; while it is being taken; and while its set is put off, which is not  *)
(* counted. What it waited for before is made up for by the turn a failed   *)
(* call allows. A pass leaves no path waiting for anything else.           *)
(***************************************************************************)
\* What failures and changes have cost so far.
Slack == Turn[rate] * (failed + switched)

WithinSlack(p) == idle[p] <= Slack

\* Another path that wants it has its set.
OthersTurn(p) ==
  /\ Wanted(p) /\ advs[SetOf(p)].active /\ advs[SetOf(p)].rate = rate
  /\ advs[SetOf(p)].path \in Wants(SetOf(p)) \ {p}

Lesser(a, b) == IF a < b THEN a ELSE b

\* It came on at this reading, or is about to.
JustOn(p) ==
  LET k == SetOf(p) IN
  advs[k].path = p /\ advs[k].active /\ advs[k].since = reading /\ advs[k].rate = rate
TakingIt(p) == pass.at \in Midway /\ pass.path = p /\ pass.k = SetOf(p)

\* For how long a path can have waited.
Waited(p) ==
  \/ WithinSlack(p)
  \/ OthersTurn(p) /\ idle[p] <= Slack + Lesser(reading - advs[SetOf(p)].since, Turn[rate])
  \/ (JustOn(p) \/ TakingIt(p)) /\ idle[p] <= Slack + Turn[rate]

AllWaited == \A p \in BlePath : Waited(p)

TurnsTyped ==
  /\ idle \in [BlePath -> Nat] /\ switched \in Nat
  /\ \A k \in SetNo : advs[k].since <= reading

\* While one is taken, the other of its set has not waited.
OtherHasNot ==
  pass.at \in Midway =>
    /\ SetOf(pass.path) = pass.k
    /\ \A p \in BlePath \ {pass.path} : SetOf(p) = pass.k => WithinSlack(p)

\* With a set for each none waits for another; and before a third is given up
\* for a configuration that failed, less than that allows.
OwnSets == nsets = 3 => \A p \in BlePath : WithinSlack(p)
GivingUp == nsets = 3 /\ pass.at = "start" /\ ~pass.ok => \A p \in BlePath : idle[p] < Slack

Unwanted == \A p \in BlePath : ~Wanted(p) => idle[p] = 0

\* A pass begins at the reading after a change at the latest.
JustChanged ==
  ~steady =>
    /\ switched >= 1
    /\ \A p \in BlePath : idle[p] <= 1 /\ (passed \/ pass.at # "between" => idle[p] = 0)

\* A path the pass has gone by is on its set, put off, or it is another's turn.
Served(p) ==
  Wanted(p) /\ ~PutOff(SetOf(p)) =>
    \/ advs[SetOf(p)].active /\ advs[SetOf(p)].path = p
    \/ OthersTurn(p) /\ reading - advs[SetOf(p)].since < Turn[rate]
    \/ idle[p] < Slack

BehindServed == steady => \A p \in BlePath : GoneBy(SetOf(p)) => Served(p)

TurnsInv ==
  /\ TurnsTyped /\ AllWaited /\ OtherHasNot /\ OwnSets /\ GivingUp
  /\ Unwanted /\ JustChanged /\ BehindServed

-----------------------------------------------------------------------------
\* The turns and what they add up to.
LEMMA Turns ==
  ASSUME SetsTyped, TurnsTyped
  PROVE  /\ Turn[rate] \in Nat \ {0} /\ failed \in Nat /\ switched \in Nat /\ reading \in Nat
         /\ Slack \in Nat /\ Turn[rate] * (1 + failed + switched) = Slack + Turn[rate]
         /\ (failed + switched > 0 => Slack >= Turn[rate])
         /\ \A k \in SetNo : advs[k].since \in Nat /\ advs[k].since <= reading
         /\ \A p \in BlePath : idle[p] \in Nat /\ SetOf(p) \in SetNo /\ SetOf(p) <= nsets
<1> DEFINE t == Turn[rate]
           n == failed + switched
<1>1. t \in Nat \ {0} /\ failed \in Nat /\ switched \in Nat /\ reading \in Nat /\ n \in Nat
  BY SetsValues DEF SetsTyped, TurnsTyped
<1>2. 1 + failed + switched = n + 1
  BY <1>1
<1> HIDE DEF t, n
<1>3. t * n \in Nat /\ t * (n + 1) = t * n + t
  BY <1>1
<1>4. n > 0 => t * n >= t
  <2>1. n > 0 => n - 1 \in Nat
    BY <1>1
  <2>2. n > 0 => t * (n - 1) \in Nat /\ t * n = t * (n - 1) + t
    BY <1>1, <2>1
  <2> QED
    BY <1>1, <2>2
<1>5. \A k \in SetNo : advs[k].since \in Nat /\ advs[k].since <= reading
  BY DEF SetsTyped, SetRecord, TurnsTyped
<1>6. \A p \in BlePath : idle[p] \in Nat /\ SetOf(p) \in SetNo /\ SetOf(p) <= nsets
  BY SetsValues DEF SetsTyped, TurnsTyped, SetOf, SetNo
<1> QED
  BY <1>1, <1>2, <1>3, <1>4, <1>5, <1>6 DEF Slack, t, n

\* The time since a set began is read as it is.
LEMMA SetSince ==
  ASSUME SetsTyped, TurnsTyped, NEW k \in SetNo
  PROVE  Since(advs[k].since) = reading - advs[k].since
<1> DEFINE d == reading - advs[k].since
<1>1. TxWrap \in Nat /\ reading \in 0 .. LastReading /\ LastReading \in Nat /\ TxWrap > 2 * LastReading /\ reading \in Nat
  BY SetsValues DEF SetsTyped
<1>2. d \in Nat /\ d < TxWrap
  BY <1>1, Turns
<1> HIDE DEF d
<1>3. d % TxWrap = d
  BY <1>1, <1>2, SMTT(30)
<1> QED
  BY <1>3 DEF d, Since

\* No path waits longer than a turn more.
LEMMA WaitedATurn ==
  ASSUME SetsTyped, TurnsTyped, AllWaited, NEW p \in BlePath
  PROVE  idle[p] <= Slack + Turn[rate]
<1>1. Slack \in Nat /\ Turn[rate] \in Nat /\ idle[p] \in Nat
  BY Turns
<1>2. Lesser(reading - advs[SetOf(p)].since, Turn[rate]) <= Turn[rate]
  <2>1. reading - advs[SetOf(p)].since \in Int
    BY Turns
  <2> QED
    BY <1>1, <2>1 DEF Lesser
<1>3. Lesser(reading - advs[SetOf(p)].since, Turn[rate]) \in Int
  BY <1>1, Turns DEF Lesser
<1>4. CASE WithinSlack(p)
  BY <1>1, <1>4 DEF WithinSlack
<1>5. CASE idle[p] <= Slack + Lesser(reading - advs[SetOf(p)].since, Turn[rate])
  BY <1>1, <1>2, <1>3, <1>5
<1> QED
  BY <1>4, <1>5 DEF AllWaited, Waited

\* No three share a set.
LEMMA TwoShare ==
  ASSUME nsets \in {2, 3}, NEW p \in BlePath, NEW q \in BlePath, NEW r \in BlePath,
         SetOf(p) = SetOf(q), SetOf(q) = SetOf(r), p # q, q # r, p # r
  PROVE  FALSE
BY SetsValues DEF SetOf

LEMMA NoneShares ==
  ASSUME nsets = 3, NEW p \in BlePath, NEW q \in BlePath, SetOf(p) = SetOf(q)
  PROVE  p = q
BY SetsValues DEF SetOf

\* Whose turn it is after another is another.
LEMMA NextIsOther ==
  ASSUME NEW want \in SUBSET BlePath, NEW cur \in want, want # {cur}
  PROVE  LET after == {p \in want : PathOrder[p] > PathOrder[cur]} IN
         FirstPath(IF after = {} THEN want ELSE after) # cur
<1> DEFINE after == {p \in want : PathOrder[p] > PathOrder[cur]}
<1>1. \A p \in BlePath : PathOrder[p] \in Nat
  BY SetsValues
<1>2. CASE after # {}
  <2>1. FirstPath(after) \in after
    BY <1>2, FirstIsOne
  <2> QED
    BY <1>1, <1>2, <2>1
<1>3. CASE after = {}
  <2>1. PICK q \in want : q # cur
    OBVIOUS
  <2>2. PathOrder[q] < PathOrder[cur]
    <3>1. ~(PathOrder[q] > PathOrder[cur])
      BY <1>3
    <3>2. PathOrder[q] # PathOrder[cur]
      BY <2>1, SetsValues
    <3> QED
      BY <1>1, <3>1, <3>2
  <2>3. PathOrder[FirstPath(want)] <= PathOrder[q] /\ FirstPath(want) \in want
    BY FirstIsOne
  <2> QED
    BY <1>1, <1>3, <2>2, <2>3
<1> QED
  BY <1>2, <1>3

-----------------------------------------------------------------------------
(* The steps of a pass. *)

\* A call that fails allows a turn more.
LEMMA PassSlack ==
  ASSUME SetsTyped, TurnsTyped, UNCHANGED settings
  PROVE  /\ failed' = failed => Slack' = Slack
         /\ failed' = failed + 1 => Slack' = Slack + Turn[rate]
<1>1. Slack' = Turn[rate] * (failed' + switched)
  BY DEF Slack, settings
<1>2. Turn[rate] * (1 + failed + switched) = Slack + Turn[rate] /\ failed \in Nat /\ switched \in Nat
  BY Turns
<1>3. failed + 1 + switched = 1 + failed + switched
  BY <1>2
<1> QED
  BY <1>1, <1>2, <1>3 DEF Slack

LEMMA FailedCall ==
  ASSUME SetsInv, TurnsInv, UNCHANGED settings, failed' = failed + 1,
         \A p \in BlePath : idle'[p] \in Nat /\ idle'[p] <= idle[p]
  PROVE  \A p \in BlePath : WithinSlack(p)' /\ (WithinSlack(p) => idle'[p] < Slack')
<1> SUFFICES ASSUME NEW p \in BlePath
             PROVE  WithinSlack(p)' /\ (WithinSlack(p) => idle'[p] < Slack')
  OBVIOUS
<1>1. Slack' = Slack + Turn[rate]
  BY PassSlack DEF SetsInv, TurnsInv
<1>2. idle[p] <= Slack + Turn[rate] /\ Slack \in Nat /\ Turn[rate] \in Nat \ {0} /\ idle[p] \in Nat /\ idle'[p] \in Nat /\ idle'[p] <= idle[p]
  BY WaitedATurn, Turns DEF SetsInv, TurnsInv
<1> QED
  BY <1>1, <1>2 DEF WithinSlack

\* What a pass leaves as it is.
LEMMA PassRest ==
  ASSUME SetsInv, TurnsInv, pass.at # "between", UNCHANGED <<settings, reading, steady>>,
         idle' \in [BlePath -> Nat], \A p \in BlePath : idle'[p] = idle[p] \/ idle'[p] = 0
  PROVE  Unwanted' /\ JustChanged'
<1>1. Unwanted'
  BY DEF TurnsInv, Unwanted, Wanted, settings
<1>2. JustChanged'
  <2> SUFFICES ASSUME ~steady PROVE switched' >= 1 /\ \A p \in BlePath : idle'[p] <= 1 /\ idle'[p] = 0
    BY DEF JustChanged
  <2>1. switched >= 1 /\ \A p \in BlePath : idle[p] = 0
    BY DEF TurnsInv, JustChanged
  <2> QED
    BY <2>1 DEF settings
<1> QED
  BY <1>1, <1>2

\* A path of another set has waited as it had.
LEMMA ElsewhereWaited ==
  ASSUME SetsInv, TurnsInv, UNCHANGED <<settings, reading>>, nsets' = nsets, failed' = failed,
         \A n \in SetNo \ {pass.k} : advs'[n] = advs[n],
         NEW p \in BlePath, SetOf(p) # pass.k, idle'[p] = idle[p]
  PROVE  Waited(p)'
<1>1. Slack' = Slack
  BY PassSlack DEF SetsInv, TurnsInv
<1>2. SetOf(p)' = SetOf(p) /\ advs'[SetOf(p)] = advs[SetOf(p)]
  <2>1. SetOf(p) \in SetNo
    BY Turns DEF SetsInv, TurnsInv
  <2> QED
    BY <2>1 DEF SetOf
<1>3. Wanted(p)' = Wanted(p) /\ Wants(SetOf(p))' = Wants(SetOf(p)) /\ rate' = rate /\ reading' = reading
  BY <1>2 DEF Wants, Wanted, SetOf, settings
<1>4. ~TakingIt(p)
  BY DEF TakingIt
<1>5. OthersTurn(p) => OthersTurn(p)'
  BY <1>2, <1>3 DEF OthersTurn
<1>6. JustOn(p) => JustOn(p)'
  BY <1>2, <1>3 DEF JustOn
<1>7. WithinSlack(p) => WithinSlack(p)'
  BY <1>1 DEF WithinSlack
<1>8. Waited(p)
  BY DEF TurnsInv, AllWaited
<1> QED
  BY <1>1, <1>2, <1>3, <1>4, <1>5, <1>6, <1>7, <1>8 DEF Waited

\* The path that is served, and one that is served elsewhere.
LEMMA StaysServed ==
  ASSUME SetsInv, TurnsInv, UNCHANGED <<settings, reading>>, nsets' = nsets, failed' = failed \/ failed' = failed + 1,
         NEW p \in BlePath, advs'[SetOf(p)] = advs[SetOf(p)],
         idle' \in [BlePath -> Nat], idle'[p] = idle[p] \/ idle'[p] = 0, Served(p)
  PROVE  Served(p)'
<1>1. Slack \in Nat /\ Turn[rate] \in Nat /\ idle[p] \in Nat
  BY Turns DEF SetsInv, TurnsInv
<1>2. Slack' >= Slack /\ Slack' \in Nat
  BY <1>1, PassSlack DEF SetsInv, TurnsInv
<1>3. SetOf(p)' = SetOf(p)
  BY DEF SetOf
<1>4. Wanted(p)' = Wanted(p) /\ Wants(SetOf(p))' = Wants(SetOf(p)) /\ rate' = rate /\ reading' = reading
  BY <1>3 DEF Wants, Wanted, SetOf, settings
<1>5. PutOff(SetOf(p))' = PutOff(SetOf(p))
  BY <1>3, <1>4 DEF PutOff, Since
<1>6. OthersTurn(p) => OthersTurn(p)'
  BY <1>3, <1>4 DEF OthersTurn
<1>7. idle[p] < Slack => idle'[p] < Slack'
  BY <1>1, <1>2
<1> QED
  BY <1>3, <1>4, <1>5, <1>6, <1>7 DEF Served

LEMMA PassServes ==
  ASSUME SetsInv, TurnsInv, UNCHANGED <<settings, reading, steady>>, pass.at # "between",
         nsets' = nsets, failed' = failed \/ failed' = failed + 1,
         \A n \in SetNo \ {pass.k} : advs'[n] = advs[n],
         idle' \in [BlePath -> Nat], \A p \in BlePath : idle'[p] = idle[p] \/ idle'[p] = 0,
         \/ NextSet(nsets) /\ (steady => \A p \in BlePath : SetOf(p) = pass.k => Served(p)')
         \/ pass'.at \in Midway /\ pass'.k = pass.k
  PROVE  BehindServed'
<1> SUFFICES ASSUME steady, NEW p \in BlePath, GoneBy(SetOf(p))'
             PROVE  Served(p)'
  BY DEF BehindServed
<1> DEFINE k == SetOf(p)
<1>1. k \in SetNo /\ k <= nsets /\ nsets \in Nat /\ SetOf(p)' = k /\ k \in Nat
  BY Turns DEF SetsInv, SetsTyped, TurnsInv, SetOf, SetNo
<1>2. ASSUME k # pass.k, GoneBy(k) PROVE Served(p)'
  <2>1. Served(p)
    BY <1>2 DEF TurnsInv, BehindServed
  <2> QED
    BY <1>1, <1>2, <2>1, StaysServed
<1>3. CASE NextSet(nsets) /\ (steady => \A q \in BlePath : SetOf(q) = pass.k => Served(q)')
  <2>1. NextSet(nsets') /\ nsets' \in {2, 3} /\ SetsTyped
    BY <1>3 DEF SetsInv, SetsTyped
  <2>2. \A n \in SetNo : GoneBy(n)' => GoneBy(n) \/ n = pass.k \/ n > nsets'
    BY <2>1, OnToNext
  <2>3. GoneBy(k)'
    <3>1. \A n \in SetNo : n = k => (GoneBy(n)' <=> GoneBy(SetOf(p))')
      BY <1>1 DEF GoneBy
    <3> QED
      BY <1>1, <3>1
  <2>4. GoneBy(k) \/ k = pass.k
    BY <1>1, <2>2, <2>3
  <2> QED
    BY <1>2, <1>3, <2>4
<1>4. CASE pass'.at \in Midway /\ pass'.k = pass.k
  <2>1. k < pass.k
    BY <1>1, <1>4 DEF GoneBy, Midway
  <2>2. GoneBy(k) /\ k # pass.k
    <3>1. pass.k \in Nat
      BY DEF SetsInv, SetsTyped, PassRecord, SetNo
    <3> QED
      BY <1>1, <2>1, <3>1 DEF GoneBy
  <2> QED
    BY <1>2, <2>2
<1> QED
  BY <1>3, <1>4

\* A step of the pass that changes nothing but its set, and either goes on and
\* leaves the paths of it served or is taking one of them.
LEMMA PassTurns ==
  ASSUME SetsInv, TurnsInv, pass.at # "between", UNCHANGED <<settings, reading, steady, nsets>>,
         failed' = failed \/ failed' = failed + 1,
         \A n \in SetNo \ {pass.k} : advs'[n] = advs[n],
         \A n \in SetNo : advs'[n].since <= reading,
         idle' \in [BlePath -> Nat], \A p \in BlePath : idle'[p] = idle[p] \/ idle'[p] = 0,
         failed' = failed => \A p \in BlePath : SetOf(p) = pass.k => Waited(p)',
         \/ NextSet(nsets) /\ (steady => \A p \in BlePath : SetOf(p) = pass.k => Served(p)')
         \/ /\ pass'.at \in Midway /\ pass'.k = pass.k /\ SetOf(pass'.path) = pass.k
            /\ failed' = failed => \A p \in BlePath \ {pass'.path} : SetOf(p) = pass.k => WithinSlack(p)
            /\ pass'.at = "start" /\ ~pass'.ok => failed' = failed + 1
  PROVE  TurnsInv'
<1>1. /\ Slack \in Nat /\ Turn[rate] \in Nat \ {0} /\ \A p \in BlePath : idle[p] \in Nat /\ idle'[p] \in Nat /\ idle'[p] <= idle[p]
      /\ Slack' \in Nat /\ Slack' >= Slack /\ (failed' = failed + 1 => Slack' > Slack)
  <2>1. Slack \in Nat /\ Turn[rate] \in Nat \ {0} /\ \A p \in BlePath : idle[p] \in Nat
    BY Turns DEF SetsInv, TurnsInv
  <2>2. (failed' = failed => Slack' = Slack) /\ (failed' = failed + 1 => Slack' = Slack + Turn[rate])
    BY PassSlack DEF SetsInv, TurnsInv
  <2> QED
    BY <2>1, <2>2
<1>2. TurnsTyped'
  BY DEF TurnsInv, TurnsTyped, settings
<1>3. \A p \in BlePath : WithinSlack(p) => WithinSlack(p)'
  BY <1>1 DEF WithinSlack
<1>4. AllWaited'
  <2> SUFFICES ASSUME NEW p \in BlePath PROVE Waited(p)'
    BY DEF AllWaited
  <2>1. CASE failed' = failed + 1
    BY <1>1, <2>1, FailedCall DEF Waited
  <2>2. CASE failed' = failed /\ SetOf(p) = pass.k
    BY <2>2
  <2>3. CASE failed' = failed /\ SetOf(p) # pass.k /\ idle'[p] = idle[p]
    BY <2>3, ElsewhereWaited
  <2>4. CASE idle'[p] = 0
    BY <1>1, <2>4 DEF Waited, WithinSlack
  <2> QED
    BY <2>1, <2>2, <2>3, <2>4
<1>5. \/ pass'.at \in {"between", "set"}
      \/ /\ pass'.at \in Midway /\ pass'.k = pass.k /\ SetOf(pass'.path) = pass.k
         /\ \A p \in BlePath \ {pass'.path} : SetOf(p) = pass.k => WithinSlack(p)'
         /\ pass'.at = "start" /\ ~pass'.ok => failed' = failed + 1
  <2>1. NextSet(nsets) => pass'.at \in {"between", "set"}
    <3> SUFFICES ASSUME NextSet(nsets) PROVE pass'.at \in {"between", "set"}
      OBVIOUS
    <3>1. NextSet(nsets') /\ nsets' \in {2, 3} /\ SetsTyped
      BY DEF SetsInv, SetsTyped
    <3> QED
      BY <3>1, OnToNext
  <2>2. failed' = failed + 1 => \A p \in BlePath : WithinSlack(p)'
    BY <1>1, FailedCall
  <2> QED
    BY <1>3, <2>1, <2>2
<1>6. OtherHasNot'
  <2>1. \A p : SetOf(p)' = SetOf(p)
    BY DEF SetOf
  <2>2. SetOf(pass.path)' = SetOf(pass'.path)
    BY DEF SetOf
  <2> QED
    BY <1>3, <1>5, <2>1, <2>2 DEF OtherHasNot, Midway
<1>7. OwnSets'
  BY <1>3 DEF OwnSets, TurnsInv
<1>8. GivingUp'
  <2> SUFFICES ASSUME nsets = 3, pass'.at = "start", ~pass'.ok, NEW p \in BlePath PROVE idle'[p] < Slack'
    BY DEF GivingUp
  <2>1. failed' = failed + 1
    BY <1>5
  <2>2. WithinSlack(p)
    BY DEF TurnsInv, OwnSets
  <2> QED
    BY <1>1, <2>1, <2>2, FailedCall
<1>9. Unwanted' /\ JustChanged'
  BY PassRest
<1>10. BehindServed'
  BY PassServes
<1> QED
  BY <1>2, <1>4, <1>6, <1>7, <1>8, <1>9, <1>10 DEF TurnsInv

LEMMA QuietenTurns ==
  ASSUME SetsInv, TurnsInv, Quieten
  PROVE  TurnsInv'
<1>0. PICK k \in SetNo : k = pass.k
  BY DEF SetsInv, SetsTyped, PassRecord
<1>1. /\ pass.at = "set" /\ Wants(k) = {} /\ NextSet(nsets) /\ UNCHANGED <<always, nsets, idle>>
      /\ failed' = failed \/ failed' = failed + 1
      /\ \/ UNCHANGED advs \/ advs' = [advs EXCEPT ![k].retry = Later(StopRetry)]
         \/ advs' = [advs EXCEPT ![k].active = FALSE, ![k].path = NoPath] \/ advs' = [advs EXCEPT ![k].path = NoPath]
  BY <1>0 DEF Quieten, CallWorks, CallFails
<1>2. \A n \in SetNo : advs'[n].since = advs[n].since /\ (n # k => advs'[n] = advs[n])
  BY <1>1 DEF SetsInv, SetsTyped, SetRecord
<1>3. /\ \A n \in SetNo : advs'[n].since <= reading
      /\ idle' \in [BlePath -> Nat] /\ \A p \in BlePath : idle'[p] = idle[p]
  BY <1>1, <1>2 DEF TurnsInv, TurnsTyped
<1>4. \A p \in BlePath : SetOf(p) = k => ~Wanted(p) /\ ~Wanted(p)' /\ idle[p] = 0
  BY <1>1 DEF Wants, TurnsInv, Unwanted, Wanted, always, settings
<1>5. \A p \in BlePath : SetOf(p) = k => Served(p)'
  BY <1>4 DEF Served
<1>6. failed' = failed => \A p \in BlePath : SetOf(p) = k => Waited(p)'
  <2>1. failed' = failed => Slack' = Slack
    BY <1>1, PassSlack DEF SetsInv, TurnsInv, always
  <2>2. Slack \in Nat
    BY Turns DEF SetsInv, TurnsInv
  <2> QED
    BY <1>3, <1>4, <2>1, <2>2 DEF Waited, WithinSlack
<1> QED
  BY <1>0, <1>1, <1>2, <1>3, <1>5, <1>6, PassTurns DEF always

\* Who takes a set from another takes it when the other's turn is over; a path
\* that is passed over then has not waited.
LEMMA TakenInTurn ==
  ASSUME SetsInv, TurnsInv, pass.at = "set", NEW k \in SetNo, k = pass.k, Wants(k) # {}, MustTake(k),
         NEW p \in BlePath, SetOf(p) = k, p # OnTurn(k)
  PROVE  WithinSlack(p)
<1> DEFINE cur == advs[k].path
           want == Wants(k)
<1>1. OnTurn(k) \in want /\ want \in SUBSET BlePath /\ \A q \in want : q \in BlePath /\ SetOf(q) = k
  BY OnTurnWants DEF Wants
<1>2. nsets \in {2, 3} /\ Slack \in Nat /\ Turn[rate] \in Nat \ {0} /\ reading \in Nat
  BY Turns DEF SetsInv, SetsTyped, TurnsInv
<1>3. CASE ~Wanted(p)
  BY <1>2, <1>3 DEF TurnsInv, Unwanted, WithinSlack
<1>4. CASE ~steady
  BY <1>2, <1>4 DEF TurnsInv, JustChanged, WithinSlack
<1>5. CASE Wanted(p) /\ steady
  <2>1. p \in want /\ pass.r = rate
    BY <1>5 DEF Wants, SetsInv, GoesBySettings
  <2>2. ~OthersTurn(p)
    <3> SUFFICES ASSUME OthersTurn(p) PROVE FALSE
      OBVIOUS
    <3>1. advs[k].active /\ advs[k].rate = rate /\ cur \in want /\ cur # p
      BY DEF OthersTurn
    <3>2. OnTurn(k) # cur
      BY <3>1 DEF MustTake
    <3> QED
      BY <1>1, <1>2, <2>1, <3>1, <3>2, TwoShare
  <2>3. ~JustOn(p)
    <3> SUFFICES ASSUME JustOn(p) PROVE FALSE
      OBVIOUS
    <3>1. cur = p /\ advs[k].since = reading
      BY DEF JustOn
    <3>2. Since(advs[k].since) = 0
      BY <1>2, <3>1, SetSince DEF SetsInv, TurnsInv
    <3>3. ~(Since(advs[k].since) >= Turn[pass.r])
      BY <1>2, <2>1, <3>2
    <3>4. OnTurn(k) = cur
      BY <2>1, <3>1, <3>3 DEF OnTurn
    <3> QED
      BY <3>1, <3>4
  <2>4. ~TakingIt(p)
    BY DEF TakingIt, Midway
  <2> QED
    BY <2>2, <2>3, <2>4 DEF TurnsInv, AllWaited, Waited
<1> QED
  BY <1>3, <1>4, <1>5

\* A set left as it is is that of the path, or of another whose turn it is.
LEMMA LeftInTurn ==
  ASSUME SetsInv, TurnsInv, pass.at = "set", steady, NEW k \in SetNo, k = pass.k, Wants(k) # {}, ~MustTake(k),
         NEW p \in BlePath, SetOf(p) = k
  PROVE  Served(p)
<1> DEFINE cur == advs[k].path
           want == Wants(k)
           after == {q \in want : PathOrder[q] > PathOrder[cur]}
<1>1. OnTurn(k) = cur /\ advs[k].active /\ advs[k].rate = rate /\ cur \in want /\ want \in SUBSET BlePath
  BY OnTurnWants DEF MustTake, Wants
<1>2. pass.r = rate /\ Turn[rate] \in Nat \ {0} /\ reading - advs[k].since \in Int
  BY Turns DEF SetsInv, GoesBySettings, TurnsInv
<1> SUFFICES ASSUME Wanted(p), p # cur
             PROVE  OthersTurn(p) /\ reading - advs[k].since < Turn[rate]
  BY <1>1 DEF Served
<1>3. p \in want /\ want # {cur}
  BY DEF Wants
<1>4. OthersTurn(p)
  BY <1>1 DEF OthersTurn
<1>5. ~(Since(advs[k].since) >= Turn[pass.r])
  <2>1. FirstPath(IF after = {} THEN want ELSE after) # cur
    BY <1>1, <1>3, NextIsOther
  <2> QED
    BY <1>1, <1>3, <2>1 DEF OnTurn
<1>6. Since(advs[k].since) = reading - advs[k].since
  BY SetSince DEF SetsInv, TurnsInv
<1> QED
  BY <1>2, <1>4, <1>5, <1>6

LEMMA ServeTurns ==
  ASSUME SetsInv, TurnsInv, Serve
  PROVE  TurnsInv'
<1>0. PICK k \in SetNo : k = pass.k
  BY DEF SetsInv, SetsTyped, PassRecord
<1>1. PICK p : p = OnTurn(k)
  OBVIOUS
<1>2. /\ pass.at = "set" /\ Wants(k) # {} /\ UNCHANGED <<always, nsets, idle>>
      /\ \/ (PutOff(k) \/ ~MustTake(k)) /\ NextSet(nsets)
            /\ \/ UNCHANGED advs
               \/ advs' = [advs EXCEPT ![k].data = Advanced(@, Every[pass.r][p])]
            /\ failed' = failed
         \/ /\ pass' = [pass EXCEPT !.at = "take", !.path = p] /\ UNCHANGED advs
            /\ \/ MustTake(k) /\ failed' = failed
               \/ failed' = failed + 1
  BY <1>0, <1>1 DEF Serve, CallWorks, CallFails, Goes
<1>3. p \in BlePath /\ SetOf(p) = k
  BY <1>1, <1>2, OnTurnWants DEF Wants
<1>4. /\ idle' \in [BlePath -> Nat] /\ \A q \in BlePath : idle'[q] = idle[q]
      /\ UNCHANGED <<settings, reading, steady, nsets>>
  BY <1>2 DEF TurnsInv, TurnsTyped, always
<1>5. CASE /\ PutOff(k) \/ ~MustTake(k)
           /\ NextSet(nsets) /\ failed' = failed
           /\ UNCHANGED advs \/ advs' = [advs EXCEPT ![k].data = Advanced(@, Every[pass.r][p])]
  <2>1. \A n \in SetNo : /\ n # k => advs'[n] = advs[n]
                         /\ advs'[n].since = advs[n].since /\ advs'[n].active = advs[n].active /\ advs'[n].path = advs[n].path
                         /\ advs'[n].rate = advs[n].rate /\ advs'[n].retry = advs[n].retry
    BY <1>5 DEF SetsInv, SetsTyped, SetRecord
  <2>2. \A n \in SetNo : advs'[n].since <= reading
    BY <2>1 DEF TurnsInv, TurnsTyped
  <2>3. Slack' = Slack
    BY <1>4, <1>5, PassSlack DEF SetsInv, TurnsInv
  <2>4. ASSUME NEW q \in BlePath, SetOf(q) = k
        PROVE  Waited(q)' /\ (steady => Served(q)')
    <3>1. SetOf(q)' = k /\ rate' = rate /\ Wanted(q)' = Wanted(q) /\ Wants(k)' = Wants(k) /\ reading' = reading /\ idle'[q] = idle[q]
      BY <1>4, <2>4 DEF SetOf, Wanted, Wants, settings
    <3>2. OthersTurn(q)' <=> OthersTurn(q)
      BY <2>1, <2>4, <3>1 DEF OthersTurn
    <3>3. JustOn(q)' <=> JustOn(q)
      BY <2>1, <2>4, <3>1 DEF JustOn
    <3>4. ~TakingIt(q)
      BY <1>2 DEF TakingIt, Midway
    <3>5. WithinSlack(q)' <=> WithinSlack(q)
      BY <2>3, <3>1 DEF WithinSlack
    <3>6. Waited(q)'
      BY <2>1, <2>3, <2>4, <3>1, <3>2, <3>3, <3>4, <3>5 DEF Waited, TurnsInv, AllWaited
    <3>7. PutOff(k)' <=> PutOff(k)
      BY <2>1, <3>1 DEF PutOff, Since
    <3>8. CASE PutOff(k)
      BY <3>1, <3>6, <3>7, <3>8 DEF Served
    <3>9. CASE ~MustTake(k) /\ steady
      <4>1. Served(q)
        BY <1>0, <1>2, <2>4, <3>9, LeftInTurn
      <4> QED
        BY <2>1, <2>3, <2>4, <3>1, <3>2, <3>6, <3>7, <4>1 DEF Served
    <3> QED
      BY <1>5, <3>6, <3>8, <3>9
  <2> QED
    BY <1>0, <1>2, <1>4, <1>5, <2>1, <2>2, <2>4, PassTurns
<1>6. CASE /\ pass' = [pass EXCEPT !.at = "take", !.path = p] /\ UNCHANGED advs
           /\ \/ MustTake(k) /\ failed' = failed
              \/ failed' = failed + 1
  <2>1. pass'.at = "take" /\ pass'.path = p /\ pass'.k = k
    BY <1>0, <1>6 DEF SetsInv, SetsTyped, PassRecord
  <2>2. \A n \in SetNo : advs'[n].since <= reading
    BY <1>6 DEF TurnsInv, TurnsTyped
  <2>3. failed' = failed => \A q \in BlePath \ {p} : SetOf(q) = k => WithinSlack(q)
    <3> SUFFICES ASSUME failed' = failed, NEW q \in BlePath \ {p}, SetOf(q) = k PROVE WithinSlack(q)
      OBVIOUS
    <3>1. failed \in Nat
      BY DEF SetsInv, SetsTyped
    <3>2. MustTake(k)
      BY <1>6, <3>1
    <3> QED
      BY <1>0, <1>1, <1>2, <3>2, TakenInTurn
  <2>4. failed' = failed => \A q \in BlePath : SetOf(q) = k => Waited(q)'
    <3> SUFFICES ASSUME failed' = failed, NEW q \in BlePath, SetOf(q) = k PROVE Waited(q)'
      OBVIOUS
    <3>1. Slack' = Slack /\ idle'[q] = idle[q] /\ Turn[rate'] = Turn[rate]
      BY <1>4, PassSlack DEF SetsInv, TurnsInv, settings
    <3>2. CASE q = p
      <4>1. TakingIt(q)'
        BY <1>3, <1>4, <2>1, <3>2 DEF TakingIt, Midway, SetOf
      <4>2. idle[q] <= Slack + Turn[rate]
        BY WaitedATurn DEF SetsInv, TurnsInv
      <4> QED
        BY <3>1, <4>1, <4>2 DEF Waited
    <3>3. CASE q # p
      BY <2>3, <3>1, <3>3 DEF Waited, WithinSlack
    <3> QED
      BY <3>2, <3>3
  <2> QED
    BY <1>0, <1>2, <1>3, <1>4, <1>6, <2>1, <2>2, <2>3, <2>4, PassTurns DEF Midway
<1> QED
  BY <1>2, <1>5, <1>6

\* A path is taken on: it has waited a turn at most, the other of its set not.
LEMMA TakingOn ==
  ASSUME SetsInv, TurnsInv, pass.at \in Midway, UNCHANGED <<settings, reading, steady, nsets, idle>>,
         failed' = failed \/ failed' = failed + 1,
         \A n \in SetNo \ {pass.k} : advs'[n] = advs[n],
         \A n \in SetNo : advs'[n].since = advs[n].since,
         pass'.at \in Midway, pass'.path = pass.path, pass'.k = pass.k,
         pass'.at = "start" /\ ~pass'.ok => failed' = failed + 1
  PROVE  TurnsInv'
<1>1. /\ \A n \in SetNo : advs'[n].since <= reading
      /\ idle' \in [BlePath -> Nat] /\ \A p \in BlePath : idle'[p] = idle[p]
  BY DEF TurnsInv, TurnsTyped
<1>2. SetOf(pass.path) = pass.k /\ \A p \in BlePath \ {pass.path} : SetOf(p) = pass.k => WithinSlack(p)
  BY DEF TurnsInv, OtherHasNot
<1>3. failed' = failed => \A p \in BlePath : SetOf(p) = pass.k => Waited(p)'
  <2> SUFFICES ASSUME failed' = failed, NEW p \in BlePath, SetOf(p) = pass.k PROVE Waited(p)'
    OBVIOUS
  <2>1. Slack' = Slack /\ idle'[p] = idle[p] /\ Turn[rate'] = Turn[rate]
    BY <1>1, PassSlack DEF SetsInv, TurnsInv, settings
  <2>2. CASE p = pass.path
    <3>1. TakingIt(p)'
      BY <2>2 DEF TakingIt, SetOf
    <3>2. idle[p] <= Slack + Turn[rate]
      BY WaitedATurn DEF SetsInv, TurnsInv
    <3> QED
      BY <2>1, <3>1, <3>2 DEF Waited
  <2>3. CASE p # pass.path
    BY <1>2, <2>1, <2>3 DEF Waited, WithinSlack
  <2> QED
    BY <2>2, <2>3
<1>4. pass.at # "between"
  BY DEF Midway
<1> QED
  BY <1>1, <1>2, <1>3, <1>4, PassTurns

LEMMA TakeTurns ==
  ASSUME SetsInv, TurnsInv, Take
  PROVE  TurnsInv'
<1>0. PICK k \in SetNo : k = pass.k
  BY DEF SetsInv, SetsTyped, PassRecord
<1>1. /\ pass.at = "take" /\ UNCHANGED <<settings, reading, steady, nsets, idle>>
      /\ \/ /\ advs' = [advs EXCEPT ![k].retry = Later(StopRetry)] /\ failed' = failed + 1 /\ NextSet(nsets)
         \/ /\ advs' = [advs EXCEPT ![k].active = FALSE] /\ failed' = failed
            /\ pass' = [pass EXCEPT !.at = "configure"]
  BY <1>0 DEF Take, Goes, CallFails, CallWorks, always
<1>2. CASE advs' = [advs EXCEPT ![k].retry = Later(StopRetry)] /\ failed' = failed + 1 /\ NextSet(nsets)
  <2>1. \A n \in SetNo : advs'[n].since = advs[n].since /\ (n # k => advs'[n] = advs[n])
    BY <1>2 DEF SetsInv, SetsTyped, SetRecord
  <2>2. /\ \A n \in SetNo : advs'[n].since <= reading
        /\ idle' \in [BlePath -> Nat] /\ \A p \in BlePath : idle'[p] = idle[p]
    BY <1>1, <2>1 DEF TurnsInv, TurnsTyped
  <2>3. \A p \in BlePath : SetOf(p) = k => Served(p)'
    <3> SUFFICES ASSUME NEW p \in BlePath, SetOf(p) = k PROVE Served(p)'
      OBVIOUS
    <3>1. advs'[k].retry = Later(StopRetry) /\ reading' = reading /\ SetOf(p)' = k
      BY <1>1, <1>2 DEF SetsInv, SetsTyped, SetOf
    <3>2. PutOff(k)'
      BY <3>1, Readings DEF PutOff, Since, SetsInv
    <3> QED
      BY <3>1, <3>2 DEF Served
  <2>4. failed' # failed
    BY <1>2 DEF SetsInv, SetsTyped
  <2> QED
    BY <1>0, <1>1, <1>2, <2>1, <2>2, <2>3, <2>4, PassTurns
<1>3. CASE advs' = [advs EXCEPT ![k].active = FALSE] /\ failed' = failed /\ pass' = [pass EXCEPT !.at = "configure"]
  <2>1. \A n \in SetNo : advs'[n].since = advs[n].since /\ (n # k => advs'[n] = advs[n])
    BY <1>3 DEF SetsInv, SetsTyped, SetRecord
  <2>2. pass'.at = "configure" /\ pass'.path = pass.path /\ pass'.k = pass.k
    BY <1>3 DEF SetsInv, SetsTyped, PassRecord
  <2> QED
    BY <1>0, <1>1, <1>3, <2>1, <2>2, TakingOn DEF Midway
<1> QED
  BY <1>1, <1>2, <1>3

LEMMA ConfigureTurns ==
  ASSUME SetsInv, TurnsInv, Configure
  PROVE  TurnsInv'
<1>1. /\ pass.at = "configure" /\ UNCHANGED <<settings, reading, steady, nsets, idle, advs>>
      /\ \/ pass' = [pass EXCEPT !.at = "start", !.ok = TRUE, !.interval = rate] /\ failed' = failed
         \/ pass' = [pass EXCEPT !.at = "start"] /\ failed' = failed + 1
  BY DEF Configure, Goes, CallFails, CallWorks, always
<1>2. pass'.at = "start" /\ pass'.path = pass.path /\ pass'.k = pass.k /\ (pass'.ok \/ failed' = failed + 1)
  BY <1>1 DEF SetsInv, SetsTyped, PassRecord
<1> QED
  BY <1>1, <1>2, TakingOn DEF Midway

\* One that starts is on; one that does not is put off, and its third set given up.
LEMMA StartTurns ==
  ASSUME SetsInv, TurnsInv, Start
  PROVE  TurnsInv'
<1>0. PICK k \in SetNo : k = pass.k
  BY DEF SetsInv, SetsTyped, PassRecord
<1>1. PICK p \in BlePath : p = pass.path
  BY DEF Start, SetsInv, Taking, Midway
<1>2. /\ pass.at = "start" /\ UNCHANGED <<settings, reading, steady>> /\ NextSet(nsets')
      /\ SetOf(p) = k /\ \A q \in BlePath \ {p} : SetOf(q) = k => WithinSlack(q)
  BY <1>0, <1>1 DEF Start, always, TurnsInv, OtherHasNot, Midway
<1> DEFINE noted == [advs[k] EXCEPT !.path = p, !.since = reading, !.data = reading, !.rate = rate]
<1>3. \/ /\ pass.ok /\ failed' = failed /\ advs' = [advs EXCEPT ![k] = [noted EXCEPT !.active = TRUE]]
         /\ UNCHANGED <<nsets, idle>>
      \/ /\ IF pass.ok THEN failed' = failed + 1 ELSE failed' = failed
         /\ advs' = [advs EXCEPT ![k] = [noted EXCEPT !.retry = Later(StartRetry), !.path = IF k = 3 THEN NoPath ELSE @]]
         /\ nsets' = (IF k = 3 THEN 2 ELSE nsets)
         /\ idle' = [idle EXCEPT ![p] = 0]
  BY <1>0, <1>1 DEF Start, CallFails, CallWorks
<1>4. noted \in SetRecord /\ noted.path = p /\ noted.since = reading /\ noted.rate = rate
  <2>1. p \in AnyPath /\ rate \in AnyRate /\ reading \in Nat
    BY Readings DEF AnyPath, AnyRate, SetsInv, SetsTyped
  <2> QED
    BY <2>1 DEF SetsInv, SetsTyped, SetRecord
<1> HIDE DEF noted
<1>5. Slack \in Nat /\ Turn[rate] \in Nat \ {0} /\ reading \in Nat /\ failed \in Nat /\ nsets \in {2, 3} /\ \A q \in BlePath : idle[q] \in Nat
  BY Turns DEF SetsInv, SetsTyped, TurnsInv
<1>6. CASE /\ pass.ok /\ failed' = failed /\ advs' = [advs EXCEPT ![k] = [noted EXCEPT !.active = TRUE]]
           /\ UNCHANGED <<nsets, idle>>
  <2>1. /\ advs'[k].path = p /\ advs'[k].since = reading /\ advs'[k].rate = rate /\ advs'[k].active
        /\ \A n \in SetNo \ {k} : advs'[n] = advs[n]
    <3>1. DOMAIN noted = {"path", "active", "rate", "since", "data", "retry"}
      BY <1>4 DEF SetRecord
    <3> QED
      BY <1>4, <1>6, <3>1 DEF SetsInv, SetsTyped
  <2>2. /\ \A n \in SetNo : advs'[n].since <= reading
        /\ idle' \in [BlePath -> Nat] /\ \A q \in BlePath : idle'[q] = idle[q]
    BY <1>5, <1>6, <2>1 DEF TurnsInv, TurnsTyped
  <2>3. Slack' = Slack /\ Turn[rate'] = Turn[rate]
    BY <1>2, <1>6, PassSlack DEF SetsInv, TurnsInv, settings
  <2>4. ASSUME NEW q \in BlePath, SetOf(q) = k
        PROVE  Waited(q)' /\ (steady => Served(q)')
    <3>1. SetOf(q)' = k /\ rate' = rate /\ Wanted(q)' = Wanted(q) /\ Wants(k)' = Wants(k) /\ reading' = reading /\ idle'[q] = idle[q]
      BY <1>2, <1>6, <2>4 DEF SetOf, Wanted, Wants, settings
    <3>2. CASE q = p
      <4>1. JustOn(q)'
        BY <2>1, <3>1, <3>2 DEF JustOn
      <4>2. idle[q] <= Slack + Turn[rate]
        BY WaitedATurn DEF SetsInv, TurnsInv
      <4>3. Waited(q)'
        BY <2>3, <3>1, <4>1, <4>2 DEF Waited
      <4>4. Served(q)'
        BY <2>1, <3>1, <3>2 DEF Served
      <4> QED
        BY <4>3, <4>4
    <3>3. CASE q # p
      <4>1. WithinSlack(q)'
        BY <1>2, <2>3, <2>4, <3>1, <3>3 DEF WithinSlack
      <4>2. steady /\ Wanted(q) => OthersTurn(q)' /\ reading - advs'[k].since < Turn[rate]
        <5> SUFFICES ASSUME steady, Wanted(q) PROVE OthersTurn(q)' /\ reading - advs'[k].since < Turn[rate]
          OBVIOUS
        <5>1. Wanted(p)
          BY <1>1, <1>2 DEF SetsInv, GoesBySettings, Midway
        <5>2. p \in Wants(k) \ {q}
          BY <1>2, <3>3, <5>1 DEF Wants
        <5>3. OthersTurn(q)'
          BY <2>1, <3>1, <5>2 DEF OthersTurn
        <5> QED
          BY <1>5, <2>1, <5>3
      <4>3. steady => Served(q)'
        BY <2>3, <3>1, <4>2 DEF Served
      <4> QED
        BY <4>1, <4>3 DEF Waited
    <3> QED
      BY <3>2, <3>3
  <2> QED
    BY <1>0, <1>2, <1>6, <2>1, <2>2, <2>4, PassTurns
<1>7. CASE /\ IF pass.ok THEN failed' = failed + 1 ELSE failed' = failed
           /\ advs' = [advs EXCEPT ![k] = [noted EXCEPT !.retry = Later(StartRetry), !.path = IF k = 3 THEN NoPath ELSE @]]
           /\ nsets' = (IF k = 3 THEN 2 ELSE nsets)
           /\ idle' = [idle EXCEPT ![p] = 0]
  <2>1. /\ advs'[k].since = reading /\ advs'[k].retry = Later(StartRetry)
        /\ \A n \in SetNo \ {k} : advs'[n] = advs[n]
    <3>1. DOMAIN noted = {"path", "active", "rate", "since", "data", "retry"}
      BY <1>4 DEF SetRecord
    <3> QED
      BY <1>4, <1>7, <3>1 DEF SetsInv, SetsTyped
  <2>2. /\ \A n \in SetNo : advs'[n].since <= reading
        /\ idle' \in [BlePath -> Nat] /\ idle'[p] = 0 /\ \A q \in BlePath \ {p} : idle'[q] = idle[q]
    BY <1>5, <1>7, <2>1 DEF TurnsInv, TurnsTyped
  <2>3. failed' = failed \/ failed' = failed + 1
    BY <1>7
  <2>4. Slack' \in Nat /\ Slack' >= Slack /\ Turn[rate'] = Turn[rate] /\ (failed' = failed + 1 => Slack' > Slack)
    BY <1>2, <1>5, <2>3, PassSlack DEF SetsInv, TurnsInv, settings
  <2>5. CASE k # 3
    <3>1. nsets' = nsets
      BY <1>7, <2>5
    <3>2. ASSUME NEW q \in BlePath, SetOf(q) = k
          PROVE  WithinSlack(q)' /\ Served(q)'
      <4>1. SetOf(q)' = k /\ reading' = reading
        BY <1>2, <3>1, <3>2 DEF SetOf
      <4>2. PutOff(k)'
        BY <2>1, <4>1, Readings DEF PutOff, Since, SetsInv
      <4>3. WithinSlack(q)'
        BY <1>2, <1>5, <2>2, <2>4, <3>2 DEF WithinSlack
      <4> QED
        BY <4>1, <4>2, <4>3 DEF Served
    <3> QED
      BY <1>0, <1>2, <2>1, <2>2, <2>3, <3>1, <3>2, PassTurns DEF Waited
  <2>6. CASE k = 3
    <3>1. nsets' = 2 /\ nsets = 3 /\ nsets' # 3
      BY <1>0, <1>5, <1>7, <2>6 DEF SetsInv, Taking
    <3>2. \A q \in BlePath : idle'[q] < Slack'
      <4>1. \A q \in BlePath : WithinSlack(q) /\ (~pass.ok => idle[q] < Slack)
        BY <1>2, <3>1 DEF TurnsInv, OwnSets, GivingUp
      <4>2. pass.ok => failed' = failed + 1
        BY <1>7
      <4>3. \A q \in BlePath : idle[q] < Slack'
        BY <1>5, <2>4, <4>1, <4>2 DEF WithinSlack
      <4> QED
        BY <1>5, <2>2, <2>4, <4>3
    <3>3. pass'.at \in {"between", "set"}
      <4>1. NextSet(nsets') /\ nsets' \in {2, 3} /\ (nsets' = nsets \/ pass.k = 3)
        BY <1>0, <1>2, <2>6, <3>1
      <4> QED
        BY <1>2, <4>1, OnToNext DEF SetsInv, SetsTyped
    <3>4. TurnsTyped'
      BY <1>2, <2>2 DEF TurnsInv, TurnsTyped, settings
    <3>5. \A q \in BlePath : WithinSlack(q)'
      BY <2>2, <2>4, <3>2 DEF WithinSlack
    <3>6. AllWaited' /\ OtherHasNot' /\ OwnSets' /\ GivingUp'
      BY <3>1, <3>3, <3>5 DEF AllWaited, Waited, OtherHasNot, OwnSets, GivingUp, Midway
    <3>7. Unwanted' /\ JustChanged'
      BY <1>2, <2>2, PassRest
    <3>8. BehindServed'
      BY <3>2 DEF BehindServed, Served
    <3> QED
      BY <3>4, <3>6, <3>7, <3>8 DEF TurnsInv
  <2> QED
    BY <2>5, <2>6
<1> QED
  BY <1>3, <1>6, <1>7

-----------------------------------------------------------------------------
(* What is not the pass. *)

LEMMA TurnsInitially == TxInit => TurnsInv
<1> SUFFICES ASSUME TxInit PROVE TurnsInv
  OBVIOUS
<1>1. /\ pass.at = "between" /\ passed = FALSE /\ steady = TRUE /\ failed = 0 /\ switched = 0 /\ reading = 0
      /\ idle = [p \in BlePath |-> 0] /\ nsets \in {2, 3} /\ \A k \in SetNo : advs[k].since = 0
  BY DEF TxInit, Rested, IdleSet
<1>2. TurnsTyped
  BY <1>1 DEF TurnsTyped
<1>3. Slack \in Nat
  BY <1>2, SetsInitially, Turns DEF SetsInv
<1>4. \A p \in BlePath : WithinSlack(p) /\ idle[p] = 0
  BY <1>1, <1>3 DEF WithinSlack
<1>5. AllWaited /\ OtherHasNot /\ OwnSets /\ GivingUp
  BY <1>1, <1>4 DEF AllWaited, Waited, OtherHasNot, OwnSets, GivingUp, Midway
<1>6. Unwanted /\ JustChanged
  BY <1>1, <1>4 DEF Unwanted, JustChanged
<1>7. BehindServed
  <2>1. \A p \in BlePath : SetOf(p) <= nsets
    BY <1>2, SetsInitially, Turns DEF SetsInv
  <2>2. \A p \in BlePath : ~GoneBy(SetOf(p))
    BY <1>1 DEF GoneBy
  <2> QED
    BY <2>2 DEF BehindServed
<1> QED
  BY <1>2, <1>5, <1>6, <1>7 DEF TurnsInv

LEMMA BeginTurns ==
  ASSUME SetsInv, TurnsInv, BeginPass
  PROVE  TurnsInv'
<1>1. /\ pass.at = "between" /\ pass'.at = "set" /\ pass'.k = 1 /\ steady' = TRUE
      /\ UNCHANGED <<settings, advs, nsets, onAir, reading, passed, stray, idle, failed>>
  BY DEF BeginPass, Rested
<1>2. TurnsTyped'
  BY <1>1 DEF TurnsInv, TurnsTyped, settings
<1>3. /\ Slack' = Slack /\ rate' = rate /\ \A p \in BlePath : idle'[p] = idle[p] /\ SetOf(p)' = SetOf(p)
      /\ SetOf(pass.path)' = SetOf(pass'.path)
  BY <1>1 DEF Slack, SetOf, settings
<1>4. \A p \in BlePath : WithinSlack(p)' <=> WithinSlack(p)
  BY <1>3 DEF WithinSlack
<1>5. AllWaited'
  <2> SUFFICES ASSUME NEW p \in BlePath PROVE Waited(p)'
    BY DEF AllWaited
  <2>1. ~TakingIt(p)
    BY <1>1 DEF TakingIt, Midway
  <2>2. OthersTurn(p) => OthersTurn(p)'
    BY <1>1, <1>3 DEF OthersTurn, Wants, Wanted, SetOf, settings
  <2>3. JustOn(p) => JustOn(p)'
    BY <1>1, <1>3 DEF JustOn
  <2>4. Waited(p) /\ reading' = reading /\ advs' = advs
    BY <1>1 DEF TurnsInv, AllWaited
  <2> QED
    BY <1>3, <1>4, <2>1, <2>2, <2>3, <2>4 DEF Waited
<1>6. OtherHasNot' /\ OwnSets' /\ GivingUp'
  BY <1>1, <1>4 DEF TurnsInv, OtherHasNot, OwnSets, GivingUp, Midway
<1>7. Unwanted' /\ JustChanged'
  BY <1>1, <1>3 DEF TurnsInv, Unwanted, Wanted, JustChanged, settings
<1>8. BehindServed'
  <2>1. \A p \in BlePath : SetOf(p)' <= nsets' /\ SetOf(p)' >= 1 /\ SetOf(p)' \in Nat
    <3>1. \A p \in BlePath : SetOf(p) \in SetNo /\ SetOf(p) <= nsets
      BY Turns DEF SetsInv, TurnsInv
    <3> QED
      BY <1>1, <1>3, <3>1 DEF SetNo
  <2>2. \A p \in BlePath : ~GoneBy(SetOf(p))'
    BY <1>1, <2>1 DEF GoneBy, SetsInv, SetsTyped
  <2> QED
    BY <2>2 DEF BehindServed
<1> QED
  BY <1>2, <1>5, <1>6, <1>7, <1>8 DEF TurnsInv

\* A sum with one more is a number that is not zero.
LEMMA OneMoreTurn ==
  ASSUME NEW a \in Nat, NEW b \in Nat, NEW c, c = b + 1 PROVE a + c \in Nat /\ a + c > 0
  OBVIOUS

\* A change starts the count anew.
LEMMA ChangeTurns ==
  ASSUME SetsInv, SetsInv', TurnsInv, Switch \/ Relayout
  PROVE  TurnsInv'
<1>1. /\ switched' = switched + 1 /\ steady' = FALSE /\ idle' = [p \in BlePath |-> 0]
      /\ reading' = reading /\ pass' = pass /\ (nsets' = nsets \/ pass.at = "between")
      /\ failed' \in Nat /\ \A k \in SetNo : advs'[k].since = advs[k].since
  <2>1. \A k \in SetNo : advs'[k].since = advs[k].since
    <3>1. CASE Switch
      BY <3>1 DEF Switch
    <3>2. CASE Relayout
      <4>1. advs' = [k \in SetNo |-> [advs[k] EXCEPT !.active = FALSE, !.path = NoPath, !.retry = 0]]
        BY <3>2 DEF Relayout
      <4>2. \A k \in SetNo : advs[k] \in SetRecord
        BY DEF SetsInv, SetsTyped
      <4>3. \A k \in SetNo : advs'[k] = [advs[k] EXCEPT !.active = FALSE, !.path = NoPath, !.retry = 0]
        BY <4>1
      <4> QED
        BY <4>2, <4>3 DEF SetRecord
    <3> QED
      BY <3>1, <3>2
  <2>2. failed' \in Nat
    BY DEF SetsInv, SetsTyped
  <2>3. CASE Switch
    BY <2>1, <2>2, <2>3 DEF Switch
  <2>4. CASE Relayout
    BY <2>1, <2>2, <2>4 DEF Relayout
  <2> QED
    BY <2>3, <2>4
<1>2. TurnsTyped'
  BY <1>1 DEF TurnsInv, TurnsTyped
<1>3. Slack' \in Nat /\ Slack' > 0
  <2> DEFINE t == Turn[rate']
             n == failed' + switched'
  <2>1. Slack' = t * n
    BY DEF Slack
  <2>2. t \in Nat \ {0} /\ n \in Nat \ {0}
    <3>1. rate' \in Rate /\ failed' \in Nat /\ switched \in Nat
      BY <1>1 DEF SetsInv, SetsTyped, TurnsInv, TurnsTyped
    <3>2. t \in Nat \ {0}
      BY <3>1, SetsValues
    <3>3. switched' = switched + 1
      BY <1>1
    <3>4. n \in Nat /\ n > 0
      BY <3>1, <3>3, OneMoreTurn
    <3> QED
      BY <3>2, <3>4
  <2> HIDE DEF t, n
  <2>3. t * n \in Nat /\ t * n > 0
    BY <2>2, SMTT(30)
  <2> QED
    BY <2>1, <2>3
<1>4. \A p \in BlePath : WithinSlack(p)' /\ idle'[p] = 0
  BY <1>1, <1>3 DEF WithinSlack
<1>5. AllWaited' /\ OwnSets' /\ GivingUp'
  BY <1>3, <1>4 DEF AllWaited, Waited, OwnSets, GivingUp
<1>6. OtherHasNot'
  <2>1. pass.at \in Midway => SetOf(pass.path)' = SetOf(pass.path)
    BY <1>1 DEF SetOf, Midway
  <2>2. pass'.at \in Midway => SetOf(pass.path)' = pass'.k
    BY <1>1, <2>1 DEF TurnsInv, OtherHasNot
  <2> QED
    BY <1>4, <2>2 DEF OtherHasNot
<1>7. Unwanted' /\ JustChanged'
  BY <1>1, <1>4 DEF Unwanted, JustChanged, TurnsInv, TurnsTyped
<1>8. BehindServed'
  BY <1>1 DEF BehindServed
<1> QED
  BY <1>2, <1>5, <1>6, <1>7, <1>8 DEF TurnsInv

\* A path that has waited for another has waited no longer than that one has
\* had the set; and it is its turn when that is a turn.
LEMMA TickWaits ==
  ASSUME SetsInv, TurnsInv, TxTick, NEW p \in BlePath
  PROVE  /\ Waited(p)'
         /\ nsets = 3 => WithinSlack(p)'
         /\ ~steady => idle'[p] <= 1
<1> DEFINE k == SetOf(p)
           t == Turn[rate]
           d == reading - advs[k].since
<1>1. /\ Slack \in Nat /\ t \in Nat \ {0} /\ reading \in Nat /\ k \in SetNo /\ idle[p] \in Nat
      /\ advs[k].since \in Nat /\ d \in Nat
      /\ (failed + switched > 0 => Slack >= t) /\ failed \in Nat /\ switched \in Nat
  BY Turns DEF SetsInv, TurnsInv
<1>2. /\ passed /\ pass.at = "between" /\ reading' = reading + 1
      /\ UNCHANGED <<settings, advs, nsets, onAir, pass, steady, stray, failed>>
      /\ idle'[p] = IF OnTheAir(p) \/ ~Wanted(p) THEN 0 ELSE IF PutOff(k) THEN idle[p] ELSE idle[p] + 1
  BY DEF TxTick
<1>3. /\ Slack' = Slack /\ rate' = rate /\ SetOf(p)' = k /\ advs' = advs /\ Turn[rate'] = t
      /\ (OthersTurn(p)' <=> OthersTurn(p))
  BY <1>2 DEF Slack, SetOf, OthersTurn, Wants, Wanted, settings
<1>4. ~TakingIt(p)
  BY <1>2 DEF TakingIt, Midway
<1>5. JustOn(p) => OnTheAir(p)
  BY <1>1 DEF JustOn, SetsInv, AirIs, OnTheAir
<1>6. Lesser(reading' - advs'[SetOf(p)'].since, Turn[rate']) = Lesser(d + 1, t)
  BY <1>1, <1>2, <1>3
<1>7. CASE OnTheAir(p) \/ ~Wanted(p)
  BY <1>1, <1>2, <1>3, <1>7 DEF Waited, WithinSlack
<1>8. CASE Wanted(p) /\ ~OnTheAir(p) /\ PutOff(k)
  <2>1. idle'[p] = idle[p]
    BY <1>2, <1>8
  <2>2. WithinSlack(p) => WithinSlack(p)'
    BY <1>3, <2>1 DEF WithinSlack
  <2>3. OthersTurn(p) /\ idle[p] <= Slack + Lesser(d, t) => idle'[p] <= Slack' + Lesser(d + 1, t)
    BY <1>1, <1>3, <2>1 DEF Lesser
  <2>4. Waited(p)
    BY DEF TurnsInv, AllWaited
  <2>5. Waited(p)'
    BY <1>3, <1>4, <1>5, <1>6, <1>8, <2>2, <2>3, <2>4 DEF Waited
  <2>6. nsets = 3 => WithinSlack(p)
    BY DEF TurnsInv, OwnSets
  <2>7. ~steady => idle[p] <= 1
    BY DEF TurnsInv, JustChanged
  <2> QED
    BY <2>1, <2>2, <2>5, <2>6, <2>7
<1>9. CASE Wanted(p) /\ ~OnTheAir(p) /\ ~PutOff(k) /\ ~steady
  <2>1. idle[p] = 0 /\ switched >= 1
    BY <1>2, <1>9 DEF TurnsInv, JustChanged
  <2>2. idle'[p] = 1 /\ Slack >= 1
    BY <1>1, <1>2, <1>9, <2>1
  <2> QED
    BY <1>3, <2>2 DEF Waited, WithinSlack
<1>10. CASE Wanted(p) /\ ~OnTheAir(p) /\ ~PutOff(k) /\ steady
  <2>1. Served(p)
    BY <1>2, <1>10 DEF TurnsInv, BehindServed, GoneBy
  <2>2. ~(advs[k].active /\ advs[k].path = p)
    BY <1>1, <1>10 DEF SetsInv, AirIs, OnTheAir
  <2>3. idle'[p] = idle[p] + 1
    BY <1>2, <1>10
  <2>4. CASE idle[p] < Slack
    BY <1>1, <1>3, <1>10, <2>3, <2>4 DEF Waited, WithinSlack
  <2>5. CASE OthersTurn(p) /\ d < t
    <3>1. nsets # 3
      <4> SUFFICES ASSUME nsets = 3 PROVE FALSE
        OBVIOUS
      <4>1. advs[k].path \in BlePath /\ SetOf(advs[k].path) = k /\ advs[k].path # p
        BY <2>5 DEF OthersTurn, Wants
      <4> QED
        BY <4>1, NoneShares
    <3>2. ~JustOn(p)
      BY <1>5, <1>10
    <3>3. WithinSlack(p) \/ idle[p] <= Slack + Lesser(d, t)
      BY <1>4, <3>2 DEF TurnsInv, AllWaited, Waited
    <3>4. Lesser(d, t) = d /\ Lesser(d + 1, t) = d + 1
      BY <1>1, <2>5 DEF Lesser
    <3>5. idle'[p] <= Slack + (d + 1)
      BY <1>1, <2>3, <3>3, <3>4 DEF WithinSlack
    <3>6. Waited(p)'
      BY <1>3, <1>6, <2>5, <3>4, <3>5 DEF Waited
    <3> QED
      BY <1>10, <3>1, <3>6
  <2> QED
    BY <1>10, <2>1, <2>2, <2>4, <2>5 DEF Served
<1> QED
  BY <1>7, <1>8, <1>9, <1>10, <1>2

LEMMA TickTurns ==
  ASSUME SetsInv, TurnsInv, TxTick
  PROVE  TurnsInv'
<1>1. /\ passed /\ passed' = FALSE /\ pass.at = "between" /\ reading' = reading + 1
      /\ UNCHANGED <<settings, advs, nsets, onAir, pass, steady, stray, failed>>
      /\ idle' = [p \in BlePath |-> IF OnTheAir(p) \/ ~Wanted(p) THEN 0 ELSE IF PutOff(SetOf(p)) THEN idle[p] ELSE idle[p] + 1]
  BY DEF TxTick
<1>2. TurnsTyped'
  <2>1. idle' \in [BlePath -> Nat]
    <3>1. \A p \in BlePath : idle[p] \in Nat
      BY DEF TurnsInv, TurnsTyped
    <3> QED
      BY <1>1, <3>1
  <2>2. \A k \in SetNo : advs'[k].since <= reading'
    <3>1. \A k \in SetNo : advs[k].since \in Nat /\ advs[k].since <= reading /\ reading \in Nat
      BY Turns DEF SetsInv, TurnsInv
    <3> QED
      BY <1>1, <3>1
  <2> QED
    BY <1>1, <2>1, <2>2 DEF TurnsInv, TurnsTyped, settings
<1>3. AllWaited' /\ OwnSets'
  BY <1>1, TickWaits DEF AllWaited, OwnSets
<1>4. OtherHasNot' /\ GivingUp' /\ BehindServed'
  BY <1>1 DEF OtherHasNot, GivingUp, BehindServed, GoneBy, Midway
<1>5. Unwanted'
  BY <1>1 DEF Unwanted, Wanted, settings
<1>6. JustChanged'
  <2> SUFFICES ASSUME ~steady PROVE switched' >= 1 /\ \A p \in BlePath : idle'[p] <= 1
    BY <1>1 DEF JustChanged
  <2> QED
    BY <1>1, TickWaits DEF TurnsInv, JustChanged, settings
<1> QED
  BY <1>2, <1>3, <1>4, <1>5, <1>6 DEF TurnsInv

LEMMA StutterTurns ==
  ASSUME TurnsInv, UNCHANGED txVars
  PROVE  TurnsInv'
<1>1. /\ TurnsTyped' <=> TurnsTyped
      /\ \A p : (WithinSlack(p)' <=> WithinSlack(p)) /\ (Served(p)' <=> Served(p)) /\ (Waited(p)' <=> Waited(p)) /\ (GoneBy(SetOf(p))' <=> GoneBy(SetOf(p)))
  BY DEF txVars, settings, TurnsTyped, WithinSlack, Slack, Served, Waited, OthersTurn, JustOn, TakingIt, Wanted, Wants, SetOf, PutOff, Since, GoneBy
<1> QED
  BY <1>1 DEF txVars, settings, TurnsInv, AllWaited, OtherHasNot, OwnSets, GivingUp, Unwanted, JustChanged, BehindServed, SetOf, Wanted, Slack

LEMMA SetsAndTurns == SetsInv /\ TurnsInv /\ [TxNext]_txVars => SetsInv' /\ TurnsInv'
<1> SUFFICES ASSUME SetsInv, TurnsInv, [TxNext]_txVars PROVE SetsInv' /\ TurnsInv'
  OBVIOUS
<1>1. SetsInv'
  BY BeginKeeps, QuietenKeeps, ServeKeeps, TakeKeeps, ConfigureKeeps, StartKeeps, SwitchKeeps, TimeKeepsSets DEF TxNext
<1>2. TurnsInv'
  BY <1>1, BeginTurns, QuietenTurns, ServeTurns, TakeTurns, ConfigureTurns, StartTurns, ChangeTurns, TickTurns, StutterTurns DEF TxNext
<1> QED
  BY <1>1, <1>2

\* A path that is enabled comes on the air within the turn of the one it shares
\* a set with, and a turn for each call that fails and setting that changes
\* (ble_service); no Wi-Fi path that is due is passed over for another more than
\* once, and none is sent oftener than its cadence (tx_step, tx_advance).
THEOREM EachGetsItsTurn == TxSpec /\ SlotSpec => []EachInTurn
<1>1. SetsInv /\ TurnsInv => SetsInTurn
  BY WaitedATurn, Turns DEF SetsInv, TurnsInv, SetsInTurn
<1>2. TxSpec => []SetsInTurn
  BY <1>1, SetsInitially, TurnsInitially, SetsAndTurns, PTL DEF TxSpec
<1>3. SetsInTurn /\ NotPassedOver /\ NotTooOften => EachInTurn
  BY DEF EachInTurn
<1> QED
  BY <1>2, <1>3, SlotsInTurn, PTL

-----------------------------------------------------------------------------
(***************************************************************************)
(* TrafficFeed: that a set of aircraft is of one push, or of pushes of one  *)
(* second that nothing tells apart, and says what was given (SetOfOnePush), *)
(* for any hosts, sets, limits and lost lines.                              *)
(*                                                                         *)
(* The argument: what is being received has the second of the line that     *)
(* opened it; and as long as no line is lost, a host that has a report in   *)
(* it still has to send the `done` of that push, which closes it, before    *)
(* any line of its next (FeedInv).                                          *)
(* What traffic_ingest makes of it follows from InOrder alone: those it     *)
(* takes have the first places in the order, and what has no place among    *)
(* them is after each of them.                                              *)
(***************************************************************************)
(* The order of reports *)

LEMMA PlacesGrow ==
  ASSUME NEW S, S \subseteq Nat, IsFiniteSet(S), NEW w, \A i \in S : w[i] \in Nat,
         NEW i \in S, NEW j \in S, i # j, NotAfter(w, i, j)
  PROVE  PlaceIn(S, w, i) < PlaceIn(S, w, j)
<1> DEFINE A == {k \in S : NotAfter(w, k, i)}  B == {k \in S : NotAfter(w, k, j)}
<1>1. \A k \in S : k \in Nat /\ w[k] \in Nat OBVIOUS
<1>2. A \subseteq B
  <2> SUFFICES ASSUME NEW k \in S, NotAfter(w, k, i) PROVE NotAfter(w, k, j) OBVIOUS
  <2> QED BY <1>1 DEF NotAfter
<1>3. j \in B /\ j \notin A BY <1>1 DEF NotAfter
<1>4. IsFiniteSet(A) /\ IsFiniteSet(B) BY FS_Subset
<1> HIDE DEF A, B
<1>5. Cardinality(A) \in Nat /\ Cardinality(B) \in Nat BY <1>4, FS_CardinalityType
<1>6. Cardinality(A) <= Cardinality(B) /\ Cardinality(A) # Cardinality(B)
  BY <1>2, <1>3, <1>4, FS_Subset
<1> QED BY <1>5, <1>6 DEF PlaceIn, A, B

LEMMA PlacesAre ==
  ASSUME NEW S, S \subseteq Nat, IsFiniteSet(S), NEW w, \A i \in S : w[i] \in Nat
  PROVE  /\ Cardinality(S) \in Nat
         /\ \A i \in S : PlaceIn(S, w, i) \in 1 .. Cardinality(S)
         /\ \A i, j \in S : PlaceIn(S, w, i) = PlaceIn(S, w, j) => i = j
         /\ \A i, j \in S : PlaceIn(S, w, i) <= PlaceIn(S, w, j) => NotAfter(w, i, j)
<1>1. \A i \in S : i \in Nat /\ w[i] \in Nat OBVIOUS
<1>2. Cardinality(S) \in Nat BY FS_CardinalityType
<1>3. ASSUME NEW i \in S PROVE PlaceIn(S, w, i) \in 1 .. Cardinality(S)
  <2> DEFINE A == {k \in S : NotAfter(w, k, i)}
  <2>1. IsFiniteSet(A) /\ Cardinality(A) <= Cardinality(S) BY FS_Subset
  <2>2. i \in A BY <1>1 DEF NotAfter
  <2> HIDE DEF A
  <2>3. Cardinality(A) \in Nat /\ Cardinality(A) # 0 BY <2>1, <2>2, FS_CardinalityType, FS_EmptySet
  <2> QED BY <1>2, <2>1, <2>3 DEF PlaceIn, A
<1>4. \A i, j \in S : NotAfter(w, i, j) \/ NotAfter(w, j, i) BY <1>1 DEF NotAfter
<1>5. ASSUME NEW i \in S, NEW j \in S, PlaceIn(S, w, i) = PlaceIn(S, w, j) PROVE i = j
  <2>1. CASE i # j /\ NotAfter(w, i, j)
    <3>1. PlaceIn(S, w, i) < PlaceIn(S, w, j) BY <2>1, PlacesGrow
    <3> QED BY <1>2, <1>3, <1>5, <3>1
  <2>2. CASE i # j /\ NotAfter(w, j, i)
    <3>1. PlaceIn(S, w, j) < PlaceIn(S, w, i) BY <2>2, PlacesGrow
    <3> QED BY <1>2, <1>3, <1>5, <3>1
  <2> QED BY <1>4, <2>1, <2>2
<1>6. ASSUME NEW i \in S, NEW j \in S, PlaceIn(S, w, i) <= PlaceIn(S, w, j) PROVE NotAfter(w, i, j)
  <2>1. CASE i = j BY <1>1, <2>1 DEF NotAfter
  <2>2. CASE i # j /\ ~NotAfter(w, i, j)
    <3>1. PlaceIn(S, w, j) < PlaceIn(S, w, i) BY <1>4, <2>2, PlacesGrow
    <3>2. PlaceIn(S, w, i) \in Nat /\ PlaceIn(S, w, j) \in Nat BY <1>2, <1>3
    <3> QED BY <1>6, <3>1, <3>2
  <2> QED BY <2>1, <2>2
<1> QED BY <1>2, <1>3, <1>5, <1>6

\* Who has the k-th place.
TakenAt(S, w, k) == CHOOSE i \in S : PlaceIn(S, w, i) = k

LEMMA PlaceTaken ==
  ASSUME NEW S, S \subseteq Nat, IsFiniteSet(S), NEW w, \A i \in S : w[i] \in Nat,
         NEW k \in 1 .. Cardinality(S)
  PROVE  TakenAt(S, w, k) \in S /\ PlaceIn(S, w, TakenAt(S, w, k)) = k
<1> DEFINE T == 1 .. Cardinality(S)  f == [i \in S |-> PlaceIn(S, w, i)]
<1>1. IsFiniteSet(T) /\ Cardinality(T) = Cardinality(S)
  <2>1. Cardinality(S) \in Nat BY PlacesAre
  <2> QED BY <2>1, FS_Interval
<1>2. f \in [S -> T]
  <2>1. \A i \in S : PlaceIn(S, w, i) \in 1 .. Cardinality(S) BY PlacesAre
  <2> QED BY <2>1
<1>3. \A i \in S : f[i] = PlaceIn(S, w, i) OBVIOUS
<1>4. \A i, j \in S : PlaceIn(S, w, i) = PlaceIn(S, w, j) => i = j BY PlacesAre
<1>5. k \in T OBVIOUS
<1> HIDE DEF T, f
<1>6. f \in Injection(S, T)
  <2>1. \A i, j \in S : f[i] = f[j] => i = j BY <1>3, <1>4
  <2> QED BY <1>2, <2>1 DEF Injection, IsInjective
<1>7. f \in Surjection(S, T) BY <1>1, <1>6, FS_Injection
<1>8. PICK i \in S : f[i] = k BY <1>5, <1>7 DEF Surjection
<1>9. i \in S /\ PlaceIn(S, w, i) = k BY <1>3, <1>8
<1> QED BY <1>9 DEF TakenAt

\* Of some there is a first.
LEMMA FirstIn ==
  ASSUME NEW S, S \subseteq Nat, IsFiniteSet(S), NEW w, \A i \in S : w[i] \in Nat, S # {}
  PROVE  \E i \in S : \A j \in S : NotAfter(w, i, j)
<1> DEFINE i == TakenAt(S, w, 1)
<1>1. Cardinality(S) \in Nat /\ Cardinality(S) # 0 BY FS_CardinalityType, FS_EmptySet
<1>2. 1 \in 1 .. Cardinality(S) BY <1>1
<1>3. i \in S /\ PlaceIn(S, w, i) = 1 BY <1>2, PlaceTaken
<1> HIDE DEF i
<1>4. \A j \in S : PlaceIn(S, w, j) \in 1 .. Cardinality(S) BY PlacesAre
<1>5. \A j \in S : PlaceIn(S, w, i) <= PlaceIn(S, w, j) BY <1>1, <1>3, <1>4
<1>6. \A a, b \in S : PlaceIn(S, w, a) <= PlaceIn(S, w, b) => NotAfter(w, a, b) BY PlacesAre
<1>7. \A j \in S : NotAfter(w, i, j) BY <1>3, <1>5, <1>6
<1> QED BY <1>3, <1>7

\* What is taken in order.
LEMMA InOrderIs ==
  ASSUME NEW s, NEW S, S \subseteq DOMAIN s, S \subseteq Nat, IsFiniteSet(S), NEW w, \A i \in S : w[i] \in Nat,
         NEW n \in Nat, NEW q, q = InOrder(s, S, w, n)
  PROVE  /\ q \in Seq(ToSet(q)) /\ Len(q) \in Nat /\ Len(q) <= n /\ DOMAIN q = 1 .. Len(q)
         /\ Len(q) # n => Len(q) = Cardinality(S)
         /\ \A k \in DOMAIN q : /\ TakenAt(S, w, k) \in S /\ q[k] = s[TakenAt(S, w, k)]
                                /\ k \in 1 .. Cardinality(S) /\ PlaceIn(S, w, TakenAt(S, w, k)) = k
<1> DEFINE c == IF Cardinality(S) < n THEN Cardinality(S) ELSE n
<1>1. Cardinality(S) \in Nat BY PlacesAre
<1>2. c \in Nat /\ c <= n /\ c <= Cardinality(S) /\ (c # n => c = Cardinality(S)) BY <1>1
<1>3. q = [k \in 1 .. c |-> s[TakenAt(S, w, k)]] BY DEF InOrder, TakenAt
<1> HIDE DEF c
<1>4. DOMAIN q = 1 .. c BY <1>3
<1>5. q \in Seq(ToSet(q)) /\ Len(q) = c
  <2>1. \A k \in 1 .. c : q[k] \in ToSet(q) BY <1>4 DEF ToSet
  <2>2. q \in [1 .. c -> ToSet(q)] BY <1>3, <2>1
  <2> QED BY <1>2, <2>2
<1>6. ASSUME NEW k \in DOMAIN q
      PROVE  /\ TakenAt(S, w, k) \in S /\ q[k] = s[TakenAt(S, w, k)]
             /\ k \in 1 .. Cardinality(S) /\ PlaceIn(S, w, TakenAt(S, w, k)) = k
  <2>1. k \in 1 .. c /\ k \in 1 .. Cardinality(S) BY <1>1, <1>2, <1>4
  <2>2. TakenAt(S, w, k) \in S /\ PlaceIn(S, w, TakenAt(S, w, k)) = k BY <2>1, PlaceTaken
  <2> QED BY <1>3, <2>1, <2>2
<1> QED BY <1>2, <1>4, <1>5, <1>6

\* What is not taken is after all that is.
LEMMA LeftAfter ==
  ASSUME NEW S, S \subseteq Nat, IsFiniteSet(S), NEW w, \A i \in S : w[i] \in Nat, NEW c \in Nat,
         \A k \in 1 .. c : k \in 1 .. Cardinality(S), NEW i \in S, \A k \in 1 .. c : TakenAt(S, w, k) # i
  PROVE  c # Cardinality(S) /\ \A k \in 1 .. c : NotAfter(w, TakenAt(S, w, k), i)
<1> DEFINE p == PlaceIn(S, w, i)
<1>1. p \in 1 .. Cardinality(S) BY PlacesAre
<1>2. \A a, b \in S : PlaceIn(S, w, a) = PlaceIn(S, w, b) => a = b BY PlacesAre
<1>3. \A a, b \in S : PlaceIn(S, w, a) <= PlaceIn(S, w, b) => NotAfter(w, a, b) BY PlacesAre
<1>4. TakenAt(S, w, p) \in S /\ PlaceIn(S, w, TakenAt(S, w, p)) = PlaceIn(S, w, i) BY <1>1, PlaceTaken
<1>5. TakenAt(S, w, p) = i BY <1>2, <1>4
<1>6. p \notin 1 .. c BY <1>5
<1>7. Cardinality(S) \in Nat BY PlacesAre
<1> HIDE DEF p
<1>8. c # Cardinality(S) /\ c < p BY <1>1, <1>6, <1>7
<1>9. ASSUME NEW k \in 1 .. c PROVE NotAfter(w, TakenAt(S, w, k), i)
  <2>1. k \in 1 .. Cardinality(S) OBVIOUS
  <2>2. TakenAt(S, w, k) \in S /\ PlaceIn(S, w, TakenAt(S, w, k)) = k BY <2>1, PlaceTaken
  <2>3. k <= p BY <1>1, <1>7, <1>8
  <2>4. PlaceIn(S, w, TakenAt(S, w, k)) <= PlaceIn(S, w, i) BY <2>2, <2>3 DEF p
  <2> QED BY <1>3, <2>2, <2>4
<1> QED BY <1>8, <1>9

-----------------------------------------------------------------------------
(* What is received of a push *)

ReportsOK(s) == s \in Seq(ToSet(s)) /\ \A i \in DOMAIN s : s[i].away \in Nat /\ s[i].at \in Int
OfPush(s, p) == ReportsOK(s) /\ \A i \in DOMAIN s : s[i].push = p
OfSecond(s, t) == ReportsOK(s) /\ \A i \in DOMAIN s : s[i].push.t = t

\* What host h still has to send: each line is of a push of its own and, as long as
\* no line is lost, the `done` of a push comes before the lines of the next.
LineOK(l, h) == (~l.done => OfPush(l.ac, l.push)) /\ l.push.by = h
Chained(q) == \A i \in DOMAIN q : ~q[i].done => i + 1 \in DOMAIN q /\ q[i + 1].push = q[i].push
QueueOK(q, h) == q \in Seq(ToSet(q)) /\ \A i \in DOMAIN q : LineOK(q[i], h)
TodoOK == DOMAIN todo = Hosts /\ \A h \in Hosts : QueueOK(todo[h], h) /\ (lost = 0 => Chained(todo[h]))

\* The host a report is of has still to close its push.
Owed(a) == a.push.by \in Hosts /\ todo[a.push.by] # <<>> /\ todo[a.push.by][1].push = a.push
StageOK == DOMAIN stage = {"open", "t", "got", "rx"} /\ OfSecond(stage.got, stage.t) /\ Len(stage.got) <= SetRoom
OwedOK == lost = 0 => \A i \in DOMAIN stage.got : Owed(stage.got[i])
GivenOK == \A i, j \in DOMAIN given.set : given.set[i].at \in Int /\ Together(given.set[i], given.set[j])

\* What SetOfOnePush says of the set that is installed, the set given, and the time.
MadeOf(q, g, now) ==
  /\ \A i \in DOMAIN q : \E j \in DOMAIN g.set : q[i] = g.set[j]
  /\ \A i, j \in DOMAIN q : q[i].plane = q[j].plane => i = j
  /\ Len(q) <= SetRoom
  /\ g.placed => \A i \in DOMAIN g.set :
       \/ g.set[i].away > KeepRange
       \/ \E k \in DOMAIN q : q[k].plane = g.set[i].plane /\ q[k].away <= g.set[i].away
       \/ now - g.set[i].at > KeepAge
       \/ Len(q) = SetRoom /\ \A k \in DOMAIN q : q[k].away <= g.set[i].away
FeedInv ==
  TodoOK /\ StageOK /\ OwedOK /\ feedTime \in Nat /\ lost \in Nat /\ GivenOK /\ MadeOf(feed, given, feedTime)

LEMMA PushPlaces ==
  ASSUME NEW s, ReportsOK(s)
  PROVE  /\ Len(s) \in Nat /\ DOMAIN s = 1 .. Len(s) /\ s \in Seq(ToSet(s))
         /\ \A S \in SUBSET DOMAIN s : S \subseteq Nat /\ IsFiniteSet(S)
<1>1. Len(s) \in Nat /\ DOMAIN s = 1 .. Len(s) /\ s \in Seq(ToSet(s)) BY DEF ReportsOK
<1>2. IsFiniteSet(1 .. Len(s)) BY <1>1, FS_Interval
<1>3. ASSUME NEW S \in SUBSET DOMAIN s PROVE S \subseteq Nat /\ IsFiniteSet(S)
  <2>1. S \subseteq 1 .. Len(s) BY <1>1
  <2> QED BY <1>1, <1>2, <2>1, FS_Subset
<1> QED BY <1>1, <1>3

LEMMA EmptyOfAny == ASSUME NEW t PROVE OfSecond(<<>>, t)
BY DEF OfSecond, ReportsOK

LEMMA TakenOfPush ==
  ASSUME NEW s, NEW p, OfPush(s, p), NEW S, S \subseteq DOMAIN s, NEW w, \A i \in S : w[i] \in Nat, NEW n \in Nat
  PROVE  OfPush(InOrder(s, S, w, n), p) /\ Len(InOrder(s, S, w, n)) \in Nat /\ Len(InOrder(s, S, w, n)) <= n
<1> DEFINE q == InOrder(s, S, w, n)
<1>1. S \subseteq Nat /\ IsFiniteSet(S) BY PushPlaces DEF OfPush
<1> HIDE DEF q
<1>2. q \in Seq(ToSet(q)) /\ Len(q) \in Nat /\ Len(q) <= n BY <1>1, InOrderIs DEF q
<1>3. \A k \in DOMAIN q : TakenAt(S, w, k) \in S /\ q[k] = s[TakenAt(S, w, k)] BY <1>1, InOrderIs DEF q
<1>4. \A k \in DOMAIN q : \E i \in DOMAIN s : q[k] = s[i] BY <1>3
<1>5. OfPush(q, p) BY <1>2, <1>4 DEF OfPush, ReportsOK
<1> QED BY <1>2, <1>5 DEF q

LEMMA JoinedOfSecond ==
  ASSUME NEW a, NEW b, NEW t, OfSecond(a, t), OfSecond(b, t)
  PROVE  /\ OfSecond(a \o b, t) /\ Len(a \o b) = Len(a) + Len(b)
         /\ \A i \in DOMAIN (a \o b) :
              (\E j \in DOMAIN a : (a \o b)[i] = a[j]) \/ (\E j \in DOMAIN b : (a \o b)[i] = b[j])
<1> DEFINE S == ToSet(a) \union ToSet(b)  q == a \o b
<1>1. a \in Seq(S) /\ b \in Seq(S) BY DEF OfSecond, ReportsOK
<1> HIDE DEF S
<1>2. /\ q \in Seq(S) /\ Len(q) = Len(a) + Len(b) /\ Len(a) \in Nat /\ Len(b) \in Nat
      /\ DOMAIN q = 1 .. Len(a) + Len(b) /\ DOMAIN a = 1 .. Len(a) /\ DOMAIN b = 1 .. Len(b)
      /\ \A i \in 1 .. Len(a) + Len(b) : q[i] = IF i <= Len(a) THEN a[i] ELSE b[i - Len(a)]
  BY <1>1
<1> HIDE DEF q
<1>3. \A i \in DOMAIN q : (\E j \in DOMAIN a : q[i] = a[j]) \/ (\E j \in DOMAIN b : q[i] = b[j])
  <2> SUFFICES ASSUME NEW i \in DOMAIN q
               PROVE  (\E j \in DOMAIN a : q[i] = a[j]) \/ (\E j \in DOMAIN b : q[i] = b[j]) OBVIOUS
  <2>1. CASE i <= Len(a) BY <1>2, <2>1
  <2>2. CASE i > Len(a)
    <3>1. i - Len(a) \in DOMAIN b /\ q[i] = b[i - Len(a)] BY <1>2, <2>2
    <3> QED BY <3>1
  <2> QED BY <1>2, <2>1, <2>2
<1>4. q \in Seq(ToSet(q))
  <2>1. \A i \in DOMAIN q : q[i] \in ToSet(q) BY DEF ToSet
  <2>2. Len(q) \in Nat /\ DOMAIN q = 1 .. Len(q) BY <1>2
  <2>3. q = [i \in 1 .. Len(q) |-> q[i]] BY <1>2
  <2>4. q \in [1 .. Len(q) -> ToSet(q)] BY <2>1, <2>2, <2>3
  <2> QED BY <2>2, <2>4
<1>5. OfSecond(q, t) BY <1>3, <1>4 DEF OfSecond, ReportsOK
<1> QED BY <1>2, <1>3, <1>5 DEF q

\* What traffic_ingest makes of what it is given.
LEMMA ChosenIs ==
  ASSUME NEW s, ReportsOK(s), feedTime \in Nat
  PROVE  LET q == Chosen(s) IN
         /\ \A i \in DOMAIN q : \E j \in DOMAIN s : q[i] = s[j]
         /\ \A i, j \in DOMAIN q : q[i].plane = q[j].plane => i = j
         /\ Len(q) <= SetRoom
         /\ placed => \A i \in DOMAIN s :
              LET r == s[i]
              IN \/ r.away > KeepRange
                 \/ \E k \in DOMAIN q : q[k].plane = r.plane /\ q[k].away <= r.away
                 \/ feedTime - r.at > KeepAge
                 \/ Len(q) = SetRoom /\ \A k \in DOMAIN q : q[k].away <= r.away
<1> DEFINE U == Usable(s)  F == NearestOnly(s)  w == Away(s)  q == Chosen(s)
<1>1. Len(s) \in Nat /\ DOMAIN s = 1 .. Len(s) BY PushPlaces
<1>2. U \subseteq DOMAIN s /\ F \subseteq U BY DEF Usable, NearestOnly
<1>3. U \subseteq Nat /\ IsFiniteSet(U) /\ F \subseteq Nat /\ IsFiniteSet(F) /\ F \subseteq DOMAIN s BY <1>2, PushPlaces
<1>4. \A i \in DOMAIN s : s[i].away \in Nat /\ s[i].at \in Int BY DEF ReportsOK
<1>5. \A i \in DOMAIN s : w[i] \in Nat /\ (placed => w[i] = s[i].away) BY <1>4 DEF Away
<1>6. SetRoom \in Nat /\ KeepRange \in Nat /\ KeepAge \in Nat BY FeedAssumption
<1>7. q = InOrder(s, F, w, SetRoom) BY DEF Chosen
<1>8. \A i, j \in F : s[i].plane = s[j].plane => i = j
  <2> SUFFICES ASSUME NEW i \in F, NEW j \in F, s[i].plane = s[j].plane PROVE i = j OBVIOUS
  <2>1. NotAfter(w, i, j) /\ NotAfter(w, j, i) BY <1>2 DEF NearestOnly
  <2>2. i \in Nat /\ j \in Nat /\ w[i] \in Nat /\ w[j] \in Nat BY <1>3, <1>5
  <2> QED BY <2>1, <2>2 DEF NotAfter
<1>9. ASSUME NEW i \in U PROVE \E f \in F : s[f].plane = s[i].plane /\ NotAfter(w, f, i)
  <2> DEFINE T == {j \in U : s[j].plane = s[i].plane}
  <2>1. T \subseteq DOMAIN s /\ i \in T BY <1>2
  <2>2. T \subseteq Nat /\ IsFiniteSet(T) BY <2>1, PushPlaces
  <2>3. \A j \in T : w[j] \in Nat BY <1>5, <2>1
  <2>4. T # {} BY <2>1
  <2>5. PICK f \in T : \A j \in T : NotAfter(w, f, j) BY <2>2, <2>3, <2>4, FirstIn
  <2>6. f \in F BY <2>5 DEF NearestOnly
  <2> QED BY <2>1, <2>5, <2>6
<1>10. \A f \in F : w[f] \in Nat BY <1>3, <1>5
<1> HIDE DEF q, F, w, U
<1> DEFINE of(k) == TakenAt(F, w, k)
<1>11. /\ Len(q) \in Nat /\ Len(q) <= SetRoom /\ DOMAIN q = 1 .. Len(q)
       /\ Len(q) # SetRoom => Len(q) = Cardinality(F)
  <2>1. F \subseteq DOMAIN s /\ F \subseteq Nat /\ IsFiniteSet(F) /\ SetRoom \in Nat BY <1>3, <1>6
  <2> QED BY <2>1, <1>7, <1>10, InOrderIs
<1>12. \A k \in DOMAIN q : of(k) \in F /\ q[k] = s[of(k)] /\ k \in 1 .. Cardinality(F) /\ PlaceIn(F, w, of(k)) = k
  <2>1. F \subseteq DOMAIN s /\ F \subseteq Nat /\ IsFiniteSet(F) /\ SetRoom \in Nat BY <1>3, <1>6
  <2> QED BY <2>1, <1>7, <1>10, InOrderIs
<1> HIDE DEF of
<1>13. \A k \in DOMAIN q : of(k) \in F /\ of(k) \in DOMAIN s /\ q[k] = s[of(k)] BY <1>3, <1>12
<1>14. \A i, j \in DOMAIN q : q[i].plane = q[j].plane => i = j
  <2> SUFFICES ASSUME NEW i \in DOMAIN q, NEW j \in DOMAIN q
               PROVE  q[i].plane = q[j].plane => i = j OBVIOUS
  <2>2. q[i].plane = q[j].plane => of(i) = of(j) BY <1>8, <1>13
  <2>3. of(i) = of(j) => i = j BY <1>12
  <2> QED BY <2>2, <2>3
<1>15. ASSUME placed, NEW i \in DOMAIN s, ~(s[i].away > KeepRange), ~(feedTime - s[i].at > KeepAge)
       PROVE  \/ \E k \in DOMAIN q : q[k].plane = s[i].plane /\ q[k].away <= s[i].away
              \/ Len(q) = SetRoom /\ \A k \in DOMAIN q : q[k].away <= s[i].away
  <2>1. i \in U BY <1>4, <1>6, <1>15 DEF U, Usable
  <2>2. PICK f \in F : s[f].plane = s[i].plane /\ NotAfter(w, f, i) BY <1>9, <2>1
  <2>3. f \in DOMAIN s /\ \A j \in DOMAIN s : s[j].away \in Nat /\ w[j] = s[j].away BY <1>3, <1>4, <1>5, <1>15
  <2>4. s[f].away <= s[i].away BY <2>2, <2>3 DEF NotAfter
  <2>5. CASE \E k \in DOMAIN q : of(k) = f
    <3>1. PICK k \in DOMAIN q : of(k) = f BY <2>5
    <3>2. q[k] = s[f] BY <1>13, <3>1
    <3> QED BY <2>2, <2>4, <3>2
  <2>6. CASE \A k \in DOMAIN q : of(k) # f
    <3>1. /\ \A k \in 1 .. Len(q) : k \in 1 .. Cardinality(F)
          /\ \A k \in 1 .. Len(q) : TakenAt(F, w, k) # f BY <1>11, <1>12, <2>6 DEF of
    <3>2. Len(q) # Cardinality(F) BY <1>3, <1>10, <1>11, <3>1, LeftAfter
    <3>3. \A k \in 1 .. Len(q) : NotAfter(w, TakenAt(F, w, k), f) BY <1>3, <1>10, <1>11, <3>1, LeftAfter
    <3>4. ASSUME NEW k \in DOMAIN q PROVE q[k].away <= s[i].away
      <4>1. NotAfter(w, of(k), f) /\ of(k) \in DOMAIN s /\ q[k] = s[of(k)] BY <1>11, <1>13, <3>3 DEF of
      <4>2. s[of(k)].away <= s[f].away BY <2>3, <4>1 DEF NotAfter
      <4>3. s[of(k)].away \in Nat /\ s[f].away \in Nat /\ s[i].away \in Nat BY <1>4, <2>3, <4>1
      <4> QED BY <2>4, <4>1, <4>2, <4>3
    <3> QED BY <1>11, <3>2, <3>4
  <2> QED BY <2>5, <2>6
<1>16. Len(q) <= SetRoom BY <1>11
<1>17. \A i \in DOMAIN q : \E j \in DOMAIN s : q[i] = s[j] BY <1>13
<1> QED BY <1>14, <1>15, <1>16, <1>17 DEF q

LEMMA ChunkOfPush ==
  ASSUME NEW s, NEW p, OfPush(s, p), NEW i \in Nat, i # 0 PROVE OfPush(Chunk(s, i), p)
<1> DEFINE m == (i - 1) * LineRoom + 1
           n == IF i * LineRoom < Len(s) THEN i * LineRoom ELSE Len(s)
           q == SubSeq(s, m, n)
<1>1. Len(s) \in Nat /\ DOMAIN s = 1 .. Len(s) BY PushPlaces DEF OfPush
<1>2. m \in Nat /\ m >= 1
  <2>1. i - 1 \in Nat /\ LineRoom \in Nat BY FeedAssumption
  <2>2. (i - 1) * LineRoom \in Nat BY <2>1
  <2> QED BY <2>2
<1>3. n \in Nat /\ n <= Len(s)
  <2>1. LineRoom \in Nat BY FeedAssumption
  <2>2. i * LineRoom \in Nat BY <2>1
  <2> QED BY <1>1, <2>2
<1> HIDE DEF m, n
<1>4. \A k \in m .. n : k \in DOMAIN s BY <1>1, <1>2, <1>3
<1>5. \A k \in m .. n : s[k] \in ToSet(s) BY <1>4 DEF ToSet
<1>6. m \in Int /\ n \in Int BY <1>2, <1>3
<1>7. /\ q \in Seq(ToSet(s)) /\ Len(q) = (IF m <= n THEN n - m + 1 ELSE 0)
      /\ \A k \in 1 .. n - m + 1 : q[k] = s[m + k - 1]
  BY <1>5, <1>6, SubSeqProperties
<1>8. Len(q) \in Nat /\ DOMAIN q = 1 .. Len(q) BY <1>7
<1> HIDE DEF q
<1>9. \A k \in DOMAIN q : \E l \in DOMAIN s : q[k] = s[l]
  <2> SUFFICES ASSUME NEW k \in DOMAIN q PROVE \E l \in DOMAIN s : q[k] = s[l] OBVIOUS
  <2>1. k \in Nat /\ 1 <= k /\ k <= n - m + 1 BY <1>2, <1>3, <1>7, <1>8
  <2>2. m + k - 1 \in m .. n /\ k \in 1 .. n - m + 1 BY <1>2, <1>3, <2>1
  <2>3. m + k - 1 \in DOMAIN s /\ q[k] = s[m + k - 1] BY <1>4, <1>7, <2>2
  <2> QED BY <2>3
<1>10. q \in Seq(ToSet(q))
  <2>1. \A k \in DOMAIN q : q[k] \in ToSet(q) BY DEF ToSet
  <2>2. q \in [1 .. Len(q) -> ToSet(q)] BY <1>7, <1>8, <2>1
  <2> QED BY <1>8, <2>2
<1>11. OfPush(q, p) BY <1>9, <1>10 DEF OfPush, ReportsOK
<1> QED BY <1>11 DEF q, m, n, Chunk

LEMMA LinesAreOfPush ==
  ASSUME NEW s, NEW p, OfPush(s, p) PROVE QueueOK(Lines(s, p), p.by) /\ Chained(Lines(s, p))
<1> DEFINE n == (Len(s) + LineRoom - 1) \div LineRoom
           a == [i \in 1 .. n |-> [done |-> FALSE, push |-> p, ac |-> Chunk(s, i), n |-> 0]]
           b == <<[done |-> TRUE, push |-> p, ac |-> <<>>, n |-> Len(s)]>>
           q == a \o b
           S == {a[i] : i \in 1 .. n} \union {b[1]}
<1>1. n \in Nat
  <2>1. Len(s) \in Nat /\ LineRoom \in Nat \ {0} BY FeedAssumption, PushPlaces DEF OfPush
  <2>2. Len(s) + LineRoom - 1 \in Nat BY <2>1
  <2> QED BY <2>1, <2>2
<1> HIDE DEF n
<1>2. \A i \in 1 .. n : ~a[i].done /\ OfPush(a[i].ac, p) /\ a[i].push = p
  <2> SUFFICES ASSUME NEW i \in 1 .. n PROVE ~a[i].done /\ OfPush(a[i].ac, p) /\ a[i].push = p OBVIOUS
  <2>1. i \in Nat /\ i # 0 BY <1>1
  <2>2. OfPush(Chunk(s, i), p) BY <2>1, ChunkOfPush
  <2> QED BY <2>2
<1>3. b[1].done /\ b[1].push = p OBVIOUS
<1>4. a \in [1 .. n -> S] /\ DOMAIN a = 1 .. n OBVIOUS
<1>5. b \in Seq(S) /\ Len(b) = 1 /\ b[1] \in S OBVIOUS
<1> HIDE DEF a, b, S
<1>6. a \in Seq(S) /\ Len(a) = n BY <1>1, <1>4
<1>7. /\ q \in Seq(S) /\ Len(q) = n + 1
      /\ \A i \in 1 .. n + 1 : q[i] = IF i <= n THEN a[i] ELSE b[i - n]
  <2>1. a \in Seq(S) /\ b \in Seq(S) BY <1>5, <1>6
  <2>2. /\ q \in Seq(S) /\ Len(q) = Len(a) + Len(b)
        /\ \A i \in 1 .. Len(a) + Len(b) : q[i] = IF i <= Len(a) THEN a[i] ELSE b[i - Len(a)]
    BY <2>1, ConcatProperties
  <2> HIDE DEF q
  <2>3. Len(a) = n /\ Len(b) = 1 BY <1>5, <1>6
  <2> QED BY <2>2, <2>3
<1> HIDE DEF q
<1>8. DOMAIN q = 1 .. n + 1 BY <1>1, <1>7
<1>9. \A i \in DOMAIN q : q[i].push = p /\ (~q[i].done => i <= n /\ OfPush(q[i].ac, p))
  <2> SUFFICES ASSUME NEW i \in DOMAIN q PROVE q[i].push = p /\ (~q[i].done => i <= n /\ OfPush(q[i].ac, p)) OBVIOUS
  <2>1. CASE i <= n
    <3>1. i \in 1 .. n /\ q[i] = a[i] BY <1>1, <1>7, <1>8, <2>1
    <3> QED BY <1>2, <2>1, <3>1
  <2>2. CASE ~(i <= n)
    <3>1. i - n = 1 /\ i \in 1 .. n + 1 BY <1>1, <1>8, <2>2
    <3>2. q[i] = b[1] BY <1>7, <2>2, <3>1
    <3> QED BY <1>3, <3>2
  <2> QED BY <2>1, <2>2
<1>10. q \in Seq(ToSet(q))
  <2>1. \A k \in DOMAIN q : q[k] \in ToSet(q) BY DEF ToSet
  <2>2. Len(q) \in Nat /\ DOMAIN q = 1 .. Len(q) BY <1>1, <1>7, <1>8
  <2>3. q \in [1 .. Len(q) -> ToSet(q)] BY <1>7, <2>1, <2>2
  <2> QED BY <2>2, <2>3
<1>11. QueueOK(q, p.by) BY <1>9, <1>10 DEF QueueOK, LineOK
<1>12. Chained(q)
  <2> SUFFICES ASSUME NEW i \in DOMAIN q, ~q[i].done PROVE i + 1 \in DOMAIN q /\ q[i + 1].push = q[i].push
    BY DEF Chained
  <2>1. i + 1 \in DOMAIN q BY <1>1, <1>8, <1>9
  <2> QED BY <1>9, <2>1
<1> QED BY <1>11, <1>12 DEF q, a, b, n, Lines

LEMMA RestOfQueue ==
  ASSUME NEW q, NEW h, QueueOK(q, h), q # <<>>
  PROVE  /\ QueueOK(Tail(q), h) /\ Head(q) = q[1] /\ LineOK(Head(q), h)
         /\ Chained(q) => Chained(Tail(q))
         /\ Chained(q) /\ ~Head(q).done => Tail(q) # <<>> /\ Tail(q)[1].push = Head(q).push
<1> DEFINE S == ToSet(q)  r == Tail(q)
<1>1. q \in Seq(S) BY DEF QueueOK
<1> HIDE DEF S
<1>2. Len(q) \in Nat /\ Len(q) # 0 /\ DOMAIN q = 1 .. Len(q) /\ Head(q) = q[1] BY <1>1
<1>3. r \in Seq(S) /\ Len(r) = Len(q) - 1 /\ \A i \in 1 .. Len(r) : r[i] = q[i + 1] BY <1>1, HeadTailProperties
<1> HIDE DEF r
<1>4. Len(r) \in Nat /\ DOMAIN r = 1 .. Len(r) BY <1>3
<1>5. \A i \in DOMAIN r : i + 1 \in DOMAIN q /\ r[i] = q[i + 1] BY <1>2, <1>3, <1>4
<1>6. r \in Seq(ToSet(r))
  <2>1. \A k \in DOMAIN r : r[k] \in ToSet(r) BY DEF ToSet
  <2>2. r \in [1 .. Len(r) -> ToSet(r)] BY <1>3, <1>4, <2>1
  <2> QED BY <1>4, <2>2
<1>7. QueueOK(r, h) BY <1>5, <1>6 DEF QueueOK
<1>8. 1 \in DOMAIN q BY <1>2
<1>9. ASSUME Chained(q), NEW i \in DOMAIN r, ~r[i].done PROVE i + 1 \in DOMAIN r /\ r[i + 1].push = r[i].push
  <2>1. i + 1 \in DOMAIN q /\ r[i] = q[i + 1] BY <1>5
  <2>2. i + 1 + 1 \in DOMAIN q /\ q[i + 1 + 1].push = q[i + 1].push BY <1>9, <2>1 DEF Chained
  <2>3. i + 1 \in DOMAIN r BY <1>2, <1>3, <1>4, <2>2
  <2> QED BY <1>5, <2>1, <2>2, <2>3
<1>10. ASSUME Chained(q), ~q[1].done PROVE r # <<>> /\ r[1].push = q[1].push
  <2>1. 1 + 1 \in DOMAIN q /\ q[1 + 1].push = q[1].push BY <1>8, <1>10 DEF Chained
  <2>2. 1 \in DOMAIN r BY <1>2, <1>3, <1>4, <2>1
  <2>3. Len(r) # 0 BY <1>4, <2>2
  <2>4. r # <<>> BY <2>3
  <2> QED BY <1>5, <2>1, <2>2, <2>4
<1>11. Chained(q) => Chained(r) BY <1>9 DEF Chained
<1> QED BY <1>2, <1>7, <1>8, <1>10, <1>11 DEF QueueOK, r

\* The lines of another push, after those there are.
LEMMA QueuedAfter ==
  ASSUME NEW q, NEW l, NEW h, QueueOK(q, h), QueueOK(l, h)
  PROVE  /\ QueueOK(q \o l, h)
         /\ Chained(q) /\ Chained(l) => Chained(q \o l)
         /\ q # <<>> => q \o l # <<>> /\ (q \o l)[1] = q[1]
<1> DEFINE S == ToSet(q) \union ToSet(l)  r == q \o l
<1>1. q \in Seq(S) /\ l \in Seq(S) BY DEF QueueOK
<1> HIDE DEF S
<1>2. /\ Len(q) \in Nat /\ Len(l) \in Nat /\ DOMAIN q = 1 .. Len(q) /\ DOMAIN l = 1 .. Len(l)
      /\ r \in Seq(S) /\ Len(r) = Len(q) + Len(l) /\ DOMAIN r = 1 .. Len(q) + Len(l)
      /\ \A i \in 1 .. Len(q) + Len(l) : r[i] = IF i <= Len(q) THEN q[i] ELSE l[i - Len(q)]
  BY <1>1
<1> HIDE DEF r
<1>3. /\ \A i \in DOMAIN q : i \in DOMAIN r /\ r[i] = q[i]
      /\ \A i \in DOMAIN r \ DOMAIN q : i - Len(q) \in DOMAIN l /\ r[i] = l[i - Len(q)]
      /\ \A i \in DOMAIN l : i + Len(q) \in DOMAIN r /\ r[i + Len(q)] = l[i]
  BY <1>2
<1>4. \A i \in DOMAIN r : LineOK(r[i], h) BY <1>3 DEF QueueOK
<1>5. r \in Seq(ToSet(r))
  <2>1. \A i \in DOMAIN r : r[i] \in ToSet(r) BY DEF ToSet
  <2>2. Len(r) \in Nat /\ DOMAIN r = 1 .. Len(r) BY <1>2
  <2>3. r = [i \in 1 .. Len(r) |-> r[i]] BY <1>2
  <2>4. r \in [1 .. Len(r) -> ToSet(r)] BY <2>1, <2>2, <2>3
  <2> QED BY <2>2, <2>4
<1>6. QueueOK(r, h) BY <1>4, <1>5 DEF QueueOK
<1>7. ASSUME Chained(q), Chained(l), NEW i \in DOMAIN r, ~r[i].done
      PROVE  i + 1 \in DOMAIN r /\ r[i + 1].push = r[i].push
  <2>1. CASE i \in DOMAIN q
    <3>1. i + 1 \in DOMAIN q /\ q[i + 1].push = q[i].push BY <1>3, <1>7, <2>1 DEF Chained
    <3> QED BY <1>3, <2>1, <3>1
  <2>2. CASE i \notin DOMAIN q
    <3> DEFINE k == i - Len(q)
    <3>1. k \in DOMAIN l /\ r[i] = l[k] BY <1>3, <2>2
    <3>2. k + 1 \in DOMAIN l /\ l[k + 1].push = l[k].push BY <1>7, <3>1 DEF Chained
    <3>3. k + 1 + Len(q) = i + 1 BY <1>2
    <3> HIDE DEF k
    <3> QED BY <1>3, <3>1, <3>2, <3>3
  <2> QED BY <2>1, <2>2
<1>8. ASSUME q # <<>> PROVE r # <<>> /\ r[1] = q[1]
  <2>1. Len(q) # 0 BY <1>1, <1>8, EmptySeq
  <2>2. 1 \in DOMAIN q BY <1>2, <2>1
  <2>3. Len(r) # 0 BY <1>2, <2>1
  <2>4. r # <<>> BY <2>3
  <2> QED BY <1>3, <2>2, <2>4
<1>9. Chained(q) /\ Chained(l) => Chained(r) BY <1>7 DEF Chained
<1> QED BY <1>6, <1>8, <1>9 DEF r

-----------------------------------------------------------------------------
\* What is installed of a set whose reports may be together.
LEMMA FeedTogether ==
  ASSUME FeedInv PROVE SetOfOnePush
<1>1. \A i, j \in DOMAIN feed : Together(feed[i], feed[j])
  <2> SUFFICES ASSUME NEW i \in DOMAIN feed, NEW j \in DOMAIN feed PROVE Together(feed[i], feed[j])
    OBVIOUS
  <2>1. \E k \in DOMAIN given.set : feed[i] = given.set[k] BY DEF FeedInv, MadeOf
  <2>2. \E k \in DOMAIN given.set : feed[j] = given.set[k] BY DEF FeedInv, MadeOf
  <2>3. \A k, m \in DOMAIN given.set : Together(given.set[k], given.set[m]) BY DEF FeedInv, GivenOK
  <2> HIDE DEF Together
  <2> QED BY <2>1, <2>2, <2>3
<1> QED BY <1>1 DEF FeedInv, MadeOf, StageOK, SetOfOnePush

LEMMA InstallMakes ==
  ASSUME NEW s, ReportsOK(s), feedTime \in Nat, Install(s)
  PROVE  MadeOf(feed', given', feedTime) /\ given'.set = s
<1>1. given'.set = s /\ given'.placed = placed BY DEF Install
<1>2. feed' = Chosen(s) BY DEF Install
<1>3. MadeOf(Chosen(s), [set |-> s, placed |-> placed], feedTime) BY ChosenIs DEF MadeOf
<1>4. given' = [set |-> s, placed |-> placed] BY DEF Install
<1> QED BY <1>1, <1>2, <1>3, <1>4

LEMMA MadeLater ==
  ASSUME NEW q, NEW g, NEW now \in Nat, MadeOf(q, g, now), \A i \in DOMAIN g.set : g.set[i].at \in Int
  PROVE  MadeOf(q, g, now + 1)
<1>1. KeepAge \in Nat BY FeedAssumption
<1>2. ASSUME g.placed, NEW i \in DOMAIN g.set
      PROVE  \/ g.set[i].away > KeepRange
             \/ \E k \in DOMAIN q : q[k].plane = g.set[i].plane /\ q[k].away <= g.set[i].away
             \/ now + 1 - g.set[i].at > KeepAge
             \/ Len(q) = SetRoom /\ \A k \in DOMAIN q : q[k].away <= g.set[i].away
  <2>1. CASE now - g.set[i].at > KeepAge
    <3>1. g.set[i].at \in Int OBVIOUS
    <3>2. now + 1 - g.set[i].at > KeepAge BY <1>1, <2>1, <3>1
    <3> QED BY <3>2
  <2>2. CASE ~(now - g.set[i].at > KeepAge) BY <1>2, <2>2 DEF MadeOf
  <2> QED BY <2>1, <2>2
<1>3. /\ \A i \in DOMAIN q : \E j \in DOMAIN g.set : q[i] = g.set[j]
      /\ \A i, j \in DOMAIN q : q[i].plane = q[j].plane => i = j
      /\ Len(q) <= SetRoom
  BY DEF MadeOf
<1> QED BY <1>2, <1>3, SMTT(40) DEF MadeOf

LEMMA FeedInitially == FeedInit => FeedInv
<1> SUFFICES ASSUME FeedInit PROVE FeedInv OBVIOUS
<1> USE DEF FeedInit
<1>1. TodoOK
  <2>1. \A h \in Hosts : QueueOK(<<>>, h) /\ Chained(<<>>) BY DEF QueueOK, Chained
  <2> QED BY <2>1 DEF TodoOK
<1>2. StageOK /\ OwedOK
  <2>1. stage.got = <<>> /\ DOMAIN stage = {"open", "t", "got", "rx"} BY DEF Closed
  <2>2. SetRoom \in Nat BY FeedAssumption
  <2> QED BY <2>1, <2>2, EmptyOfAny DEF StageOK, OwedOK
<1>3. SetRoom \in Nat BY FeedAssumption
<1>4. MadeOf(feed, given, feedTime) /\ GivenOK BY <1>3 DEF MadeOf, GivenOK
<1> QED BY <1>1, <1>2, <1>4 DEF FeedInv

\* The set of a host or of the board, as a push gives it.
LEMMA StampedOfPush ==
  ASSUME NEW s \in Sets, NEW p, feedTime \in Nat
  PROVE  OfPush(Reported(s, p), p)
<1> DEFINE q == Reported(s, p)
<1>1. s \in Seq(ToSet(s)) /\ \A i \in DOMAIN s : s[i].away \in Nat /\ s[i].old \in Nat BY FeedAssumption
<1>2. Len(s) \in Nat /\ DOMAIN s = 1 .. Len(s) BY <1>1
<1>3. \A i \in DOMAIN q : q[i].away \in Nat /\ q[i].at \in Int /\ q[i].push = p BY <1>1 DEF Reported
<1>4. DOMAIN q = 1 .. Len(s) BY <1>2 DEF Reported
<1>5. q \in Seq(ToSet(q))
  <2>1. \A k \in DOMAIN q : q[k] \in ToSet(q) BY DEF ToSet
  <2>2. q = [k \in 1 .. Len(s) |-> q[k]] BY <1>2, <1>4 DEF Reported
  <2>3. q \in [1 .. Len(s) -> ToSet(q)] BY <1>4, <2>1, <2>2
  <2> QED BY <1>2, <2>3
<1> QED BY <1>3, <1>5 DEF OfPush, ReportsOK

LEMMA QueueLeft ==
  ASSUME TodoOK, NEW h \in Hosts, NEW q, QueueOK(q, h), lost' = 0 => Chained(q), lost' = 0 => lost = 0,
         todo' = [todo EXCEPT ![h] = q]
  PROVE  TodoOK' /\ todo'[h] = q /\ \A g \in Hosts \ {h} : todo'[g] = todo[g]
<1>1. DOMAIN todo' = Hosts /\ \A g \in Hosts : todo'[g] = IF g = h THEN q ELSE todo[g] BY DEF TodoOK
<1>2. \A g \in Hosts : QueueOK(todo'[g], g) /\ (lost' = 0 => Chained(todo'[g])) BY <1>1 DEF TodoOK
<1> QED BY <1>1, <1>2 DEF TodoOK

\* A line is added to what is being received.
LEMMA GatheredOfSecond ==
  ASSUME StageOK, NEW line, OfPush(line.ac, line.push), stage' = Gathered(line)
  PROVE  /\ StageOK'
         /\ \A i \in DOMAIN stage'.got :
              (\E j \in DOMAIN stage.got : stage'.got[i] = stage.got[j]) \/ stage'.got[i].push = line.push
<1> DEFINE st == IF stage.open /\ stage.t = line.push.t THEN stage ELSE [Closed EXCEPT !.open = TRUE, !.t = line.push.t]
           young == {i \in DOMAIN line.ac : feedTime - line.ac[i].at <= KeepAge}
           any == [i \in DOMAIN line.ac |-> 0]
           room == SetRoom - Len(st.got)
           more == InOrder(line.ac, young, any, room)
<1>1. stage' = [st EXCEPT !.rx = @ + Len(line.ac), !.got = @ \o more] BY DEF Gathered
<1>2. /\ DOMAIN st = {"open", "t", "got", "rx"} /\ st.t = line.push.t
      /\ OfSecond(st.got, line.push.t) /\ Len(st.got) <= SetRoom
      /\ st.got = stage.got \/ st.got = <<>>
  <2>1. CASE stage.open /\ stage.t = line.push.t BY <2>1 DEF StageOK
  <2>2. CASE ~(stage.open /\ stage.t = line.push.t)
    <3>1. st = [open |-> TRUE, t |-> line.push.t, got |-> <<>>, rx |-> 0] BY <2>2 DEF Closed
    <3>2. SetRoom \in Nat BY FeedAssumption
    <3> HIDE DEF st
    <3>3. DOMAIN st = {"open", "t", "got", "rx"} /\ st.t = line.push.t /\ st.got = <<>> BY <3>1
    <3> QED BY <3>2, <3>3, EmptyOfAny
  <2> QED BY <2>1, <2>2
<1> HIDE DEF st
<1>3. Len(st.got) \in Nat /\ SetRoom \in Nat BY <1>2, PushPlaces, FeedAssumption DEF OfSecond
<1>4. room \in Nat BY <1>2, <1>3
<1>5. young \subseteq DOMAIN line.ac /\ \A i \in young : any[i] \in Nat OBVIOUS
<1> HIDE DEF room, young, any
<1>6. OfPush(more, line.push) /\ Len(more) \in Nat /\ Len(more) <= room BY <1>4, <1>5, TakenOfPush
<1> HIDE DEF more
<1>7. OfSecond(more, line.push.t) /\ \A i \in DOMAIN more : more[i].push = line.push BY <1>6 DEF OfPush, OfSecond
<1>8. /\ OfSecond(st.got \o more, line.push.t) /\ Len(st.got \o more) = Len(st.got) + Len(more)
      /\ \A i \in DOMAIN (st.got \o more) :
           (\E j \in DOMAIN st.got : (st.got \o more)[i] = st.got[j]) \/ (\E j \in DOMAIN more : (st.got \o more)[i] = more[j])
  BY <1>2, <1>7, JoinedOfSecond
<1>9. stage'.t = line.push.t /\ stage'.got = st.got \o more /\ DOMAIN stage' = {"open", "t", "got", "rx"} BY <1>1, <1>2
<1>10. Len(stage'.got) <= SetRoom BY <1>2, <1>3, <1>6, <1>8, <1>9 DEF room
<1>11. OfSecond(stage'.got, stage'.t) BY <1>8, <1>9
<1>12. \A i \in DOMAIN stage'.got : (\E j \in DOMAIN stage.got : stage'.got[i] = stage.got[j]) \/ stage'.got[i].push = line.push
  BY <1>2, <1>7, <1>8, <1>9
<1> QED BY <1>9, <1>10, <1>11, <1>12 DEF StageOK

LEMMA ClosedOK == stage' = Closed => StageOK' /\ OwedOK'
<1> SUFFICES ASSUME stage' = Closed PROVE StageOK' /\ OwedOK' OBVIOUS
<1>1. stage'.got = <<>> /\ DOMAIN stage' = {"open", "t", "got", "rx"} BY DEF Closed
<1>2. SetRoom \in Nat BY FeedAssumption
<1>3. OfSecond(<<>>, stage'.t) BY EmptyOfAny
<1> QED BY <1>1, <1>2, <1>3 DEF StageOK, OwedOK

\* What is being received may be together: two reports of one host are of the push
\* it has still to close, as long as no line is lost.
LEMMA StageTogether ==
  ASSUME StageOK, OwedOK, lost \in Nat, NEW i \in DOMAIN stage.got, NEW j \in DOMAIN stage.got
  PROVE  stage.got[i].at \in Int /\ Together(stage.got[i], stage.got[j])
<1>1. stage.got[i].push.t = stage.t /\ stage.got[j].push.t = stage.t /\ stage.got[i].at \in Int
  BY DEF StageOK, OfSecond, ReportsOK
<1>2. CASE lost = 0
  <2>1. Owed(stage.got[i]) /\ Owed(stage.got[j]) BY <1>2 DEF OwedOK
  <2>2. stage.got[i].push.by = stage.got[j].push.by => stage.got[i].push = stage.got[j].push BY <2>1 DEF Owed
  <2> QED BY <1>1, <2>2 DEF Together
<1>3. CASE lost > 0 BY <1>1, <1>3 DEF Together
<1> QED BY <1>2, <1>3

\* A host makes another push.
LEMMA PushKeeps ==
  ASSUME FeedInv, NEW h \in Hosts, Push(h) PROVE FeedInv'
<1>1. UNCHANGED <<stage, feed, given, feedTime, lost>> BY DEF Push
<1>2. PICK s \in Sets, t \in Seconds : todo' = [todo EXCEPT ![h] = @ \o Lines(Reported(s, Made(h, t)), Made(h, t))]
  BY DEF Push
<1> DEFINE p == Made(h, t)  l == Lines(Reported(s, p), p)  q == todo[h] \o l
<1>3. p.by = h BY DEF Made
<1> HIDE DEF p
<1>4. OfPush(Reported(s, p), p) BY StampedOfPush DEF FeedInv
<1>5. QueueOK(l, h) /\ Chained(l) BY <1>3, <1>4, LinesAreOfPush
<1>6. todo' = [todo EXCEPT ![h] = q] BY <1>2 DEF p
<1>7. QueueOK(todo[h], h) /\ (lost = 0 => Chained(todo[h])) BY DEF FeedInv, TodoOK
<1> HIDE DEF l
<1>8. /\ QueueOK(q, h) /\ (lost = 0 => Chained(q))
      /\ todo[h] # <<>> => q # <<>> /\ q[1] = todo[h][1] BY <1>5, <1>7, QueuedAfter
<1> HIDE DEF q
<1>9. TodoOK' /\ todo'[h] = q /\ \A g \in Hosts \ {h} : todo'[g] = todo[g]
  BY <1>1, <1>6, <1>8, QueueLeft DEF FeedInv
<1>10. ASSUME lost' = 0, NEW i \in DOMAIN stage.got PROVE Owed(stage.got[i])'
  <2> DEFINE a == stage.got[i]
  <2>1. Owed(a) BY <1>1, <1>10 DEF FeedInv, OwedOK
  <2>2. a.push.by \in Hosts /\ todo[a.push.by] # <<>> /\ todo[a.push.by][1].push = a.push BY <2>1 DEF Owed
  <2> HIDE DEF a
  <2>3. todo'[a.push.by] # <<>> /\ todo'[a.push.by][1].push = a.push BY <1>8, <1>9, <2>2
  <2>4. stage' = stage BY <1>1
  <2> QED BY <2>2, <2>3, <2>4 DEF Owed, a
<1>11. OwedOK' BY <1>1, <1>10 DEF OwedOK
<1> QED BY <1>1, <1>9, <1>11 DEF FeedInv, StageOK, GivenOK, Together

\* The board has a line, whole.
LEMMA LineKeeps ==
  ASSUME FeedInv, NEW h \in Hosts, TrafficLine(h) PROVE FeedInv'
<1>1. /\ todo[h] # <<>> /\ ~Head(todo[h]).done /\ stage' = Gathered(Head(todo[h]))
      /\ todo' = [todo EXCEPT ![h] = Tail(todo[h])] /\ UNCHANGED <<feed, given, feedTime, lost>> BY DEF TrafficLine
<1> DEFINE line == Head(todo[h])  q == Tail(todo[h])
<1>2. QueueOK(todo[h], h) /\ (lost = 0 => Chained(todo[h])) BY DEF FeedInv, TodoOK
<1>3. /\ QueueOK(q, h) /\ line = todo[h][1] /\ OfPush(line.ac, line.push) /\ line.push.by = h
      /\ lost = 0 => Chained(q) /\ q # <<>> /\ q[1].push = line.push
  BY <1>1, <1>2, RestOfQueue DEF LineOK
<1>4. stage' = Gathered(line) /\ todo' = [todo EXCEPT ![h] = q] BY <1>1
<1> HIDE DEF line, q
<1>5. TodoOK' /\ todo'[h] = q /\ \A g \in Hosts \ {h} : todo'[g] = todo[g]
  BY <1>1, <1>3, <1>4, QueueLeft DEF FeedInv
<1>6. /\ StageOK'
      /\ \A i \in DOMAIN stage'.got :
           (\E j \in DOMAIN stage.got : stage'.got[i] = stage.got[j]) \/ stage'.got[i].push = line.push
  BY <1>3, <1>4, GatheredOfSecond DEF FeedInv
<1>7. ASSUME lost' = 0, NEW i \in DOMAIN stage'.got PROVE Owed(stage.got[i])'
  <2> DEFINE a == stage'.got[i]
  <2>1. CASE a.push = line.push
    <3>1. a.push.by = h /\ todo'[h] # <<>> /\ todo'[h][1].push = a.push BY <1>1, <1>3, <1>5, <1>7, <2>1
    <3> HIDE DEF a
    <3> QED BY <3>1 DEF Owed, a
  <2>2. CASE \E j \in DOMAIN stage.got : a = stage.got[j]
    <3>1. PICK j \in DOMAIN stage.got : a = stage.got[j] BY <2>2
    <3>2. Owed(stage.got[j]) BY <1>1, <1>7 DEF FeedInv, OwedOK
    <3>3. a.push.by \in Hosts /\ todo[a.push.by] # <<>> /\ todo[a.push.by][1].push = a.push BY <3>1, <3>2 DEF Owed
    <3> HIDE DEF a
    <3>4. CASE a.push.by = h
      <4>1. a.push = line.push BY <1>3, <3>3, <3>4
      <4>2. todo'[h] # <<>> /\ todo'[h][1].push = a.push BY <1>1, <1>3, <1>5, <1>7, <4>1
      <4> QED BY <3>4, <4>2 DEF Owed, a
    <3>5. CASE a.push.by # h
      <4>1. todo'[a.push.by] = todo[a.push.by] BY <1>5, <3>3, <3>5
      <4> QED BY <3>3, <4>1 DEF Owed, a
    <3> QED BY <3>4, <3>5
  <2> QED BY <1>6, <2>1, <2>2
<1>8. OwedOK' BY <1>7 DEF OwedOK
<1> QED BY <1>1, <1>5, <1>6, <1>8 DEF FeedInv, GivenOK, Together

\* The board has a `done`.
LEMMA DoneKeeps ==
  ASSUME FeedInv, NEW h \in Hosts, TrafficDone(h) PROVE FeedInv'
<1>1. /\ todo[h] # <<>> /\ Install(stage.got) /\ stage' = Closed
      /\ todo' = [todo EXCEPT ![h] = Tail(todo[h])] /\ UNCHANGED <<feedTime, lost>> BY DEF TrafficDone
<1>2. QueueOK(todo[h], h) /\ (lost = 0 => Chained(todo[h])) BY DEF FeedInv, TodoOK
<1>3. QueueOK(Tail(todo[h]), h) /\ (lost = 0 => Chained(Tail(todo[h]))) BY <1>1, <1>2, RestOfQueue
<1>4. TodoOK' BY <1>1, <1>3, QueueLeft DEF FeedInv
<1>5. StageOK' /\ OwedOK' BY <1>1, ClosedOK
<1>6. MadeOf(feed', given', feedTime) /\ given'.set = stage.got
  BY <1>1, InstallMakes DEF FeedInv, StageOK, OfSecond
<1>7. \A i, j \in DOMAIN stage.got : stage.got[i].at \in Int /\ Together(stage.got[i], stage.got[j])
  BY StageTogether DEF FeedInv
<1>8. GivenOK' BY <1>1, <1>6, <1>7 DEF GivenOK, Together
<1> QED BY <1>1, <1>4, <1>5, <1>6, <1>8 DEF FeedInv

\* A line is lost.
LEMMA LossKeeps ==
  ASSUME FeedInv, NEW h \in Hosts, LoseLine(h) PROVE FeedInv'
<1>1. /\ todo[h] # <<>> /\ todo' = [todo EXCEPT ![h] = Tail(todo[h])] /\ lost' = lost + 1
      /\ UNCHANGED <<stage, feed, given, feedTime>> BY DEF LoseLine
<1>2. lost \in Nat /\ lost' \in Nat /\ lost' # 0 /\ lost' > 0 BY <1>1 DEF FeedInv
<1>3. QueueOK(todo[h], h) BY DEF FeedInv, TodoOK
<1>4. QueueOK(Tail(todo[h]), h) BY <1>1, <1>3, RestOfQueue
<1>5. TodoOK' BY <1>1, <1>2, <1>4, QueueLeft DEF FeedInv
<1>6. OwedOK' BY <1>2 DEF OwedOK
<1>7. ASSUME NEW i \in DOMAIN given.set, NEW j \in DOMAIN given.set
      PROVE  /\ given.set[i].at \in Int
             /\ given.set[i].push = given.set[j].push \/ given.set[i].push.t = given.set[j].push.t
  BY DEF FeedInv, GivenOK, Together
<1>8. GivenOK' BY <1>1, <1>2, <1>7 DEF GivenOK, Together
<1> QED BY <1>1, <1>2, <1>5, <1>6, <1>8 DEF FeedInv, StageOK

\* The board fetches a set.
LEMMA OwnKeeps ==
  ASSUME FeedInv, OwnSet PROVE FeedInv'
<1>1. PICK s \in Sets : Install(Reported(s, Made("board", 0))) BY DEF OwnSet
<1>2. UNCHANGED <<todo, stage, feedTime, lost>> BY DEF OwnSet
<1> DEFINE p == Made("board", 0)  q == Reported(s, p)
<1>3. OfPush(q, p) BY StampedOfPush DEF FeedInv
<1>4. Install(q) BY <1>1
<1> HIDE DEF p, q
<1>5. ReportsOK(q) /\ \A i \in DOMAIN q : q[i].at \in Int /\ q[i].push = p BY <1>3 DEF OfPush, ReportsOK
<1>6. MadeOf(feed', given', feedTime) /\ given'.set = q BY <1>4, <1>5, InstallMakes DEF FeedInv
<1>7. GivenOK' BY <1>5, <1>6 DEF GivenOK, Together
<1>8. TodoOK' /\ StageOK' /\ OwedOK' BY <1>2 DEF FeedInv, TodoOK, StageOK, OwedOK, Owed
<1> QED BY <1>2, <1>6, <1>7, <1>8 DEF FeedInv

LEMMA FeedKept == FeedInv /\ [FeedNext]_feedVars => FeedInv'
<1> SUFFICES ASSUME FeedInv, [FeedNext]_feedVars PROVE FeedInv' OBVIOUS
<1>1. CASE \E h \in Hosts : Push(h) \/ TrafficLine(h) \/ TrafficDone(h) \/ LoseLine(h)
  <2>1. PICK h \in Hosts : Push(h) \/ TrafficLine(h) \/ TrafficDone(h) \/ LoseLine(h) BY <1>1
  <2> QED BY <2>1, PushKeeps, LineKeeps, DoneKeeps, LossKeeps
<1>2. CASE OwnSet BY <1>2, OwnKeeps
<1>3. CASE FeedTick
  <2>1. feedTime' = feedTime + 1 /\ UNCHANGED <<todo, stage, feed, given, lost>> BY <1>3 DEF FeedTick
  <2>2. MadeOf(feed, given, feedTime + 1) BY MadeLater DEF FeedInv, GivenOK
  <2>3. TodoOK' /\ StageOK' /\ OwedOK' /\ GivenOK'
    BY <2>1 DEF FeedInv, TodoOK, StageOK, OwedOK, Owed, GivenOK, Together
  <2> QED BY <2>1, <2>2, <2>3 DEF FeedInv
<1>4. CASE Relocate \/ UNCHANGED feedVars
  <2>1. UNCHANGED <<todo, stage, feed, given, feedTime, lost>> BY <1>4 DEF Relocate, feedVars
  <2>2. TodoOK' /\ StageOK' /\ OwedOK' /\ GivenOK'
    BY <2>1 DEF FeedInv, TodoOK, StageOK, OwedOK, Owed, GivenOK, Together
  <2> QED BY <2>1, <2>2 DEF FeedInv
<1> QED BY <1>1, <1>2, <1>3, <1>4 DEF FeedNext

\* A set a board has installed is of one push, or of pushes of one second: of
\* several hosts, or of one where a line was lost; it has no aircraft twice; and what
\* was given and is not in it is too old, too far, further than a report of the
\* same that is in, or further than a full set (traffic_host_line, traffic_ingest):
\* for every number of hosts, every sets and seconds, and all limits, however the
\* lines of the hosts interleave and whichever of them are lost.
THEOREM SetsAreOfOnePush == FeedSpec => []SetOfOnePush
<1>1. FeedInv => SetOfOnePush BY FeedTogether
<1> QED BY <1>1, FeedInitially, FeedKept, PTL DEF FeedSpec


-----------------------------------------------------------------------------
(***************************************************************************)
(* Fragments: that an advertisement every piece of which is heard in time   *)
(* is reported whole and alone (WholeReported), for every number of         *)
(* advertisers, pieces and slots.                                           *)
(*                                                                         *)
(* The argument: an assembly of an advertiser that is not too old shows in  *)
(* the history of tails, so one that begins in good order finds none to     *)
(* join; and as long as no more advertisers are under way than there are    *)
(* slots, who begins finds a free one and takes no other's.                 *)
(***************************************************************************)
Piece == Advertiser \X Nat \X Nat \X Nat
Slot0 == [used : BOOLEAN, of : Advertiser \union {Never}, since : Nat, pieces : Seq(Piece)]

AdvsTyped ==
  /\ adv \in [Advertiser -> [no : Nat, sent : Nat, since : Nat, good : BOOLEAN]]
  /\ tail \in [Advertiser -> Nat \union {Never}]
  /\ \A a \in Advertiser : adv[a].sent <= Pieces[a] /\ adv[a].since <= ms
  /\ \A a \in Advertiser : tail[a] # Never => tail[a] <= ms
  /\ ms \in Nat /\ ms <= LastMs /\ missed \in Nat /\ missed <= MaxMissed

\* A used slot is of one advertiser, which is still under way; so are its pieces.
Filled(f) ==
  /\ f.of \in Advertiser /\ f.since <= ms /\ Len(f.pieces) # 0
  /\ tail[f.of] # Never /\ f.since <= tail[f.of]
  /\ \A i \in 1 .. Len(f.pieces) : f.pieces[i][1] = f.of /\ f.since <= f.pieces[i][4]

SlotsTrue ==
  /\ frag \in [FragSlot -> Slot0]
  /\ \A s \in FragSlot : IF frag[s].used THEN Filled(frag[s]) ELSE frag[s] = Vacant
  /\ \A r, s \in FragSlot : frag[r].used /\ frag[s].used /\ frag[r].of = frag[s].of => r = s

\* What there is of an advertisement heard in good order.
SoFarHeard(a, s) ==
  /\ frag[s].used /\ frag[s].of = a /\ frag[s].since = adv[a].since
  /\ Len(frag[s].pieces) = adv[a].sent
  /\ \A i \in 1 .. adv[a].sent : SubSeq(frag[s].pieces[i], 1, 3) = <<a, adv[a].no, i>>

Assembled ==
  \A a \in Advertiser :
    adv[a].good /\ adv[a].sent # 0 /\ adv[a].sent # Pieces[a] /\ ms - adv[a].since <= KeepFor =>
      \E s \in FragSlot : SoFarHeard(a, s)

FragInv == AdvsTyped /\ SlotsTrue /\ Assembled

LEMMA Numbered == /\ FragSlot \subseteq Nat /\ 1 \in FragSlot /\ FragSlots \in Nat /\ KeepFor \in Nat
                  /\ IsFiniteSet(FragSlot) /\ Cardinality(FragSlot) = FragSlots
                  /\ Never \notin Nat /\ Never \notin Advertiser /\ IsFiniteSet(Advertiser)
                  /\ \A a \in Advertiser : Pieces[a] \in Nat /\ Pieces[a] # 0
                  /\ MaxMissed \in Nat /\ LastMs \in Nat
<1>1. FragSlots \in Nat \ {0} /\ KeepFor \in Nat /\ Never \notin Nat /\ Never \notin Advertiser /\ IsFiniteSet(Advertiser)
  BY FragmentsAssumption
<1>2. Pieces \in [Advertiser -> Nat \ {0}] /\ MaxMissed \in Nat /\ LastMs \in Nat BY FragmentsAssumption
<1>3. IsFiniteSet(FragSlot) /\ Cardinality(FragSlot) = FragSlots BY <1>1, FS_Interval DEF FragSlot
<1>4. FragSlot \subseteq Nat /\ 1 \in FragSlot BY <1>1 DEF FragSlot
<1> QED BY <1>1, <1>2, <1>3, <1>4

LEMMA LowestIn == ASSUME NEW S \in SUBSET FragSlot, S # {} PROVE Lowest(S) \in S
<1>1. S \in SUBSET Nat BY Numbered
<1>2. \E s \in S : \A r \in S : s <= r BY <1>1, LeastOf
<1> QED BY <1>2 DEF Lowest

LEMMA FragmentsInitially == FragInit => FragInv
<1> SUFFICES ASSUME FragInit PROVE FragInv OBVIOUS
<1>1. AdvsTyped BY Numbered DEF FragInit, AdvsTyped
<1>2. SlotsTrue
  <2>1. Vacant \in Slot0 /\ ~Vacant.used BY DEF Vacant, Slot0
  <2> QED BY <2>1 DEF FragInit, SlotsTrue
<1>3. Assembled BY DEF FragInit, Assembled
<1> QED BY <1>1, <1>2, <1>3 DEF FragInv

\* What an advertiser has under way is in one slot, and what is dropped is its own.
LEMMA UnderWay ==
  ASSUME AdvsTyped, SlotsTrue, NEW a \in Advertiser
  PROVE  /\ Assembling(a) \subseteq FragSlot /\ \A r, s \in Assembling(a) : r = s
         /\ DOMAIN Dropped(a) = FragSlot
         /\ \A s \in FragSlot : /\ Dropped(a)[s] \in {frag[s], Vacant}
                                /\ frag[s].used /\ frag[s].of # a => Dropped(a)[s] = frag[s]
                                /\ s \in Assembling(a) => Dropped(a)[s] = frag[s]
                                /\ Dropped(a)[s].used => Dropped(a)[s] = frag[s] /\ (frag[s].of = a => s \in Assembling(a))
         /\ Assembling(a) # {} => a \in Recent(tail)
<1>1. Assembling(a) \subseteq FragSlot /\ \A r, s \in Assembling(a) : r = s BY DEF Assembling, SlotsTrue
<1>2. DOMAIN Dropped(a) = FragSlot BY DEF Dropped
<1>3. ~Vacant.used BY DEF Vacant
<1>4. ASSUME NEW s \in FragSlot
      PROVE  /\ Dropped(a)[s] \in {frag[s], Vacant}
             /\ frag[s].used /\ frag[s].of # a => Dropped(a)[s] = frag[s]
             /\ s \in Assembling(a) => Dropped(a)[s] = frag[s]
             /\ Dropped(a)[s].used => Dropped(a)[s] = frag[s] /\ (frag[s].of = a => s \in Assembling(a))
  BY <1>3 DEF Dropped, Assembling
<1>5. ASSUME NEW s \in Assembling(a) PROVE a \in Recent(tail)
  <2>1. frag[s].used /\ frag[s].of = a /\ ms - frag[s].since <= KeepFor /\ frag[s] \in Slot0 /\ Filled(frag[s])
    BY Numbered DEF Assembling, SlotsTrue, TooOld, AdvsTyped, Slot0
  <2>2. tail[a] # Never /\ frag[s].since <= tail[a] BY <2>1 DEF Filled
  <2>3. tail[a] \in Nat /\ ms \in Nat /\ frag[s].since \in Nat /\ KeepFor \in Nat BY <2>1, <2>2, Numbered DEF AdvsTyped, Slot0
  <2>4. ~(ms - tail[a] > KeepFor) BY <2>1, <2>2, <2>3
  <2> QED BY <2>2, <2>4 DEF Recent, TooOld
<1> QED BY <1>1, <1>2, <1>4, <1>5

\* Who begins while no more advertisers are under way than there are slots finds one free.
LEMMA FreeSlotFound ==
  ASSUME AdvsTyped, SlotsTrue, NEW a \in Advertiser, Assembling(a) = {}, NEW tails, tails = [tail EXCEPT ![a] = ms],
         Cardinality(Recent(tails)) <= FragSlots
  PROVE  FreeSlots(Dropped(a)) # {}
<1> SUFFICES ASSUME FreeSlots(Dropped(a)) = {} PROVE FALSE OBVIOUS
<1> DEFINE f == [s \in FragSlot |-> frag[s].of]  R == Recent(tails)
<1>1. ms \in Nat /\ KeepFor \in Nat /\ FragSlots \in Nat BY Numbered DEF AdvsTyped
<1>2. \A b \in Advertiser : tails[b] = IF b = a THEN ms ELSE tail[b] BY DEF AdvsTyped
<1>3. R \subseteq Advertiser /\ a \in R
  <2>1. tails[a] # Never /\ ~(ms - tails[a] > KeepFor) BY <1>1, <1>2, Numbered
  <2> QED BY <2>1 DEF Recent, TooOld
<1>4. IsFiniteSet(R \ {a}) /\ Cardinality(R \ {a}) = Cardinality(R) - 1 /\ Cardinality(R) \in Nat
  <2>1. IsFiniteSet(R) BY <1>3, Numbered, FS_Subset
  <2> QED BY <1>3, <2>1, FS_RemoveElement, FS_CardinalityType
<1>5. ASSUME NEW s \in FragSlot PROVE frag[s].used /\ frag[s].of \in R \ {a}
  <2>1. Dropped(a)[s].used /\ ~TooOld(Dropped(a)[s].since) BY DEF FreeSlots
  <2>2. frag[s].used /\ ~TooOld(frag[s].since) /\ frag[s].of # a BY <2>1, UnderWay
  <2>3. Filled(frag[s]) /\ frag[s] \in Slot0 BY <2>2 DEF SlotsTrue
  <2> DEFINE b == frag[s].of
  <2>4. b \in Advertiser /\ tail[b] # Never /\ frag[s].since <= tail[b] BY <2>3 DEF Filled
  <2>5. tail[b] \in Nat /\ frag[s].since \in Nat BY <2>3, <2>4 DEF AdvsTyped, Slot0
  <2>6. ~(ms - tail[b] > KeepFor) BY <1>1, <2>2, <2>4, <2>5 DEF TooOld
  <2>7. tails[b] = tail[b] BY <1>2, <2>2, <2>4
  <2>8. b \in R BY <2>4, <2>6, <2>7 DEF Recent, TooOld
  <2> QED BY <2>2, <2>8
<1>6. f \in [FragSlot -> R \ {a}] BY <1>5
<1>7. Cardinality(R \ {a}) < Cardinality(FragSlot) BY <1>1, <1>4, Numbered
<1>8. \A s \in FragSlot : f[s] = frag[s].of OBVIOUS
<1> HIDE DEF f, R
<1>9. \E x, y \in FragSlot : x # y /\ f[x] = f[y]
  <2> DEFINE T == R \ {a}
  <2>1. IsFiniteSet(FragSlot) /\ IsFiniteSet(T) /\ Cardinality(T) < Cardinality(FragSlot) BY <1>4, <1>7, Numbered
  <2>2. f \in [FragSlot -> T] BY <1>6
  <2> HIDE DEF T
  <2> QED BY <2>1, <2>2, FS_PigeonHole
<1> QED BY <1>5, <1>8, <1>9 DEF SlotsTrue

\* A frag table that keeps what others have under way, and a's in slot s or none, stays true.
LEMMA SlotsStay ==
  ASSUME AdvsTyped, SlotsTrue, NEW a \in Advertiser, NEW s \in FragSlot, UNCHANGED ms,
         \A r \in Assembling(a) : r = s,
         frag' = [r \in FragSlot |-> frag'[r]], \A r \in FragSlot \ {s} : frag'[r] = Dropped(a)[r],
         \/ frag'[s] = Vacant
         \/ frag'[s] = Dropped(a)[s] /\ s \notin Assembling(a)
         \/ frag'[s] \in Slot0 /\ frag'[s].used /\ frag'[s].of = a /\ frag'[s].since <= ms /\ Len(frag'[s].pieces) # 0
            /\ tail'[a] = ms
            /\ \A i \in 1 .. Len(frag'[s].pieces) : frag'[s].pieces[i][1] = a /\ frag'[s].since <= frag'[s].pieces[i][4],
         \A b \in Advertiser \ {a} : tail'[b] = tail[b]
  PROVE  SlotsTrue'
<1>1. Vacant \in Slot0 /\ ~Vacant.used BY DEF Vacant, Slot0
<1>2. \A r \in FragSlot : frag[r] \in Slot0 /\ Dropped(a)[r] \in Slot0 BY <1>1, UnderWay DEF SlotsTrue
<1>3. \A r \in FragSlot : frag'[r] \in Slot0 BY <1>1, <1>2
<1>4. ASSUME NEW r \in FragSlot, frag'[r].used, frag'[r].of # a
      PROVE  frag'[r] = frag[r] /\ frag[r].used
  <2>1. frag'[r] = Dropped(a)[r] BY <1>1, <1>4
  <2>2. Dropped(a)[r].used BY <1>4, <2>1
  <2> QED BY <1>4, <2>1, <2>2, UnderWay
<1>5. ASSUME NEW r \in FragSlot, frag'[r].used, frag'[r].of = a PROVE r = s /\ frag'[s] # Vacant /\ ~(frag'[s] = Dropped(a)[s] /\ s \notin Assembling(a))
  <2>1. CASE frag'[r] = Dropped(a)[r]
    <3>1. Dropped(a)[r].used /\ Dropped(a)[r] = frag[r] /\ frag[r].of = a BY <1>5, <2>1, UnderWay
    <3>2. r \in Assembling(a) BY <3>1, UnderWay
    <3>3. r = s BY <3>2
    <3> QED BY <1>1, <1>5, <3>2, <3>3
  <2>2. CASE frag'[r] # Dropped(a)[r]
    <3>1. r = s BY <2>2
    <3> QED BY <1>1, <1>5, <2>2, <3>1
  <2> QED BY <2>1, <2>2
<1>6. ASSUME NEW r \in FragSlot, frag'[r].used PROVE Filled(frag[r])'
  <2>1. CASE frag'[r].of # a
    <3>1. frag'[r] = frag[r] /\ Filled(frag[r]) BY <1>4, <1>6, <2>1 DEF SlotsTrue
    <3>2. tail'[frag[r].of] = tail[frag[r].of] BY <2>1, <3>1 DEF Filled
    <3> QED BY <3>1, <3>2 DEF Filled
  <2>2. CASE frag'[r].of = a
    <3>1. r = s BY <1>5, <1>6, <2>2
    <3>2. frag'[s].of = a /\ frag'[s].since <= ms /\ Len(frag'[s].pieces) # 0 /\ tail'[a] = ms
          /\ \A i \in 1 .. Len(frag'[s].pieces) : frag'[s].pieces[i][1] = a /\ frag'[s].since <= frag'[s].pieces[i][4]
      BY <1>5, <1>6, <2>2, <3>1
    <3>3. ms \in Nat /\ Never \notin Nat BY Numbered DEF AdvsTyped
    <3> QED BY <3>1, <3>2, <3>3 DEF Filled
  <2> QED BY <2>1, <2>2
<1>7. ASSUME NEW r \in FragSlot, ~frag'[r].used PROVE frag'[r] = Vacant
  <2>1. CASE frag'[r] = Dropped(a)[r]
    <3>1. frag'[r] \in {frag[r], Vacant} BY <2>1, UnderWay
    <3> QED BY <1>7, <3>1 DEF SlotsTrue
  <2>2. CASE frag'[r] # Dropped(a)[r] BY <1>7, <2>2
  <2> QED BY <2>1, <2>2
<1>8. ASSUME NEW q \in FragSlot, NEW r \in FragSlot, frag'[q].used, frag'[r].used, frag'[q].of = frag'[r].of PROVE q = r
  <2>1. CASE frag'[q].of = a BY <1>5, <1>8, <2>1
  <2>2. CASE frag'[q].of # a
    <3>1. frag'[q] = frag[q] /\ frag[q].used /\ frag'[r] = frag[r] /\ frag[r].used BY <1>4, <1>8, <2>2
    <3> QED BY <1>8, <3>1 DEF SlotsTrue
  <2> QED BY <2>1, <2>2
<1>9. frag' \in [FragSlot -> Slot0] BY <1>3
<1> QED BY <1>6, <1>7, <1>8, <1>9 DEF SlotsTrue

\* A piece is not the last.
More(a, i) == i < Pieces[a]

Grown(a, s, piece) == [Dropped(a) EXCEPT ![s] = [frag[s] EXCEPT !.pieces = Append(frag[s].pieces, piece)]]

\* A piece joins what is in slot s.
JoinedTo(a, s, piece, i) ==
  /\ More(a, i) => frag' = Grown(a, s, piece) /\ report' = <<>>
  /\ ~More(a, i) => frag' = [Dropped(a) EXCEPT ![s] = Vacant] /\ report' = Append(frag[s].pieces, piece)

\* What a piece that is heard does to the table and to what is reported.
LEMMA JoinIs ==
  ASSUME AdvsTyped, SlotsTrue, NEW a \in Advertiser, NEW piece \in Piece, NEW i \in Nat,
         piece[1] = a, piece[4] = ms, Join(a, piece, More(a, i)), UNCHANGED ms,
         tail' = [tail EXCEPT ![a] = IF More(a, i) THEN ms ELSE Never]
  PROVE  /\ SlotsTrue'
         /\ \A k \in DOMAIN report' : report'[k][1] = a /\ ms - report'[k][4] <= KeepFor
         /\ Assembling(a) = {} /\ ~More(a, i) => report' = <<piece>> /\ frag' = Dropped(a)
         /\ Assembling(a) = {} /\ More(a, i) => report' = <<>> /\
              \E s \in FragSlot :
                 /\ s = Taken(Dropped(a))
                 /\ \A r \in FragSlot \ {s} : frag'[r] = Dropped(a)[r]
                 /\ frag'[s].used /\ frag'[s].of = a /\ frag'[s].since = ms /\ frag'[s].pieces = <<piece>>
         /\ \A s \in Assembling(a) : JoinedTo(a, s, piece, i)
<1>1. ms \in Nat /\ KeepFor \in Nat BY Numbered DEF AdvsTyped
<1>2. /\ Assembling(a) \subseteq FragSlot /\ \A r, s \in Assembling(a) : r = s
      /\ DOMAIN Dropped(a) = FragSlot
  BY UnderWay
<1>3. \A b \in Advertiser : tail'[b] = IF b = a THEN IF More(a, i) THEN ms ELSE Never ELSE tail[b] BY DEF AdvsTyped
<1>4. CASE Assembling(a) = {} /\ ~More(a, i)
  <2>1. frag' = Dropped(a) /\ report' = <<piece>> BY <1>4 DEF Join
  <2> DEFINE s == 1
  <2>4. s \in FragSlot BY Numbered
  <2>5. frag' = [r \in FragSlot |-> frag'[r]] BY <2>1 DEF Dropped
  <2>6. \A r \in FragSlot : frag'[r] = Dropped(a)[r] BY <2>1
  <2> HIDE DEF s
  <2>7. frag'[s] = Dropped(a)[s] /\ s \notin Assembling(a) BY <1>4, <2>4, <2>6
  <2>2. SlotsTrue' BY <1>3, <1>4, <2>4, <2>5, <2>6, <2>7, SlotsStay
  <2>3. \A k \in DOMAIN report' : report'[k][1] = a /\ ms - report'[k][4] <= KeepFor BY <1>1, <2>1
  <2> QED BY <1>4, <2>1, <2>2, <2>3
<1>5. CASE Assembling(a) = {} /\ More(a, i)
  <2> DEFINE s == Taken(Dropped(a))
             slot == [Begun(s) EXCEPT !.of = a, !.pieces = <<piece>>]
  <2>1. s \in FragSlot
    <3>1. FreeSlots(Dropped(a)) \in SUBSET FragSlot BY DEF FreeSlots
    <3> QED BY <3>1, LowestIn, Numbered DEF Taken
  <2> HIDE DEF s
  <2>2. frag' = [Dropped(a) EXCEPT ![s] = [Begun(s) EXCEPT !.of = a, !.pieces = Append(Begun(s).pieces, piece)]] /\ report' = <<>>
    BY <1>5 DEF Join, s
  <2>3. Append(Begun(s).pieces, piece) = <<piece>> BY DEF Begun
  <2>4. frag' = [Dropped(a) EXCEPT ![s] = slot] BY <2>2, <2>3
  <2>5. slot \in Slot0 /\ slot.used /\ slot.of = a /\ slot.since = ms /\ slot.pieces = <<piece>> /\ Len(slot.pieces) = 1
    <3> DEFINE b == <<piece>>
    <3>1. b \in Seq(Piece) /\ Len(b) = 1 OBVIOUS
    <3> HIDE DEF b
    <3>2. slot = [Begun(s) EXCEPT !.of = a, !.pieces = b] BY DEF b
    <3>3. DOMAIN slot = {"used", "of", "since", "pieces"} BY <3>2 DEF Begun
    <3>4. slot.used BY <3>2 DEF Begun
    <3>5. slot.of = a BY <3>2 DEF Begun
    <3>6. slot.since = ms BY <3>2 DEF Begun
    <3>7. slot.pieces = b BY <3>2 DEF Begun
    <3>8. slot \in Slot0 BY <1>1, <3>1, <3>2 DEF Begun, Slot0
    <3> QED BY <3>1, <3>4, <3>5, <3>6, <3>7, <3>8 DEF b
  <2> HIDE DEF slot
  <2>6. frag'[s] = slot /\ frag' = [r \in FragSlot |-> frag'[r]] /\ \A r \in FragSlot \ {s} : frag'[r] = Dropped(a)[r] BY <1>2, <2>1, <2>4
  <2>7. tail'[a] = ms BY <1>3, <1>5
  <2>8. \A k \in 1 .. Len(slot.pieces) : slot.pieces[k][1] = a /\ slot.since <= slot.pieces[k][4] BY <1>1, <2>5
  <2>13. /\ AdvsTyped /\ SlotsTrue /\ UNCHANGED ms /\ \A r \in Assembling(a) : r = s
         /\ frag' = [r \in FragSlot |-> frag'[r]] /\ \A r \in FragSlot \ {s} : frag'[r] = Dropped(a)[r]
         /\ \A b \in Advertiser \ {a} : tail'[b] = tail[b]
    BY <1>3, <1>5, <2>6
  <2>14. /\ frag'[s] \in Slot0 /\ frag'[s].used /\ frag'[s].of = a /\ frag'[s].since <= ms /\ Len(frag'[s].pieces) # 0
         /\ tail'[a] = ms
         /\ \A k \in 1 .. Len(frag'[s].pieces) : frag'[s].pieces[k][1] = a /\ frag'[s].since <= frag'[s].pieces[k][4]
    <3>1. frag'[s] = slot BY <2>6
    <3>2. slot \in Slot0 /\ slot.used /\ slot.of = a /\ slot.since <= ms /\ Len(slot.pieces) # 0 BY <1>1, <2>5
    <3> QED BY ONLY <2>7, <2>8, <3>1, <3>2
  <2>9. SlotsTrue' BY <2>1, <2>13, <2>14, SlotsStay
  <2>10. frag'[s].used /\ frag'[s].of = a /\ frag'[s].since = ms /\ frag'[s].pieces = <<piece>> BY <2>5, <2>6
  <2>11. s = Taken(Dropped(a)) BY DEF s
  <2>12. \A k \in DOMAIN report' : report'[k][1] = a /\ ms - report'[k][4] <= KeepFor BY <2>2
  <2> QED BY <1>5, <2>1, <2>2, <2>6, <2>9, <2>10, <2>11, <2>12
<1>6. ASSUME NEW s \in Assembling(a)
      PROVE  /\ SlotsTrue'
             /\ \A k \in DOMAIN report' : report'[k][1] = a /\ ms - report'[k][4] <= KeepFor
             /\ JoinedTo(a, s, piece, i)
  <2> DEFINE pieces == Append(frag[s].pieces, piece)
  <2>1. s \in FragSlot /\ Lowest(Assembling(a)) = s
    <3>1. Lowest(Assembling(a)) \in Assembling(a) BY <1>2, LowestIn
    <3> QED BY <1>2, <3>1
  <2>2. /\ frag[s] \in Slot0 /\ frag[s].used /\ frag[s].of = a /\ ms - frag[s].since <= KeepFor
        /\ Filled(frag[s]) /\ Dropped(a)[s] = frag[s] /\ frag[s].since \in Nat /\ frag[s].since <= ms
    BY <1>1, <2>1, UnderWay DEF Assembling, SlotsTrue, TooOld, Slot0, Filled
  <2>3. /\ pieces \in Seq(Piece) /\ Len(pieces) = Len(frag[s].pieces) + 1 /\ Len(frag[s].pieces) \in Nat
        /\ \A k \in 1 .. Len(frag[s].pieces) : pieces[k] = frag[s].pieces[k]
        /\ pieces[Len(frag[s].pieces) + 1] = piece
    BY <2>2 DEF Slot0
  <2>4. [frag[s] EXCEPT !.of = a, !.pieces = pieces] = [frag[s] EXCEPT !.pieces = pieces]
    <3> HIDE DEF pieces
    <3> QED BY <2>2 DEF Slot0
  <2>5. IF More(a, i) THEN /\ frag' = [Dropped(a) EXCEPT ![s] = [frag[s] EXCEPT !.of = a, !.pieces = pieces]] /\ report' = <<>>
        ELSE frag' = [Dropped(a) EXCEPT ![s] = Vacant] /\ report' = pieces
    BY <2>1 DEF Join
  <2> HIDE DEF pieces
  <2>6. \A k \in 1 .. Len(pieces) : pieces[k][1] = a /\ frag[s].since <= pieces[k][4] /\ pieces[k][4] \in Nat
    <3> SUFFICES ASSUME NEW k \in 1 .. Len(pieces)
                 PROVE  pieces[k][1] = a /\ frag[s].since <= pieces[k][4] /\ pieces[k][4] \in Nat OBVIOUS
    <3>1. pieces[k] \in Piece BY <2>3
    <3>2. CASE k \in 1 .. Len(frag[s].pieces) BY <2>2, <2>3, <3>1, <3>2 DEF Filled, Piece
    <3>3. CASE k = Len(frag[s].pieces) + 1 BY <2>2, <2>3, <3>1, <3>3 DEF Piece
    <3> QED BY <2>3, <3>2, <3>3, SMTT(30)
  <2>7. CASE More(a, i)
    <3> DEFINE slot == [frag[s] EXCEPT !.pieces = pieces]
    <3>1. frag' = [Dropped(a) EXCEPT ![s] = slot] /\ report' = <<>> BY <2>4, <2>5, <2>7
    <3>2. slot \in Slot0 /\ slot.used /\ slot.of = a /\ slot.since = frag[s].since /\ slot.pieces = pieces BY <2>2, <2>3 DEF Slot0
    <3> HIDE DEF slot
    <3>3. frag'[s] = slot /\ frag' = [r \in FragSlot |-> frag'[r]] /\ \A r \in FragSlot \ {s} : frag'[r] = Dropped(a)[r] BY <1>2, <2>1, <3>1
    <3>4. tail'[a] = ms /\ Len(slot.pieces) # 0 BY <1>3, <2>3, <2>7, <3>2
    <3>5. SlotsTrue' BY <1>2, <1>3, <2>1, <2>2, <2>6, <3>2, <3>3, <3>4, SlotsStay
    <3> QED BY <2>7, <3>1, <3>5 DEF slot, pieces, Grown, JoinedTo
  <2>8. CASE ~More(a, i)
    <3>1. frag' = [Dropped(a) EXCEPT ![s] = Vacant] /\ report' = pieces BY <2>5, <2>8
    <3>2. frag'[s] = Vacant /\ frag' = [r \in FragSlot |-> frag'[r]] /\ \A r \in FragSlot \ {s} : frag'[r] = Dropped(a)[r] BY <1>2, <2>1, <3>1
    <3>3. SlotsTrue' BY <1>2, <1>3, <2>1, <3>2, SlotsStay
    <3>4. ASSUME NEW k \in DOMAIN report' PROVE report'[k][1] = a /\ ms - report'[k][4] <= KeepFor
      <4>1. k \in 1 .. Len(pieces) BY <2>3, <3>1
      <4>2. pieces[k][1] = a /\ frag[s].since <= pieces[k][4] /\ pieces[k][4] \in Nat BY <2>6, <4>1
      <4> QED BY <1>1, <2>2, <3>1, <4>2
    <3> QED BY <2>8, <3>1, <3>3, <3>4 DEF pieces, JoinedTo
  <2> QED BY <2>7, <2>8
<1>7. CASE Assembling(a) # {}
  <2>1. PICK s \in Assembling(a) : TRUE BY <1>7
  <2> QED BY <1>6, <1>7, <2>1
<1> QED BY <1>4, <1>5, <1>7

\* Its first three say which piece it is.
LEMMA Names ==
  ASSUME NEW a \in Advertiser, NEW n \in Nat, NEW i \in Nat, NEW m \in Nat
  PROVE  /\ <<a, n, i, m>> \in Piece /\ SubSeq(<<a, n, i, m>>, 1, 3) = <<a, n, i>>
         /\ <<a, n, i, m>>[1] = a /\ <<a, n, i, m>>[4] = m
<1> DEFINE S == Advertiser \union Nat  p == <<a, n, i, m>>  q == <<a, n, i>>  r == SubSeq(p, 1, 3)
<1>1. p \in Piece /\ p[1] = a /\ p[2] = n /\ p[3] = i /\ p[4] = m BY DEF Piece
<1>2. q \in Seq(S) /\ Len(q) = 3 /\ q[1] = a /\ q[2] = n /\ q[3] = i OBVIOUS
<1>3. \A k \in 1 .. 3 : p[k] \in S
  <2> SUFFICES ASSUME NEW k \in 1 .. 3 PROVE p[k] \in S OBVIOUS
  <2>1. k = 1 \/ k = 2 \/ k = 3 OBVIOUS
  <2> HIDE DEF p
  <2> QED BY <1>1, <2>1
<1>4. p[1] = q[1] /\ p[2] = q[2] /\ p[3] = q[3] BY <1>1, <1>2
<1> HIDE DEF p, q, S
<1>5. r \in Seq(S) /\ Len(r) = (IF 1 <= 3 THEN 3 - 1 + 1 ELSE 0) /\ \A k \in 1 .. 3 - 1 + 1 : r[k] = p[1 + k - 1]
  BY <1>3, SubSeqProperties
<1> HIDE DEF r
<1>6. Len(r) = 3 /\ \A k \in 1 .. 3 : r[k] = p[k] BY <1>5
<1>7. \A k \in 1 .. 3 : r[k] = q[k]
  <2> SUFFICES ASSUME NEW k \in 1 .. 3 PROVE r[k] = q[k] OBVIOUS
  <2>1. k = 1 \/ k = 2 \/ k = 3 OBVIOUS
  <2> QED BY <1>4, <1>6, <2>1
<1>8. r = q BY <1>2, <1>5, <1>6, <1>7
<1> QED BY <1>1, <1>8 DEF p, q, r

\* What WholeReported says of a step.
ReportedWhole ==
  /\ NotOnOldTail
  /\ \A a \in Advertiser :
       adv'[a] # adv[a] /\ adv'[a].sent = Pieces[a] /\ adv'[a].good /\ ms - adv'[a].since <= KeepFor =>
         /\ Len(report') = Pieces[a]
         /\ \A i \in 1 .. Pieces[a] : SubSeq(report'[i], 1, 3) = <<a, adv'[a].no, i>>

LEMMA TickFragments == FragInv /\ FragTick => FragInv' /\ ReportedWhole
<1> SUFFICES ASSUME FragInv, FragTick PROVE FragInv' /\ ReportedWhole OBVIOUS
<1>1. ms \in Nat /\ ms' = ms + 1 /\ ms' <= LastMs /\ report' = <<>> /\ UNCHANGED <<frag, adv, tail, missed>>
  BY Numbered DEF FragTick, FragInv, AdvsTyped
<1>2. AdvsTyped'
  <2>1. /\ adv \in [Advertiser -> [no : Nat, sent : Nat, since : Nat, good : BOOLEAN]]
        /\ tail \in [Advertiser -> Nat \union {Never}] /\ missed \in Nat /\ missed <= MaxMissed
        /\ \A a \in Advertiser : adv[a].sent <= Pieces[a]
    BY DEF FragInv, AdvsTyped
  <2>2. \A a \in Advertiser : adv[a].since <= ms'
    <3> SUFFICES ASSUME NEW a \in Advertiser PROVE adv[a].since <= ms' OBVIOUS
    <3>1. adv[a].since \in Nat /\ adv[a].since <= ms BY <2>1 DEF FragInv, AdvsTyped
    <3> QED BY <1>1, <3>1
  <2>3. \A a \in Advertiser : tail[a] # Never => tail[a] <= ms'
    <3> SUFFICES ASSUME NEW a \in Advertiser, tail[a] # Never PROVE tail[a] <= ms' OBVIOUS
    <3>1. tail[a] \in Nat /\ tail[a] <= ms BY <2>1 DEF FragInv, AdvsTyped
    <3> QED BY <1>1, <3>1
  <2> QED BY <1>1, <2>1, <2>2, <2>3 DEF AdvsTyped
<1>3. SlotsTrue'
  <2>1. ASSUME NEW s \in FragSlot, frag[s].used PROVE Filled(frag[s])'
    <3>1. Filled(frag[s]) /\ frag[s].since \in Nat BY <2>1 DEF FragInv, SlotsTrue, Slot0
    <3> QED BY <1>1, <3>1 DEF Filled
  <2> QED BY <1>1, <2>1 DEF FragInv, SlotsTrue
<1>4. Assembled'
  <2> SUFFICES ASSUME NEW a \in Advertiser, adv[a].good, adv[a].sent # 0, adv[a].sent # Pieces[a], ms' - adv[a].since <= KeepFor
               PROVE  \E s \in FragSlot : SoFarHeard(a, s)'
    BY <1>1 DEF Assembled
  <2>1. adv[a].since \in Nat /\ KeepFor \in Nat BY Numbered DEF FragInv, AdvsTyped
  <2>2. ms - adv[a].since <= KeepFor BY <1>1, <2>1
  <2>3. PICK s \in FragSlot : SoFarHeard(a, s) BY <2>2 DEF FragInv, Assembled
  <2>4. SoFarHeard(a, s)' BY <1>1, <2>3 DEF SoFarHeard
  <2> QED BY <2>4
<1>5. ReportedWhole BY <1>1 DEF ReportedWhole, NotOnOldTail
<1> QED BY <1>2, <1>3, <1>4, <1>5 DEF FragInv

LEMMA ScanEndFragments == FragInv /\ ScanEnded => FragInv' /\ ReportedWhole
<1> SUFFICES ASSUME FragInv, ScanEnded PROVE FragInv' /\ ReportedWhole OBVIOUS
<1>1. /\ frag' = [s \in FragSlot |-> Vacant] /\ tail' = [a \in Advertiser |-> Never] /\ report' = <<>> /\ UNCHANGED <<missed, ms>>
      /\ adv' = [a \in Advertiser |-> [adv[a] EXCEPT !.good = FALSE]]
  BY DEF ScanEnded
<1>2. Vacant \in Slot0 /\ ~Vacant.used BY DEF Vacant, Slot0
<1>3. SlotsTrue' BY <1>1, <1>2 DEF SlotsTrue
<1>4. adv \in [Advertiser -> [no : Nat, sent : Nat, since : Nat, good : BOOLEAN]] BY DEF FragInv, AdvsTyped
<1>5. \A a \in Advertiser : /\ adv'[a] \in [no : Nat, sent : Nat, since : Nat, good : BOOLEAN]
                            /\ adv'[a].sent = adv[a].sent /\ adv'[a].since = adv[a].since /\ ~adv'[a].good
  BY <1>1, <1>4
<1>6. adv' \in [Advertiser -> [no : Nat, sent : Nat, since : Nat, good : BOOLEAN]] BY <1>1, <1>5
<1>7. AdvsTyped' BY <1>1, <1>5, <1>6 DEF FragInv, AdvsTyped
<1>8. Assembled' /\ ReportedWhole BY <1>1, <1>5 DEF Assembled, ReportedWhole, NotOnOldTail
<1> QED BY <1>3, <1>7, <1>8 DEF FragInv

LEMMA SendFragments == \A a \in Advertiser : FragInv /\ SendPiece(a) => FragInv' /\ ReportedWhole
<1> SUFFICES ASSUME NEW a \in Advertiser, FragInv, SendPiece(a) PROVE FragInv' /\ ReportedWhole OBVIOUS
<1> DEFINE first == adv[a].sent \in {0, Pieces[a]}
           no == IF adv[a].sent = Pieces[a] THEN adv[a].no + 1 ELSE adv[a].no
           i == IF first THEN 1 ELSE adv[a].sent + 1
           more == More(a, i)
           start == IF first THEN ms ELSE adv[a].since
           piece == <<a, no, i, ms>>
           crowded == Cardinality(Recent(tail')) > FragSlots
<1>1. PICK heard \in BOOLEAN :
        /\ heard \/ missed < MaxMissed
        /\ IF heard THEN Join(a, piece, more) ELSE frag' = frag /\ report' = <<>>
        /\ tail' = IF heard THEN [tail EXCEPT ![a] = IF more THEN ms ELSE Never] ELSE tail
        /\ LET now == [no |-> no, sent |-> i, since |-> start,
                       good |-> heard /\ (IF first THEN a \notin Recent(tail) ELSE adv[a].good)]
           IN adv' = [b \in Advertiser |-> [(IF b = a THEN now ELSE adv[b]) EXCEPT !.good = @ /\ ~crowded]]
        /\ missed' = IF heard THEN missed ELSE missed + 1
  BY Zenon DEF SendPiece, More
<1> DEFINE good == heard /\ (IF first THEN a \notin Recent(tail) ELSE adv[a].good)
           now == [no |-> no, sent |-> i, since |-> start, good |-> good]
<1>2. UNCHANGED ms BY DEF SendPiece
<1>3. /\ adv \in [Advertiser -> [no : Nat, sent : Nat, since : Nat, good : BOOLEAN]]
      /\ tail \in [Advertiser -> Nat \union {Never}] /\ ms \in Nat /\ missed \in Nat /\ missed <= MaxMissed /\ ms <= LastMs
      /\ \A b \in Advertiser : adv[b].sent <= Pieces[b] /\ adv[b].since <= ms
      /\ \A b \in Advertiser : tail[b] # Never => tail[b] <= ms
      /\ AdvsTyped /\ SlotsTrue /\ Assembled
  BY DEF FragInv, AdvsTyped
<1>4. adv[a].sent \in Nat /\ adv[a].no \in Nat /\ adv[a].since \in Nat /\ Pieces[a] \in Nat /\ Pieces[a] # 0 /\ adv[a].good \in BOOLEAN
  BY <1>3, Numbered
<1>5. /\ first \in BOOLEAN /\ no \in Nat /\ i \in Nat /\ i # 0 /\ i <= Pieces[a] /\ more \in BOOLEAN
      /\ start \in Nat /\ start <= ms /\ (~first => i = adv[a].sent + 1 /\ no = adv[a].no /\ start = adv[a].since)
      /\ (first => i = 1 /\ start = ms) /\ (~more => i = Pieces[a]) /\ (~first => adv[a].sent # 0 /\ adv[a].sent # Pieces[a])
      /\ (more => i # Pieces[a])
  <2>1. adv[a].sent <= Pieces[a] /\ adv[a].since <= ms BY <1>3
  <2> QED BY <1>3, <1>4, <2>1 DEF More
<1>6. piece \in Piece /\ SubSeq(piece, 1, 3) = <<a, no, i>> /\ piece[1] = a /\ piece[4] = ms
  <2> HIDE DEF no, i
  <2> QED BY <1>3, <1>5, Names
<1> HIDE DEF first, no, i, start, piece, crowded
<1>7. good \in BOOLEAN BY <1>4
<1> HIDE DEF good
<1>8. adv' = [b \in Advertiser |-> [(IF b = a THEN now ELSE adv[b]) EXCEPT !.good = @ /\ ~crowded]] BY <1>1 DEF good
<1>9. /\ adv'[a].no = no /\ adv'[a].sent = i /\ adv'[a].since = start /\ adv'[a].good = (good /\ ~crowded)
      /\ adv'[a] \in [no : Nat, sent : Nat, since : Nat, good : BOOLEAN]
  <2>1. adv'[a] = [now EXCEPT !.good = @ /\ ~crowded] BY <1>8
  <2>2. now \in [no : Nat, sent : Nat, since : Nat, good : BOOLEAN] BY <1>5, <1>7
  <2>3. (good /\ ~crowded) \in BOOLEAN OBVIOUS
  <2>4. now.good = good OBVIOUS
  <2>5. adv'[a] = [now EXCEPT !.good = (good /\ ~crowded)] BY <2>1, <2>4
  <2> QED BY <2>2, <2>3, <2>5
<1>10. ASSUME NEW b \in Advertiser, b # a
       PROVE  /\ adv'[b] \in [no : Nat, sent : Nat, since : Nat, good : BOOLEAN]
              /\ adv'[b].sent = adv[b].sent /\ adv'[b].since = adv[b].since /\ adv'[b].no = adv[b].no
              /\ adv'[b].good => adv'[b] = adv[b] /\ adv[b].good /\ ~crowded
  <2> DEFINE g == adv[b].good /\ ~crowded
  <2>1. adv'[b] = [adv[b] EXCEPT !.good = g] BY <1>8, <1>10
  <2>2. adv[b] \in [no : Nat, sent : Nat, since : Nat, good : BOOLEAN] /\ g \in BOOLEAN BY <1>3
  <2>3. g => adv[b].good /\ ~crowded BY <1>3
  <2>4. g => adv[b].good = TRUE BY <2>2, <2>3
  <2> HIDE DEF g
  <2>5. adv'[b] \in [no : Nat, sent : Nat, since : Nat, good : BOOLEAN] /\ adv'[b].good = g
        /\ adv'[b].sent = adv[b].sent /\ adv'[b].since = adv[b].since /\ adv'[b].no = adv[b].no BY <2>1, <2>2
  <2>6. g => adv'[b] = adv[b]
    <3> SUFFICES ASSUME g PROVE adv'[b] = adv[b] OBVIOUS
    <3>1. adv'[b].good = adv[b].good BY <2>2, <2>4, <2>5
    <3> QED BY <2>2, <2>5, <3>1
  <2> QED BY <2>3, <2>5, <2>6
<1>11. AdvsTyped'
  <2>1. adv' \in [Advertiser -> [no : Nat, sent : Nat, since : Nat, good : BOOLEAN]] BY <1>8, <1>9, <1>10
  <2>2. tail' \in [Advertiser -> Nat \union {Never}] /\ \A b \in Advertiser : tail'[b] # Never => tail'[b] <= ms
    BY <1>1, <1>3
  <2>3. missed' \in Nat /\ missed' <= MaxMissed BY <1>1, <1>3, Numbered
  <2>4. \A b \in Advertiser : adv'[b].sent <= Pieces[b] /\ adv'[b].since <= ms BY <1>3, <1>5, <1>9, <1>10
  <2> QED BY <1>2, <1>3, <2>1, <2>2, <2>3, <2>4 DEF AdvsTyped
<1>12. CASE ~heard
  <2>1. frag' = frag /\ tail' = tail /\ report' = <<>> /\ ~good BY <1>1, <1>12 DEF good
  <2>2. SlotsTrue' BY <1>2, <1>3, <2>1 DEF SlotsTrue, Filled
  <2>3. ~adv'[a].good BY <1>9, <2>1
  <2>4. ASSUME NEW b \in Advertiser, adv'[b].good PROVE b # a /\ adv'[b] = adv[b] BY <1>10, <2>3, <2>4
  <2>5. Assembled'
    <3> SUFFICES ASSUME NEW b \in Advertiser, adv'[b].good, adv'[b].sent # 0, adv'[b].sent # Pieces[b],
                        ms - adv'[b].since <= KeepFor
                 PROVE  \E s \in FragSlot : SoFarHeard(b, s)'
      BY <1>2 DEF Assembled
    <3>1. adv'[b] = adv[b] BY <2>4
    <3>2. PICK s \in FragSlot : SoFarHeard(b, s) BY <1>3, <3>1 DEF Assembled
    <3>3. SoFarHeard(b, s)' BY <2>1, <3>1, <3>2 DEF SoFarHeard
    <3> QED BY <3>3
  <2>6. ReportedWhole BY <2>1, <2>4 DEF ReportedWhole, NotOnOldTail
  <2> QED BY <1>11, <2>2, <2>5, <2>6 DEF FragInv
<1>13. CASE heard
  <2>1. /\ Join(a, piece, more)
        /\ tail' = [tail EXCEPT ![a] = IF more THEN ms ELSE Never]
    BY <1>1, <1>13
  <2>20. /\ AdvsTyped /\ SlotsTrue /\ piece \in Piece /\ i \in Nat /\ piece[1] = a /\ piece[4] = ms
         /\ Join(a, piece, more) /\ UNCHANGED ms /\ tail' = [tail EXCEPT ![a] = IF more THEN ms ELSE Never]
    BY <1>2, <1>3, <1>5, <1>6, <2>1
  <2>2. /\ SlotsTrue'
        /\ \A k \in DOMAIN report' : report'[k][1] = a /\ ms - report'[k][4] <= KeepFor
        /\ Assembling(a) = {} /\ ~more => report' = <<piece>> /\ frag' = Dropped(a)
    <3>1. SlotsTrue' BY <2>20, JoinIs
    <3>2. \A k \in DOMAIN report' : report'[k][1] = a /\ ms - report'[k][4] <= KeepFor BY <2>20, JoinIs
    <3>3. Assembling(a) = {} /\ ~more => report' = <<piece>> /\ frag' = Dropped(a) BY <2>20, JoinIs
    <3> QED BY <3>1, <3>2, <3>3
  <2>3. Assembling(a) = {} /\ more =>
           report' = <<>> /\ \E s \in FragSlot :
                 /\ s = Taken(Dropped(a))
                 /\ \A r \in FragSlot \ {s} : frag'[r] = Dropped(a)[r]
                 /\ frag'[s].used /\ frag'[s].of = a /\ frag'[s].since = ms /\ frag'[s].pieces = <<piece>>
    BY <2>20, JoinIs
  <2>4. ASSUME NEW s \in Assembling(a)
        PROVE  /\ more => /\ frag' = Grown(a, s, piece)
                          /\ report' = <<>>
               /\ ~more => frag' = [Dropped(a) EXCEPT ![s] = Vacant] /\ report' = Append(frag[s].pieces, piece)
    <3>1. \A q \in Assembling(a) : JoinedTo(a, q, piece, i) BY <2>20, JoinIs
    <3> QED BY <2>4, <3>1 DEF JoinedTo
  <2>5. NotOnOldTail
    <3> SUFFICES ASSUME NEW k \in DOMAIN report' PROVE report'[k][1] = report'[1][1] /\ ms - report'[k][4] <= KeepFor
      BY DEF NotOnOldTail
    <3>1. 1 \in DOMAIN report'
      <4>1. CASE Assembling(a) = {} BY <2>2, <2>3, <4>1, <1>5
      <4>2. CASE Assembling(a) # {}
        <5>1. PICK s \in Assembling(a) : TRUE BY <4>2
        <5>2. report' = <<>> \/ report' = Append(frag[s].pieces, piece) BY <1>5, <2>4, <5>1
        <5>3. frag[s].pieces \in Seq(Piece) BY <1>3, <5>1 DEF Assembling, SlotsTrue, Slot0
        <5> QED BY <1>6, <5>2, <5>3
      <4> QED BY <4>1, <4>2
    <3> QED BY <2>2, <3>1
  \* Its own assembly, when all before was heard in order and in time.
  <2>6. ASSUME good, ~first, ms - start <= KeepFor PROVE \E s \in Assembling(a) : SoFarHeard(a, s)
    <3>1. adv[a].good BY <2>6 DEF good
    <3>2. PICK s \in FragSlot : SoFarHeard(a, s) BY <1>3, <1>5, <2>6, <3>1 DEF Assembled
    <3>3. s \in Assembling(a) BY <1>3, <1>4, <1>5, <2>6, <3>2, Numbered DEF Assembling, SoFarHeard, TooOld
    <3> QED BY <3>2, <3>3
  <2>7. good /\ first => Assembling(a) = {} BY <1>3, UnderWay DEF good
  <2>8. ASSUME adv'[a].good, i # Pieces[a], ms - start <= KeepFor PROVE \E s \in FragSlot : SoFarHeard(a, s)'
    <3>1. good /\ more BY <1>5, <1>9, <2>8
    <3>2. CASE first
      <4>1. PICK s \in FragSlot : frag'[s].used /\ frag'[s].of = a /\ frag'[s].since = ms /\ frag'[s].pieces = <<piece>>
        BY <2>3, <2>7, <3>1, <3>2
      <4>2. start = ms /\ i = 1 BY <1>5, <3>2
      <4>3. SoFarHeard(a, s)' BY <1>6, <1>9, <4>1, <4>2 DEF SoFarHeard
      <4> QED BY <4>3
    <3>3. CASE ~first
      <4>1. PICK s \in Assembling(a) : SoFarHeard(a, s) BY <2>6, <2>8, <3>1, <3>3
      <4> DEFINE p == Append(frag[s].pieces, piece)
      <4>2. frag' = [Dropped(a) EXCEPT ![s] = [frag[s] EXCEPT !.pieces = p]] BY <2>4, <3>1, <4>1 DEF Grown
      <4>3. s \in FragSlot /\ frag[s] \in Slot0 /\ DOMAIN Dropped(a) = FragSlot BY <1>3, <4>1, UnderWay DEF Assembling, SlotsTrue
      <4>4. /\ Len(p) = adv[a].sent + 1 /\ \A k \in 1 .. adv[a].sent : p[k] = frag[s].pieces[k]
            /\ p[adv[a].sent + 1] = piece
        BY <1>6, <4>1, <4>3 DEF SoFarHeard, Slot0
      <4> HIDE DEF p
      <4>5. frag'[s].used /\ frag'[s].of = a /\ frag'[s].since = start /\ frag'[s].pieces = p
        BY <1>5, <3>3, <4>1, <4>2, <4>3 DEF SoFarHeard, Slot0
      <4>6. Len(p) = i /\ \A k \in 1 .. i : SubSeq(p[k], 1, 3) = <<a, no, k>>
        <5>1. i = adv[a].sent + 1 /\ no = adv[a].no BY <1>5, <3>3
        <5>2. ASSUME NEW k \in 1 .. i PROVE SubSeq(p[k], 1, 3) = <<a, no, k>>
          <6>1. CASE k = i BY <1>6, <4>4, <5>1, <6>1
          <6>2. CASE k # i
            <7>1. k \in 1 .. adv[a].sent BY <1>4, <1>5, <5>1, <6>2
            <7> QED BY <4>1, <4>4, <5>1, <7>1 DEF SoFarHeard
          <6> QED BY <6>1, <6>2
        <5> QED BY <4>4, <5>1, <5>2
      <4>7. SoFarHeard(a, s)' BY <1>9, <4>5, <4>6 DEF SoFarHeard
      <4> QED BY <4>3, <4>7
    <3> QED BY <3>2, <3>3
  <2>9. ASSUME NEW b \in Advertiser, b # a, adv'[b].good, adv'[b].sent # 0, adv'[b].sent # Pieces[b], ms - adv'[b].since <= KeepFor
        PROVE  \E s \in FragSlot : SoFarHeard(b, s)'
    <3>1. adv'[b] = adv[b] /\ ~crowded BY <1>10, <2>9
    <3>2. PICK s \in FragSlot : SoFarHeard(b, s) BY <1>3, <2>9, <3>1 DEF Assembled
    <3>3. frag[s].used /\ frag[s].of = b /\ ~TooOld(frag[s].since) /\ Dropped(a)[s] = frag[s] /\ s \notin Assembling(a)
      <4>1. frag[s].used /\ frag[s].of = b /\ frag[s].since = adv[b].since BY <3>2 DEF SoFarHeard
      <4>2. adv[b].since \in Nat BY <1>3
      <4>3. ~TooOld(frag[s].since) BY <1>3, <2>9, <3>1, <4>1, <4>2, Numbered DEF TooOld
      <4> QED BY <1>3, <2>9, <4>1, <4>3, UnderWay DEF Assembling
    <3>4. frag'[s] = frag[s]
      <4>1. CASE Assembling(a) = {} /\ ~more BY <2>2, <3>3, <4>1
      <4>2. CASE Assembling(a) = {} /\ more
        <5>1. Cardinality(Recent(tail')) <= FragSlots
          <6>1. Recent(tail') \subseteq Advertiser BY DEF Recent
          <6>2. IsFiniteSet(Recent(tail')) BY <6>1, Numbered, FS_Subset
          <6>3. Cardinality(Recent(tail')) \in Nat BY <6>2, FS_CardinalityType
          <6> QED BY <3>1, <6>3, Numbered DEF crowded
        <5>2. FreeSlots(Dropped(a)) # {} BY <1>3, <2>1, <4>2, <5>1, FreeSlotFound
        <5>3. FreeSlots(Dropped(a)) \in SUBSET FragSlot BY DEF FreeSlots
        <5>4. Taken(Dropped(a)) \in FreeSlots(Dropped(a)) BY <5>2, <5>3, LowestIn DEF Taken
        <5>5. s # Taken(Dropped(a)) BY <3>3, <5>4 DEF FreeSlots
        <5> QED BY <2>3, <3>3, <4>2, <5>5
      <4>3. CASE Assembling(a) # {}
        <5>1. PICK r \in Assembling(a) : TRUE BY <4>3
        <5>2. s # r BY <3>3
        <5>3. DOMAIN Dropped(a) = FragSlot BY <1>3, UnderWay
        <5>4. frag'[s] = Dropped(a)[s] BY <1>5, <2>4, <5>2, <5>3 DEF Grown
        <5> QED BY <3>3, <5>4
      <4> QED BY <1>5, <4>1, <4>2, <4>3
    <3>5. SoFarHeard(b, s)' BY <3>1, <3>2, <3>4 DEF SoFarHeard
    <3> QED BY <3>5
  <2>10. Assembled'
    <3> SUFFICES ASSUME NEW b \in Advertiser, adv'[b].good, adv'[b].sent # 0, adv'[b].sent # Pieces[b],
                        ms - adv'[b].since <= KeepFor
                 PROVE  \E s \in FragSlot : SoFarHeard(b, s)'
      BY <1>2 DEF Assembled
    <3>1. CASE b = a BY <1>9, <2>8, <3>1
    <3>2. CASE b # a BY <2>9, <3>2
    <3> QED BY <3>1, <3>2
  <2>11. ASSUME NEW b \in Advertiser, adv'[b] # adv[b], adv'[b].sent = Pieces[b], adv'[b].good, ms - adv'[b].since <= KeepFor
         PROVE  /\ Len(report') = Pieces[b]
                /\ \A k \in 1 .. Pieces[b] : SubSeq(report'[k], 1, 3) = <<b, adv'[b].no, k>>
    <3>1. b = a BY <1>10, <2>11
    <3>2. good /\ i = Pieces[a] /\ ~more /\ ms - start <= KeepFor BY <1>5, <1>9, <2>11, <3>1
    <3>3. CASE first
      <4>1. report' = <<piece>> /\ Pieces[a] = 1 BY <1>5, <2>2, <2>7, <3>2, <3>3
      <4> QED BY <1>5, <1>6, <1>9, <3>1, <3>3, <4>1
    <3>4. CASE ~first
      <4>1. PICK s \in Assembling(a) : SoFarHeard(a, s) BY <2>6, <3>2, <3>4
      <4>2. report' = Append(frag[s].pieces, piece) BY <2>4, <3>2, <4>1
      <4>3. frag[s].pieces \in Seq(Piece) BY <1>3, <4>1 DEF Assembling, SlotsTrue, Slot0
      <4>4. /\ Len(report') = adv[a].sent + 1 /\ \A k \in 1 .. adv[a].sent : report'[k] = frag[s].pieces[k]
            /\ report'[adv[a].sent + 1] = piece
        BY <1>6, <4>1, <4>2, <4>3 DEF SoFarHeard
      <4>5. Pieces[a] = adv[a].sent + 1 /\ no = adv[a].no BY <1>5, <3>2, <3>4
      <4>6. ASSUME NEW k \in 1 .. Pieces[a] PROVE SubSeq(report'[k], 1, 3) = <<a, no, k>>
        <5>1. CASE k = Pieces[a] BY <1>6, <3>2, <4>4, <4>5, <5>1
        <5>2. CASE k # Pieces[a]
          <6>1. k \in 1 .. adv[a].sent BY <1>4, <4>5, <5>2
          <6> QED BY <4>1, <4>4, <4>5, <6>1 DEF SoFarHeard
        <5> QED BY <5>1, <5>2
      <4> QED BY <1>9, <3>1, <4>4, <4>5, <4>6
    <3> QED BY <3>3, <3>4
  <2>12. ReportedWhole BY <2>5, <2>11 DEF ReportedWhole
  <2> QED BY <1>11, <2>2, <2>10, <2>12 DEF FragInv
<1> QED BY <1>12, <1>13

LEMMA FragmentsStep == FragInv /\ [FragNext]_fragVars => FragInv' /\ [ReportedWhole]_fragVars
<1> SUFFICES ASSUME FragInv, [FragNext]_fragVars PROVE FragInv' /\ [ReportedWhole]_fragVars OBVIOUS
<1>1. CASE \E a \in Advertiser : SendPiece(a) BY <1>1, SendFragments
<1>2. CASE ScanEnded BY <1>2, ScanEndFragments
<1>3. CASE FragTick BY <1>3, TickFragments
<1>4. CASE UNCHANGED fragVars
  <2>1. UNCHANGED <<frag, report, adv, tail, missed, ms>> BY <1>4 DEF fragVars
  <2>2. AdvsTyped' /\ Assembled' BY <2>1 DEF FragInv, AdvsTyped, Assembled, SoFarHeard
  <2>3. SlotsTrue' BY <2>1 DEF FragInv, SlotsTrue, Filled
  <2> QED BY <1>4, <2>2, <2>3 DEF FragInv
<1> QED BY <1>1, <1>2, <1>3, <1>4 DEF FragNext

\* An advertisement every piece of which is heard, and within a second, is reported
\* whole and alone; and whatever is reported is of one advertiser and of the last
\* second (rx_gap_event): for every number of advertisers, pieces and slots.
THEOREM AdvertisementsWhole == FragSpec => WholeReported
<1>1. FragInv /\ [FragNext]_fragVars => [ReportedWhole]_fragVars BY FragmentsStep
<1>2. ReportedWhole =>
        /\ NotOnOldTail
        /\ \A a \in Advertiser :
             /\ adv'[a] # adv[a] /\ adv'[a].sent = Pieces[a] /\ adv'[a].good /\ ms - adv'[a].since <= KeepFor
             => /\ Len(report') = Pieces[a]
                /\ \A i \in 1 .. Pieces[a] : SubSeq(report'[i], 1, 3) = <<a, adv'[a].no, i>>
  BY DEF ReportedWhole
<1> QED BY <1>1, <1>2, FragmentsInitially, FragmentsStep, PTL DEF FragSpec, WholeReported

\* The types of the pieces' table.
THEOREM FragTyped == FragSpec => []FragTypeOK
<1>1. FragInv => FragTypeOK
  <2> SUFFICES ASSUME FragInv PROVE FragTypeOK OBVIOUS
  <2>1. ASSUME NEW s \in FragSlot, frag[s].used PROVE frag[s].of \in Advertiser /\ frag[s].pieces # <<>> /\ frag[s].since <= ms
    BY <2>1 DEF FragInv, SlotsTrue, Filled
  <2>2. \A a \in Advertiser : adv[a].sent \in 0 .. Pieces[a] /\ adv[a].since \in 0 .. ms
    <3> SUFFICES ASSUME NEW a \in Advertiser PROVE adv[a].sent \in 0 .. Pieces[a] /\ adv[a].since \in 0 .. ms OBVIOUS
    <3>1. adv[a].sent \in Nat /\ adv[a].since \in Nat /\ adv[a].sent <= Pieces[a] /\ adv[a].since <= ms BY DEF FragInv, AdvsTyped
    <3>2. Pieces[a] \in Nat /\ ms \in Nat BY Numbered DEF FragInv, AdvsTyped
    <3> QED BY <3>1, <3>2
  <2>3. missed \in 0 .. MaxMissed /\ ms \in 0 .. LastMs BY Numbered DEF FragInv, AdvsTyped
  <2>4. \A s \in FragSlot : ~frag[s].used => frag[s] = Vacant BY DEF FragInv, SlotsTrue
  <2>5. \A r, s \in FragSlot : frag[r].used /\ frag[s].used /\ frag[r].of = frag[s].of => r = s BY DEF FragInv, SlotsTrue
  <2> QED BY <2>1, <2>2, <2>3, <2>4, <2>5 DEF FragTypeOK
<1> QED BY <1>1, FragmentsInitially, FragmentsStep, PTL DEF FragSpec

-----------------------------------------------------------------------------
(***************************************************************************)
(* TrafficWatch: that the alerts are true and go by the clock (AlertsTrue), *)
(* and that a full table keeps the most urgent (MostUrgentKept): for any    *)
(* numbers of drones and aircraft, any reports of them, and all limits.     *)
(*                                                                         *)
(* The argument: the cases of an evaluation are of different names, so that *)
(* what is true of the table after some of them (AppliedOK) stays true with *)
(* one more. A name is lost, or left out when it is raised, of a full table *)
(* only; and as no two alerts have one name and a table gets no smaller, a  *)
(* full one that lacks a name of before has a new one. Between evaluations  *)
(* an alert that is not out was seen to stand at the last of them, and one  *)
(* that is out was so at the one before, which is a unit of time ago at     *)
(* most (TimesOK). The order of the alerts is total, and an evaluation of   *)
(* the same again changes no alert of the table (EvaluatedSettles), so then *)
(* what ranks last only gets earlier (RankedOK).                            *)
(***************************************************************************)
\* Alerts, tables of them with one of a name, and what a visit may find.
Alert == [drone : 0 .. Drones, plane : Plane, kind : Kind, ground : BOOLEAN, away : Step, below : BOOLEAN,
          held : BOOLEAN, outAt : Int \union {Unknown}]

Table(tab) ==
  /\ tab \subseteq Alert /\ IsFiniteSet(tab) /\ Cardinality(tab) <= MaxAlerts
  /\ \A al, other \in tab : Key(al) = Key(other) => al = other

Case == [alert : Alert, raised : BOOLEAN, hold : BOOLEAN]

CasesOK(cases) ==
  /\ DOMAIN cases \subseteq Candidate
  /\ \A i \in DOMAIN cases : cases[i] \in Case /\ ~cases[i].alert.held /\ cases[i].alert.outAt = Unknown
  /\ \A i, j \in DOMAIN cases : Key(cases[i].alert) = Key(cases[j].alert) => i = j

LastCandidate == (Drones + 1) * Planes

\* The constants are numbers.
LEMMA WatchValues ==
  /\ Drones \in Nat /\ Planes \in Nat /\ MaxAlerts \in Nat /\ MaxAlerts > 0 /\ LastCandidate \in Nat
  /\ FreshAge \in Nat /\ PresentAge \in Nat /\ StaleAge \in Nat /\ ClearTime \in Nat /\ LostAge \in Nat
  /\ Horizon \in Nat /\ MaxSets \in Nat /\ Unknown \notin Int
<1>1. Drones \in Nat /\ Planes \in Nat /\ MaxAlerts \in Nat /\ MaxAlerts > 0 /\ Unknown \notin Int
  BY WatchAssumption DEF WatchLimits
<1>2. \A m, n \in Nat : (m + 1) * n \in Nat
  OBVIOUS
<1>3. LastCandidate \in Nat
  BY <1>1, <1>2 DEF LastCandidate
<1>4. FreshAge \in Nat /\ PresentAge \in Nat /\ StaleAge \in Nat /\ ClearTime \in Nat /\ LostAge \in Nat
      /\ Horizon \in Nat /\ MaxSets \in Nat
  BY WatchAssumption DEF WatchLimits
<1> QED
  BY <1>1, <1>3, <1>4

\* Names are compared part by part.
LEMMA SameKey ==
  ASSUME NEW p \in Alert, NEW q \in Alert
  PROVE  Key(p) = Key(q) <=> /\ p.plane = q.plane /\ (p.kind = "low" <=> q.kind = "low")
                             /\ p.kind = "low" \/ p.drone = q.drone
  BY DEF Alert, Key, Kind

\* The order of the alerts, written out.
Urgency(al) == IF Level(al) = "warning" THEN 0 ELSE 1

\* Before compares the five in their order.
LEMMA BeforeIs ==
  ASSUME NEW p \in Alert, NEW q \in Alert
  PROVE  Before(p, q) <=>
           \/ Urgency(p) < Urgency(q)
           \/ /\ Urgency(p) = Urgency(q)
              /\ \/ Place[p.kind] < Place[q.kind]
                 \/ /\ Place[p.kind] = Place[q.kind]
                    /\ \/ p.away < q.away
                       \/ /\ p.away = q.away
                          /\ \/ p.drone < q.drone
                             \/ p.drone = q.drone /\ p.plane < q.plane
<1> DEFINE R == Rank(p)
           S == Rank(q)
           At(i) == R[i] < S[i] /\ \A j \in 1 .. i - 1 : R[j] = S[j]
<1>1. /\ R[1] = Urgency(p) /\ R[2] = Place[p.kind] /\ R[3] = p.away /\ R[4] = p.drone /\ R[5] = p.plane
      /\ S[1] = Urgency(q) /\ S[2] = Place[q.kind] /\ S[3] = q.away /\ S[4] = q.drone /\ S[5] = q.plane
  BY DEF Rank, Urgency
<1>2. Before(p, q) <=> \E i \in 1 .. 5 : At(i)
  BY DEF Before
<1>3. 1 .. 5 = {1, 2, 3, 4, 5} /\ 1 .. 0 = {} /\ 1 .. 1 = {1} /\ 1 .. 2 = {1, 2} /\ 1 .. 3 = {1, 2, 3} /\ 1 .. 4 = {1, 2, 3, 4}
  OBVIOUS
<1>4. 1 - 1 = 0 /\ 2 - 1 = 1 /\ 3 - 1 = 2 /\ 4 - 1 = 3 /\ 5 - 1 = 4
  OBVIOUS
<1>5. /\ At(1) <=> R[1] < S[1]
      /\ At(2) <=> R[2] < S[2] /\ R[1] = S[1]
      /\ At(3) <=> R[3] < S[3] /\ R[1] = S[1] /\ R[2] = S[2]
      /\ At(4) <=> R[4] < S[4] /\ R[1] = S[1] /\ R[2] = S[2] /\ R[3] = S[3]
      /\ At(5) <=> R[5] < S[5] /\ R[1] = S[1] /\ R[2] = S[2] /\ R[3] = S[3] /\ R[4] = S[4]
  BY <1>3, <1>4
<1> HIDE DEF At
<1>6. Before(p, q) <=> At(1) \/ At(2) \/ At(3) \/ At(4) \/ At(5)
  BY <1>2, <1>3
<1> HIDE DEF R, S
<1> QED
  BY <1>1, <1>5, <1>6

\* What is compared are numbers; alerts that agree in all have one name.
LEMMA RanksAre ==
  ASSUME NEW p \in Alert
  PROVE  Urgency(p) \in {0, 1} /\ Place[p.kind] \in 1 .. 3 /\ p.away \in Int /\ p.drone \in Int /\ p.plane \in Int
  BY WatchValues DEF Alert, Urgency, Place, Kind, Step, Plane

\* Alerts of one kind, drone and aircraft have one name.
LEMMA RanksDiffer ==
  ASSUME NEW p \in Alert, NEW q \in Alert, Place[p.kind] = Place[q.kind], p.drone = q.drone, p.plane = q.plane
  PROVE  Key(p) = Key(q)
<1>1. p.kind = q.kind
  BY DEF Alert, Place, Kind
<1> QED
  BY <1>1 DEF Key

\* So alerts are in a strict order, and total on names.
LEMMA BeforeOrder ==
  ASSUME NEW p \in Alert, NEW q \in Alert
  PROVE  /\ ~Before(p, p)
         /\ \A r \in Alert : Before(p, q) /\ Before(q, r) => Before(p, r)
         /\ Key(p) # Key(q) => Before(p, q) \/ Before(q, p)
<1>1. ~Before(p, p)
  BY BeforeIs, RanksAre
<1>2. ASSUME NEW r \in Alert, Before(p, q), Before(q, r) PROVE Before(p, r)
  <2>1. /\ Urgency(p) \in Int /\ Place[p.kind] \in Int /\ p.away \in Int /\ p.drone \in Int /\ p.plane \in Int
        /\ Urgency(q) \in Int /\ Place[q.kind] \in Int /\ q.away \in Int /\ q.drone \in Int /\ q.plane \in Int
        /\ Urgency(r) \in Int /\ Place[r.kind] \in Int /\ r.away \in Int /\ r.drone \in Int /\ r.plane \in Int
    BY RanksAre
  <2> QED BY <1>2, <2>1, BeforeIs
<1>3. ASSUME Key(p) # Key(q) PROVE Before(p, q) \/ Before(q, p)
  <2>1. /\ Urgency(p) \in Int /\ Place[p.kind] \in Int /\ p.away \in Int /\ p.drone \in Int /\ p.plane \in Int
        /\ Urgency(q) \in Int /\ Place[q.kind] \in Int /\ q.away \in Int /\ q.drone \in Int /\ q.plane \in Int
    BY RanksAre
  <2>2. ~(Place[p.kind] = Place[q.kind] /\ p.drone = q.drone /\ p.plane = q.plane)
    BY <1>3, RanksDiffer
  <2> QED BY <2>1, <2>2, BeforeIs
<1> QED
  BY <1>1, <1>2, <1>3

\* Of some numbers one is the least.
LEMMA LeastCount ==
  ASSUME NEW S \in SUBSET Nat, S # {}
  PROVE  \E n \in S : \A m \in S : n <= m
  BY LeastOf

\* A part of a table is a table.
LEMMA TablePart ==
  ASSUME NEW tab, Table(tab), NEW some \in SUBSET tab
  PROVE  Table(some) /\ Cardinality(some) \in Nat /\ Cardinality(some) <= Cardinality(tab)
<1>1. IsFiniteSet(some) /\ Cardinality(some) <= Cardinality(tab)
  BY FS_Subset DEF Table
<1>2. Cardinality(some) \in Nat /\ Cardinality(tab) \in Nat
  BY <1>1, FS_CardinalityType DEF Table
<1> QED
  BY <1>1, <1>2, WatchValues DEF Table

\* An alert of another name may be put in where there is room.
LEMMA TableAdd ==
  ASSUME NEW tab, Table(tab), NEW al \in Alert, Cardinality(tab) < MaxAlerts,
         \A other \in tab : Key(other) # Key(al)
  PROVE  Table(tab \union {al}) /\ Cardinality(tab \union {al}) = Cardinality(tab) + 1 /\ Cardinality(tab) \in Nat
<1>1. al \notin tab
  OBVIOUS
<1>2. /\ IsFiniteSet(tab \union {al}) /\ Cardinality(tab \union {al}) = Cardinality(tab) + 1
      /\ Cardinality(tab) \in Nat
  BY <1>1, FS_AddElement, FS_CardinalityType DEF Table
<1> QED
  BY <1>2, WatchValues DEF Table

\* One may be taken out.
LEMMA TableRemove ==
  ASSUME NEW tab, Table(tab), NEW al \in tab
  PROVE  Table(tab \ {al}) /\ Cardinality(tab \ {al}) = Cardinality(tab) - 1 /\ Cardinality(tab) \in Nat
<1>1. Cardinality(tab \ {al}) = Cardinality(tab) - 1 /\ Cardinality(tab) \in Nat
  BY FS_RemoveElement, FS_CardinalityType DEF Table
<1> QED
  BY <1>1, TablePart

\* Of the alerts of a table one ranks last.
LEMMA LastIs ==
  ASSUME NEW tab, Table(tab), tab # {}
  PROVE  LastRanked(tab) \in tab /\ \A other \in tab : other = LastRanked(tab) \/ Before(other, LastRanked(tab))
<1> DEFINE HasLast(t) == \E al \in t : \A other \in t : other = al \/ Before(other, al)
           Without == {t \in SUBSET tab : t # {} /\ ~HasLast(t)}
           Sizes == {n \in Nat : \E t \in Without : n = Cardinality(t)}
<1>1. SUFFICES ASSUME ~HasLast(tab) PROVE FALSE
  BY DEF LastRanked
<1>2. tab \in Without
  BY <1>1
<1>3. \A t \in Without : Table(t) /\ Cardinality(t) \in Nat
  BY TablePart
<1> HIDE DEF Without
<1>4. Sizes # {} /\ Sizes \subseteq Nat
  BY <1>2, <1>3
<1>5. PICK n \in Sizes : \A m \in Sizes : n <= m
  BY <1>4, LeastCount
<1>6. PICK t \in Without : n = Cardinality(t)
  BY <1>5
<1> USE DEF Without
<1>7. PICK al \in t : TRUE
  BY <1>6
<1> DEFINE rest == t \ {al}
<1>8. Table(rest) /\ Cardinality(rest) = n - 1 /\ n \in Nat /\ rest \in SUBSET tab
  BY <1>3, <1>6, <1>7, TableRemove
<1>9. rest \notin Without
  <2>1. SUFFICES ASSUME rest \in Without PROVE FALSE
    OBVIOUS
  <2>2. n - 1 \in Sizes
    BY <1>3, <1>8, <2>1
  <2>3. n <= n - 1
    BY <1>5, <2>2
  <2> QED BY <1>8, <2>3
<1>10. rest # {}
  BY <1>6, <1>7
<1>11. PICK bottom \in rest : \A other \in rest : other = bottom \/ Before(other, bottom)
  BY <1>8, <1>9, <1>10
<1>12. t \subseteq Alert /\ Key(bottom) # Key(al) /\ bottom \in t
  BY <1>3, <1>6, <1>7, <1>11 DEF Table
<1>13. Before(bottom, al) \/ Before(al, bottom)
  BY <1>7, <1>12, BeforeOrder
<1>14. CASE Before(al, bottom)
  <2>1. \A other \in t : other = bottom \/ Before(other, bottom)
    BY <1>11, <1>14
  <2> QED BY <1>6, <1>12, <2>1
<1>15. CASE Before(bottom, al)
  <2>1. \A other \in t : other = al \/ Before(other, al)
    BY <1>7, <1>11, <1>12, <1>15, BeforeOrder
  <2> QED BY <1>6, <1>7, <2>1
<1> QED
  BY <1>13, <1>14, <1>15

\* Alerts of which each has its name in a table are no more than those of the table.
LEMMA NoMore ==
  ASSUME NEW some, NEW tab, Table(tab), NEW other, other \subseteq Alert,
         \A al, also \in other : Key(al) = Key(also) => al = also,
         some \subseteq tab, \A al \in other : \E mine \in some : Key(mine) = Key(al)
  PROVE  IsFiniteSet(other) /\ Cardinality(other) <= Cardinality(some)
<1> DEFINE f == [al \in other |-> CHOOSE mine \in some : Key(mine) = Key(al)]
<1>1. \A al \in other : f[al] \in some /\ Key(f[al]) = Key(al)
  OBVIOUS
<1>2. f \in [other -> some]
  BY <1>1
<1> HIDE DEF f
<1>3. \A al, also \in other : f[al] = f[also] => al = also
  BY <1>1
<1>4. f \in Injection(other, some)
  BY <1>2, <1>3 DEF Injection, IsInjective
<1>5. IsFiniteSet(some)
  BY FS_Subset DEF Table
<1> QED
  BY <1>4, <1>5, FS_Injection

\* A table that has no fewer than another and lacks a name of it, or has more, has a name of its own.
LEMMA NameOfItsOwn ==
  ASSUME NEW tab, Table(tab), NEW other, Table(other),
         \/ Cardinality(tab) < Cardinality(other)
         \/ Cardinality(tab) <= Cardinality(other) /\ ~(Keys(tab) \subseteq Keys(other))
  PROVE  \E al \in other : Key(al) \notin Keys(tab)
<1>1. SUFFICES ASSUME \A al \in other : \E mine \in tab : Key(mine) = Key(al) PROVE FALSE
  BY DEF Keys
<1>2. /\ other \subseteq Alert /\ \A al, also \in other : Key(al) = Key(also) => al = also
      /\ Cardinality(tab) \in Nat /\ Cardinality(other) \in Nat
  BY FS_CardinalityType DEF Table
<1>3. CASE Cardinality(tab) < Cardinality(other)
  <2>1. Cardinality(other) <= Cardinality(tab)
    BY <1>1, <1>2, NoMore
  <2> QED BY <1>2, <1>3, <2>1
<1>4. CASE Cardinality(tab) <= Cardinality(other) /\ ~(Keys(tab) \subseteq Keys(other))
  <2>1. PICK gone \in tab : Key(gone) \notin Keys(other)
    BY <1>4 DEF Keys
  <2>2. \A al \in other : \E mine \in tab \ {gone} : Key(mine) = Key(al)
    BY <1>1, <2>1 DEF Keys
  <2>3. Cardinality(other) <= Cardinality(tab \ {gone})
    BY <1>2, <2>2, NoMore
  <2>4. Cardinality(tab \ {gone}) = Cardinality(tab) - 1
    BY TableRemove
  <2> QED BY <1>2, <1>4, <2>3, <2>4
<1> QED
  BY <1>3, <1>4

-----------------------------------------------------------------------------
\* An alert that is refreshed keeps its name and has the numbers of the case.
LEMMA RefreshedIs ==
  ASSUME NEW old \in Alert, NEW c \in Case, Key(old) = Key(c.alert), clock \in Int
  PROVE  LET al == Refreshed(old, c)
         IN /\ al \in Alert /\ Key(al) = Key(c.alert)
            /\ al.away = c.alert.away /\ al.below = c.alert.below /\ al.ground = c.alert.ground
            /\ al.drone = c.alert.drone /\ al.plane = c.alert.plane
            /\ al.kind = KindKept(old, c) /\ al.held = ~c.raised /\ al.outAt = OutSince(old, c)
<1> DEFINE al == Refreshed(old, c)
<1>1. c.alert \in Alert /\ c.raised \in BOOLEAN /\ c.hold \in BOOLEAN
  BY DEF Case
<1>2. old.kind \in Kind /\ c.alert.kind \in Kind /\ (old.kind = "low" <=> c.alert.kind = "low")
  BY <1>1, SameKey DEF Alert
<1>3. KindKept(old, c) \in Kind /\ (KindKept(old, c) = "low" <=> c.alert.kind = "low")
  BY <1>2 DEF KindKept, Kind
<1>4. OutSince(old, c) \in Int \union {Unknown}
  BY DEF OutSince, Alert
<1>5. al \in Alert
  BY <1>1, <1>3, <1>4 DEF Refreshed, Alert
<1>6. /\ al.away = c.alert.away /\ al.below = c.alert.below /\ al.ground = c.alert.ground
      /\ al.drone = c.alert.drone /\ al.plane = c.alert.plane
      /\ al.kind = KindKept(old, c) /\ al.held = ~c.raised /\ al.outAt = OutSince(old, c)
  BY <1>1 DEF Refreshed, Alert
<1>7. Key(al) = Key(c.alert)
  BY <1>1, <1>3, <1>5, <1>6, SameKey
<1> QED
  BY <1>5, <1>6, <1>7

\* What a case makes of a table: it refreshes its alert, or finds nothing to do,
\* or raises one in a free slot, or in that of the alert that ranks last.
ApplyResult(tab, c, new) ==
  \/ \E old \in tab : Key(old) = Key(c.alert) /\ new = (tab \ {old}) \union {Refreshed(old, c)}
  \/ /\ \A old \in tab : Key(old) # Key(c.alert)
     /\ \/ ~c.raised /\ new = tab
        \/ c.raised /\ Cardinality(tab) < MaxAlerts /\ new = tab \union {c.alert}
        \/ /\ c.raised /\ Cardinality(tab) = MaxAlerts /\ tab # {}
           /\ \/ Before(c.alert, LastRanked(tab)) /\ new = (tab \ {LastRanked(tab)}) \union {c.alert}
              \/ ~Before(c.alert, LastRanked(tab)) /\ new = tab

\* These are all the results there are.
LEMMA ApplyIs ==
  ASSUME NEW tab, Table(tab), NEW c \in Case
  PROVE  ApplyResult(tab, c, Apply(tab, c))
<1> DEFINE mine == {al \in tab : Key(al) = Key(c.alert)}
           room == Slot(tab, c.alert)
<1>1. Cardinality(tab) \in Nat /\ Cardinality(tab) <= MaxAlerts
  BY FS_CardinalityType DEF Table
<1>2. ASSUME NEW old \in mine
      PROVE  Apply(tab, c) = (tab \ {old}) \union {Refreshed(old, c)}
  <2>1. mine = {old}
    BY DEF Table
  <2> HIDE DEF mine
  <2>2. mine # {} /\ {Refreshed(al, c) : al \in mine} = {Refreshed(old, c)}
    BY <2>1
  <2>3. Apply(tab, c) = {Refreshed(al, c) : al \in mine} \union (tab \ mine)
    BY <2>2 DEF Apply, mine
  <2> QED BY <2>1, <2>2, <2>3
<1>3. CASE mine = {} /\ ~c.raised
  <2>1. Apply(tab, c) = tab
    BY <1>3 DEF Apply
  <2> QED BY <1>3, <2>1 DEF ApplyResult
<1>4. CASE mine = {} /\ c.raised /\ Cardinality(tab) < MaxAlerts
  <2>1. room = tab
    BY <1>4 DEF Slot
  <2>2. Apply(tab, c) = tab \union {c.alert}
    BY <1>4, <2>1 DEF Apply
  <2> QED BY <1>4, <2>2 DEF ApplyResult
<1>5. CASE mine = {} /\ c.raised /\ ~(Cardinality(tab) < MaxAlerts)
  <2>1. Cardinality(tab) = MaxAlerts /\ tab # {}
    BY <1>1, <1>5, WatchValues, FS_EmptySet
  <2>2. CASE Before(c.alert, LastRanked(tab))
    <3>1. room = tab \ {LastRanked(tab)} /\ LastRanked(tab) \in tab
      BY <1>5, <2>1, <2>2, LastIs DEF Slot
    <3>2. Cardinality(room) < MaxAlerts
      BY <1>1, <2>1, <3>1, TableRemove
    <3>3. Apply(tab, c) = (tab \ {LastRanked(tab)}) \union {c.alert}
      BY <1>5, <3>1, <3>2 DEF Apply
    <3> QED BY <1>5, <2>1, <2>2, <3>3 DEF ApplyResult
  <2>3. CASE ~Before(c.alert, LastRanked(tab))
    <3>1. room = tab
      BY <1>5, <2>3 DEF Slot
    <3>2. Apply(tab, c) = tab
      BY <1>5, <3>1 DEF Apply
    <3> QED BY <1>5, <2>1, <2>3, <3>2 DEF ApplyResult
  <2> QED BY <2>2, <2>3
<1> HIDE DEF room
<1>6. CASE mine # {}
  <2>1. PICK old \in mine : TRUE
    BY <1>6
  <2>2. Apply(tab, c) = (tab \ {old}) \union {Refreshed(old, c)}
    BY <1>2
  <2> QED BY <2>2 DEF ApplyResult
<1> QED
  BY <1>3, <1>4, <1>5, <1>6

\* A table stays one, and no smaller.
LEMMA ApplyKeepsTable ==
  ASSUME NEW tab, Table(tab), NEW c \in Case, NEW new, ApplyResult(tab, c, new), clock \in Int
  PROVE  Table(new) /\ Cardinality(tab) <= Cardinality(new)
<1>1. c.alert \in Alert
  BY DEF Case
<1>2. ASSUME NEW old \in tab, Key(old) = Key(c.alert), new = (tab \ {old}) \union {Refreshed(old, c)}
      PROVE  Table(new) /\ Cardinality(tab) <= Cardinality(new)
  <2>1. Refreshed(old, c) \in Alert /\ Key(Refreshed(old, c)) = Key(old)
    BY <1>2, RefreshedIs DEF Table
  <2>2. Table(tab \ {old}) /\ Cardinality(tab \ {old}) = Cardinality(tab) - 1 /\ Cardinality(tab) \in Nat
    BY TableRemove
  <2>3. \A other \in tab \ {old} : Key(other) # Key(Refreshed(old, c))
    BY <2>1 DEF Table
  <2>4. Cardinality(tab \ {old}) < MaxAlerts
    BY <2>2, WatchValues DEF Table
  <2>5. Table(new) /\ Cardinality(new) = Cardinality(tab \ {old}) + 1
    BY <1>2, <2>1, <2>2, <2>3, <2>4, TableAdd
  <2> QED BY <2>2, <2>5
<1>3. ASSUME \A old \in tab : Key(old) # Key(c.alert), Cardinality(tab) < MaxAlerts, new = tab \union {c.alert}
      PROVE  Table(new) /\ Cardinality(tab) <= Cardinality(new)
  <2>1. Table(new) /\ Cardinality(new) = Cardinality(tab) + 1 /\ Cardinality(tab) \in Nat
    BY <1>1, <1>3, TableAdd
  <2> QED BY <2>1
<1>4. ASSUME \A old \in tab : Key(old) # Key(c.alert), Cardinality(tab) = MaxAlerts, tab # {},
             new = (tab \ {LastRanked(tab)}) \union {c.alert}
      PROVE  Table(new) /\ Cardinality(tab) <= Cardinality(new)
  <2> DEFINE rest == tab \ {LastRanked(tab)}
  <2>1. Table(rest) /\ Cardinality(rest) = Cardinality(tab) - 1 /\ Cardinality(tab) \in Nat
    BY <1>4, LastIs, TableRemove
  <2>2. Cardinality(rest) < MaxAlerts
    BY <1>4, <2>1
  <2>3. \A other \in rest : Key(other) # Key(c.alert)
    BY <1>4
  <2>4. new = rest \union {c.alert}
    BY <1>4
  <2> HIDE DEF rest
  <2>5. Table(new) /\ Cardinality(new) = Cardinality(rest) + 1
    BY <1>1, <2>1, <2>2, <2>3, <2>4, TableAdd
  <2> QED BY <2>1, <2>5
<1>5. ASSUME new = tab PROVE Table(new) /\ Cardinality(tab) <= Cardinality(new)
  <2>1. Cardinality(tab) \in Nat
    BY FS_CardinalityType DEF Table
  <2> QED BY <1>5, <2>1
<1> QED
  BY <1>2, <1>3, <1>4, <1>5 DEF ApplyResult

-----------------------------------------------------------------------------
\* What an alert says follows a case: the numbers are those of the case, and the
\* kind is what it raises or the near one that it holds; it is held when it is
\* not raised, and it is out since it first was.
Follows(tab, c, al) ==
  /\ al.drone = c.alert.drone /\ al.plane = c.alert.plane
  /\ c.raised => al.kind = c.alert.kind \/ (al.kind = "near" /\ c.hold /\ c.alert.kind # "low")
  /\ al.away = c.alert.away /\ al.below = c.alert.below /\ al.ground = c.alert.ground /\ al.held = ~c.raised
  /\ c.raised \/ c.hold => al.outAt = Unknown
  /\ ~c.raised /\ ~c.hold => \E old \in tab : Key(old) = Key(al) /\ al.outAt = OutSince(old, c)

\* The alert a case is about.
About(c, al) == Key(al) = Key(c.alert)

\* What holds of the table now after the first n cases from the table tab: an
\* alert follows its case or is as it was; one that is new was raised; and no
\* name is lost, and none that is raised is left out, but of a full table.
AppliedOK(tab, cases, n, now) ==
  /\ Table(now) /\ Cardinality(tab) <= Cardinality(now)
  /\ \A al \in now : al \in tab \/ \E i \in DOMAIN cases : i <= n /\ About(cases[i], al)
  /\ \A al \in now, i \in DOMAIN cases : i <= n /\ About(cases[i], al) => Follows(tab, cases[i], al)
  /\ \A al \in now : Key(al) \notin Keys(tab) => \E i \in DOMAIN cases : cases[i].raised /\ About(cases[i], al)
  /\ \/ Cardinality(now) = MaxAlerts
     \/ /\ \A old \in tab : \E al \in now : Key(al) = Key(old)
        /\ \A i \in DOMAIN cases : i <= n /\ cases[i].raised => \E al \in now : About(cases[i], al)

\* One case more.
LEMMA OneMoreCase ==
  ASSUME NEW tab, Table(tab), NEW cases, CasesOK(cases), NEW n \in DOMAIN cases, NEW now,
         AppliedOK(tab, cases, n - 1, now), NEW new, ApplyResult(now, cases[n], new), clock \in Int
  PROVE  AppliedOK(tab, cases, n, new)
<1> DEFINE c == cases[n]
<1>1. c \in Case /\ c.alert \in Alert /\ ~c.alert.held /\ c.alert.outAt = Unknown /\ c.raised \in BOOLEAN
  BY DEF CasesOK, Case
<1>2. n \in Nat /\ \A i \in DOMAIN cases : i \in Nat /\ (i <= n - 1 <=> i <= n /\ i # n)
  BY DEF CasesOK, Candidate
<1>3. Table(now) /\ Table(new) /\ Cardinality(now) <= Cardinality(new)
  BY <1>1, ApplyKeepsTable DEF AppliedOK
<1>4. \A t : Table(t) => Cardinality(t) \in Nat /\ Cardinality(t) <= MaxAlerts
  BY FS_CardinalityType DEF Table
<1>5. /\ Cardinality(tab) <= Cardinality(new)
      /\ Cardinality(now) = MaxAlerts => Cardinality(new) = MaxAlerts
  BY <1>3, <1>4, WatchValues DEF AppliedOK
<1>6. \A al \in now : ~About(c, al) => \A i \in DOMAIN cases : About(cases[i], al) => i # n
  OBVIOUS
<1>7. ASSUME NEW al \in now, About(c, al)
      PROVE  /\ al \in tab
             /\ Follows(tab, c, Refreshed(al, c)) /\ Key(Refreshed(al, c)) = Key(al)
  <2>1. al \in tab
    <3>1. \A i \in DOMAIN cases : About(cases[i], al) => i = n
      BY <1>7 DEF About, CasesOK
    <3> QED BY <1>2, <3>1 DEF AppliedOK
  <2>2. al \in Alert /\ Key(al) = Key(c.alert)
    BY <1>7, <2>1 DEF Table, About
  <2> DEFINE next == Refreshed(al, c)
  <2>3. /\ next.away = c.alert.away /\ next.below = c.alert.below /\ next.ground = c.alert.ground
        /\ next.held = ~c.raised /\ next.outAt = OutSince(al, c) /\ Key(next) = Key(c.alert)
        /\ next.drone = c.alert.drone /\ next.plane = c.alert.plane /\ next.kind = KindKept(al, c) /\ next \in Alert
    BY <1>1, <2>2, RefreshedIs
  <2> HIDE DEF next
  <2>4. c.raised \/ c.hold => next.outAt = Unknown
    BY <2>3 DEF OutSince
  <2>6. next.kind = "low" <=> c.alert.kind = "low"
    BY <1>1, <2>3, SameKey
  <2>7. c.raised => next.kind = c.alert.kind \/ (next.kind = "near" /\ c.hold /\ c.alert.kind # "low")
    BY <2>3, <2>6 DEF KindKept
  <2>5. Follows(tab, c, next)
    BY <2>1, <2>2, <2>3, <2>4, <2>7 DEF Follows
  <2> QED BY <2>1, <2>2, <2>3, <2>5 DEF next
<1>8. ASSUME c.raised, \A old \in now : Key(old) # Key(c.alert) PROVE Follows(tab, c, c.alert)
  <2>1. c.alert.held \in BOOLEAN
    BY <1>1 DEF Alert
  <2>2. c.alert.held = ~c.raised
    BY <1>1, <1>8, <2>1
  <2> QED BY <1>1, <1>8, <2>2 DEF Follows
\* Every alert of the new table was there, or is the one of the case.
<1>9. \A al \in new : \/ al \in now /\ ~About(c, al)
                      \/ /\ About(c, al) /\ Follows(tab, c, al)
                         /\ c.raised \/ Key(al) \in Keys(tab)
                      \/ al \in now /\ ~c.raised /\ ~\E old \in now : About(c, old)
  <2>1. CASE \E old \in now : Key(old) = Key(c.alert) /\ new = (now \ {old}) \union {Refreshed(old, c)}
    <3>1. PICK old \in now : Key(old) = Key(c.alert) /\ new = (now \ {old}) \union {Refreshed(old, c)}
      BY <2>1
    <3>2. \A al \in now : al # old => ~About(c, al)
      BY <1>3, <3>1 DEF Table, About
    <3>3. Follows(tab, c, Refreshed(old, c)) /\ Key(Refreshed(old, c)) = Key(old) /\ old \in tab
      BY <1>7, <3>1 DEF About
    <3>4. Key(Refreshed(old, c)) \in Keys(tab) /\ About(c, Refreshed(old, c))
      BY <3>1, <3>3 DEF Keys, About
    <3> QED BY <3>1, <3>2, <3>3, <3>4
  <2>2. CASE \A old \in now : Key(old) # Key(c.alert)
    <3>1. \A al \in now : ~About(c, al)
      BY <2>2 DEF About
    <3>2. About(c, c.alert)
      BY DEF About
    <3>3. \A al \in new : al \in now \/ (al = c.alert /\ c.raised)
      BY <2>2 DEF ApplyResult
    <3> QED BY <1>8, <2>2, <3>1, <3>2, <3>3
  <2> QED BY <2>1, <2>2 DEF ApplyResult
\* No name goes but of a full table.
<1>10. \/ Cardinality(new) = MaxAlerts
       \/ /\ \A old \in now : \E al \in new : Key(al) = Key(old)
          /\ c.raised => \E al \in new : About(c, al)
  <2>1. CASE \E old \in now : Key(old) = Key(c.alert) /\ new = (now \ {old}) \union {Refreshed(old, c)}
    <3>1. PICK old \in now : Key(old) = Key(c.alert) /\ new = (now \ {old}) \union {Refreshed(old, c)}
      BY <2>1
    <3>2. Key(Refreshed(old, c)) = Key(old) /\ Refreshed(old, c) \in new
      BY <1>7, <3>1 DEF About
    <3>3. \A al \in now : \E next \in new : Key(next) = Key(al)
      BY <3>1, <3>2
    <3>4. About(c, Refreshed(old, c))
      BY <3>1, <3>2 DEF About
    <3> QED BY <3>2, <3>3, <3>4
  <2>2. CASE \A old \in now : Key(old) # Key(c.alert)
    <3>1. CASE Cardinality(now) = MaxAlerts
      BY <1>5, <3>1
    <3>2. CASE ~c.raised /\ new = now
      BY <3>2
    <3>3. CASE new = now \union {c.alert}
      BY <3>3 DEF About
    <3> QED BY <2>2, <3>1, <3>2, <3>3 DEF ApplyResult
  <2> QED BY <2>1, <2>2 DEF ApplyResult
<1>11. \A al \in new : al \in tab \/ \E i \in DOMAIN cases : i <= n /\ About(cases[i], al)
  BY <1>2, <1>9 DEF AppliedOK
<1>12. ASSUME NEW al \in new, NEW i \in DOMAIN cases, i <= n, About(cases[i], al) PROVE Follows(tab, cases[i], al)
  <2>1. CASE al \in now /\ ~About(c, al)
    <3>1. i <= n - 1
      BY <1>2, <1>12, <2>1
    <3> QED BY <1>12, <2>1, <3>1 DEF AppliedOK
  <2>2. CASE About(c, al) /\ Follows(tab, c, al)
    <3>1. i = n
      BY <1>12, <2>2 DEF About, CasesOK
    <3> QED BY <2>2, <3>1
  <2>3. CASE al \in now /\ ~\E old \in now : About(c, old)
    <3>1. i <= n - 1
      BY <1>2, <1>12, <2>3
    <3> QED BY <1>12, <2>3, <3>1 DEF AppliedOK
  <2> QED BY <1>9, <2>1, <2>2, <2>3
<1>13. \A al \in new : Key(al) \notin Keys(tab) => \E i \in DOMAIN cases : cases[i].raised /\ About(cases[i], al)
  BY <1>9 DEF AppliedOK
<1>14. \/ Cardinality(new) = MaxAlerts
       \/ /\ \A old \in tab : \E al \in new : Key(al) = Key(old)
          /\ \A i \in DOMAIN cases : i <= n /\ cases[i].raised => \E al \in new : About(cases[i], al)
  <2>1. SUFFICES ASSUME Cardinality(new) # MaxAlerts
                 PROVE  /\ \A old \in tab : \E al \in new : Key(al) = Key(old)
                        /\ \A i \in DOMAIN cases : i <= n /\ cases[i].raised => \E al \in new : About(cases[i], al)
    OBVIOUS
  <2>2. /\ \A old \in tab : \E al \in now : Key(al) = Key(old)
        /\ \A i \in DOMAIN cases : i <= n - 1 /\ cases[i].raised => \E al \in now : About(cases[i], al)
    BY <1>5, <2>1 DEF AppliedOK
  <2>3. \A old \in now : \E al \in new : Key(al) = Key(old)
    BY <1>10, <2>1
  <2>4. \A old \in tab : \E al \in new : Key(al) = Key(old)
    BY <2>2, <2>3
  <2>5. ASSUME NEW i \in DOMAIN cases, i <= n, cases[i].raised PROVE \E al \in new : About(cases[i], al)
    <3>1. CASE i = n
      BY <1>10, <2>1, <2>5, <3>1
    <3>2. CASE i # n
      <4>1. PICK old \in now : About(cases[i], old)
        BY <1>2, <2>2, <2>5, <3>2
      <4>2. PICK al \in new : Key(al) = Key(old)
        BY <2>3
      <4> QED BY <4>1, <4>2 DEF About
    <3> QED BY <3>1, <3>2
  <2> QED BY <2>4, <2>5
<1> QED
  BY <1>3, <1>5, <1>11, <1>12, <1>13, <1>14 DEF AppliedOK

-----------------------------------------------------------------------------
\* Tables is what its definition says: there is a function that satisfies it.
AfterCase(tab, cases, g, i) ==
  IF i = 0 THEN tab ELSE IF i \in DOMAIN cases THEN Apply(g[i - 1], cases[i]) ELSE g[i - 1]

\* There is a run of any number of cases.
LEMMA RunExists ==
  ASSUME NEW tab, NEW cases, NEW n \in Nat
  PROVE  \E g : g = [i \in 0 .. n |-> AfterCase(tab, cases, g, i)]
<1> DEFINE Runs(g, m) == g = [i \in 0 .. m |-> AfterCase(tab, cases, g, i)]
           Without == {m \in Nat : ~\E g : Runs(g, m)}
<1>1. \E g : Runs(g, 0)
  <2> DEFINE h == [i \in 0 .. 0 |-> tab]
  <2>1. \A i \in 0 .. 0 : AfterCase(tab, cases, h, i) = tab
    BY DEF AfterCase
  <2> QED BY <2>1
<1>2. ASSUME NEW m \in Nat, NEW g, Runs(g, m) PROVE \E h : Runs(h, m + 1)
  <2> DEFINE h == [i \in 0 .. m + 1 |-> IF i <= m THEN g[i] ELSE AfterCase(tab, cases, g, i)]
  <2>1. \A i \in 0 .. m : i \in 0 .. m + 1 /\ h[i] = g[i]
    OBVIOUS
  <2>2. ASSUME NEW i \in 0 .. m + 1 PROVE h[i] = AfterCase(tab, cases, h, i)
    <3>1. AfterCase(tab, cases, g, i) = AfterCase(tab, cases, h, i)
      <4>1. CASE i = 0
        BY <4>1 DEF AfterCase
      <4>2. CASE i # 0
        <5>1. i - 1 \in 0 .. m
          BY <4>2
        <5>2. h[i - 1] = g[i - 1]
          BY <2>1, <5>1
        <5> QED BY <4>2, <5>2 DEF AfterCase
      <4> QED BY <4>1, <4>2
    <3>2. i <= m => g[i] = AfterCase(tab, cases, g, i)
      BY <1>2
    <3>3. h[i] = AfterCase(tab, cases, g, i)
      BY <3>2
    <3> QED BY <3>1, <3>3
  <2>3. h = [i \in 0 .. m + 1 |-> h[i]]
    OBVIOUS
  <2> HIDE DEF h
  <2>4. h = [i \in 0 .. m + 1 |-> AfterCase(tab, cases, h, i)]
    BY <2>2, <2>3
  <2> QED BY <2>4
<1> HIDE DEF Runs
<1>3. Without = {}
  <2>1. SUFFICES ASSUME Without # {} PROVE FALSE
    OBVIOUS
  <2>2. PICK m \in Without : \A k \in Without : m <= k
    BY <2>1, LeastCount
  <2>3. m \in Nat /\ m # 0
    BY <1>1, <2>2
  <2>4. m - 1 \in Nat /\ m - 1 \notin Without /\ (m - 1) + 1 = m
    BY <2>2, <2>3
  <2>5. PICK g : Runs(g, m - 1)
    BY <2>4
  <2>6. \E h : Runs(h, m)
    BY <1>2, <2>4, <2>5
  <2> QED BY <2>2, <2>6
<1>4. \E g : Runs(g, n)
  BY <1>3
<1> QED
  BY <1>4 DEF Runs

\* So each table is what its case makes of the one before.
LEMMA TablesAre ==
  ASSUME NEW tab, NEW cases
  PROVE  \A i \in 0 .. LastCandidate : Tables(tab, cases)[i] = AfterCase(tab, cases, Tables(tab, cases), i)
<1>1. \E g : g = [i \in 0 .. LastCandidate |-> AfterCase(tab, cases, g, i)]
  <2>1. LastCandidate \in Nat
    BY WatchValues
  <2> HIDE DEF LastCandidate
  <2> QED BY <2>1, RunExists, Zenon
<1>2. Tables(tab, cases) = CHOOSE g : g = [i \in 0 .. LastCandidate |-> AfterCase(tab, cases, g, i)]
  BY DEF Tables, AfterCase, LastCandidate
<1> DEFINE T == Tables(tab, cases)
<1>3. T = [i \in 0 .. LastCandidate |-> AfterCase(tab, cases, T, i)]
  BY <1>1, <1>2
<1> QED
  BY <1>3

\* After all the cases the table is as it is to be.
LEMMA AppliedIs ==
  ASSUME NEW tab, Table(tab), NEW cases, CasesOK(cases), clock \in Int
  PROVE  AppliedOK(tab, cases, LastCandidate, Applied(tab, cases))
<1> DEFINE T == Tables(tab, cases)
           Wrong == {n \in Nat : n <= LastCandidate /\ ~AppliedOK(tab, cases, n, T[n])}
<1>1. \A i \in 0 .. LastCandidate : T[i] = IF i = 0 THEN tab ELSE IF i \in DOMAIN cases THEN Apply(T[i - 1], cases[i]) ELSE T[i - 1]
  BY TablesAre DEF AfterCase
<1> HIDE DEF T
<1>2. \A i \in DOMAIN cases : i \in Nat /\ i > 0 /\ i <= LastCandidate /\ cases[i] \in Case
  BY WatchValues DEF CasesOK, Candidate, LastCandidate
<1>3. AppliedOK(tab, cases, 0, tab)
  <2>1. \A i \in DOMAIN cases : ~(i <= 0)
    BY <1>2
  <2>2. Cardinality(tab) \in Nat
    BY FS_CardinalityType DEF Table
  <2>3. \A al \in tab : Key(al) \in Keys(tab)
    BY DEF Keys
  <2> QED BY <2>1, <2>2, <2>3 DEF AppliedOK
<1>4. Wrong = {}
  <2>1. SUFFICES ASSUME Wrong # {} PROVE FALSE
    OBVIOUS
  <2>2. PICK n \in Wrong : \A k \in Wrong : n <= k
    BY <2>1, LeastCount
  <2>3. n \in Nat /\ n <= LastCandidate /\ 0 \in 0 .. LastCandidate /\ n \in 0 .. LastCandidate
    BY <2>2, WatchValues
  <2>4. T[0] = tab
    BY <1>1, <2>3
  <2>5. n # 0
    BY <1>3, <2>2, <2>4
  <2>6. n - 1 \in Nat /\ n - 1 <= LastCandidate /\ n - 1 \notin Wrong
    BY <2>2, <2>3, <2>5, WatchValues
  <2>7. AppliedOK(tab, cases, n - 1, T[n - 1])
    BY <2>6
  <2>8. CASE n \in DOMAIN cases
    <3>1. T[n] = Apply(T[n - 1], cases[n])
      BY <1>1, <2>3, <2>5, <2>8
    <3>2. ApplyResult(T[n - 1], cases[n], T[n])
      BY <1>2, <2>7, <2>8, <3>1, ApplyIs DEF AppliedOK
    <3>3. AppliedOK(tab, cases, n, T[n])
      BY <2>7, <2>8, <3>2, OneMoreCase
    <3> QED BY <2>2, <3>3
  <2>9. CASE n \notin DOMAIN cases
    <3>1. T[n] = T[n - 1]
      BY <1>1, <2>3, <2>5, <2>9
    <3>2. \A i \in DOMAIN cases : i <= n <=> i <= n - 1
      BY <1>2, <2>3, <2>9
    <3>3. AppliedOK(tab, cases, n, T[n])
      BY <2>7, <3>1, <3>2 DEF AppliedOK
    <3> QED BY <2>2, <3>3
  <2> QED BY <2>8, <2>9
<1>5. AppliedOK(tab, cases, LastCandidate, T[LastCandidate])
  BY <1>4, WatchValues
<1> QED
  BY <1>5 DEF Applied, T, LastCandidate

-----------------------------------------------------------------------------
\* What the board knows has its types.
HeardOK ==
  /\ known \subseteq Drone /\ live \subseteq known /\ located \in BOOLEAN /\ have \in BOOLEAN
  /\ DOMAIN set \subseteq Plane
  /\ \A p \in DOMAIN set : set[p].says \in Reports /\ set[p].at \in Int /\ set[p].at <= clock
  /\ clock \in 0 .. Horizon /\ dataAt \in Int /\ dataAt <= clock /\ rxAt \in 0 .. clock

\* What a report says has its types.
LEMMA ReportIs ==
  ASSUME NEW r \in Reports
  PROVE  /\ \A d \in Drone : r.away[d] \in Step
         /\ r.board \in Step /\ r.ground \in BOOLEAN /\ r.low \in BOOLEAN /\ r.old \in 0 .. PresentAge
  BY WatchAssumption DEF WhatIsSaid

\* Of the live drones one is the nearest.
LEMMA NearestIs ==
  ASSUME NEW r \in Reports, live \subseteq Drone, live # {}
  PROVE  Nearest(r) \in live
<1>1. \A d \in live : r.away[d] \in Nat /\ d \in Nat
  BY ReportIs DEF Step, Drone
<1> DEFINE Aways == {m \in Nat : \E d \in live : m = r.away[d]}
<1>2. Aways # {}
  BY <1>1
<1>3. PICK m \in Aways : \A n \in Aways : m <= n
  BY <1>2, LeastCount
<1>4. \A d \in live : m <= r.away[d]
  BY <1>1, <1>3
<1> DEFINE Closest == {d \in live : r.away[d] = m}
<1>5. Closest # {} /\ Closest \subseteq Nat
  BY <1>1, <1>3
<1>6. PICK d \in Closest : \A e \in Closest : d <= e
  BY <1>5, LeastCount
<1>7. \A e \in live : r.away[d] < r.away[e] \/ (r.away[d] = r.away[e] /\ d <= e)
  BY <1>1, <1>4, <1>6
<1>8. \E d1 \in live : \A e \in live : r.away[d1] < r.away[e] \/ (r.away[d1] = r.away[e] /\ d1 <= e)
  BY <1>6, <1>7
<1> QED
  BY <1>8 DEF Nearest

\* The case of a pair is a case.
LEMMA PairCaseIs ==
  ASSUME HeardOK, NEW d \in Drone, NEW p \in Here
  PROVE  LET c == PairCase(d, p)
         IN /\ c \in Case /\ c.alert.drone = d /\ c.alert.plane = p /\ c.alert.kind # "low"
            /\ c.alert.held = FALSE /\ c.alert.outAt = Unknown
<1> DEFINE r == set[p].says
           c == PairCase(d, p)
<1>1. p \in Plane /\ r \in Reports
  BY DEF HeardOK, Here
<1>2. r.away[d] \in Step /\ r.ground \in BOOLEAN
  BY <1>1, ReportIs
<1>3. d \in 0 .. Drones
  BY WatchValues DEF Drone
<1> DEFINE near == Raisable(p) /\ d \in live /\ Within(r, d, 0)
           converging == Raisable(p) /\ d \in live /\ d \in r.closing /\ ~r.ground
           holds == d \in live /\ Within(r, d, 1)
           al == [drone |-> d, plane |-> p, kind |-> IF near THEN "near" ELSE "converging", ground |-> r.ground,
                  away |-> r.away[d], below |-> d \in r.below, held |-> FALSE, outAt |-> Unknown]
<1>4. c = [alert |-> al, raised |-> near \/ converging, hold |-> holds]
  BY DEF PairCase
<1>5. near \in BOOLEAN /\ converging \in BOOLEAN /\ holds \in BOOLEAN /\ (d \in r.below) \in BOOLEAN
  <2>1. near \in BOOLEAN
    OBVIOUS
  <2>2. converging \in BOOLEAN
    OBVIOUS
  <2> QED BY <2>1, <2>2
<1> HIDE DEF near, converging, holds, r, c
<1>6. al \in Alert
  BY <1>1, <1>2, <1>3, <1>5 DEF Alert, Kind
<1>7. al.drone = d /\ al.plane = p /\ al.kind # "low" /\ al.held = FALSE /\ al.outAt = Unknown
  OBVIOUS
<1> HIDE DEF al
<1>8. c \in Case /\ c.alert = al
  BY <1>4, <1>5, <1>6 DEF Case
<1> QED
  BY <1>7, <1>8 DEF c

\* So is that of an aircraft alone.
LEMMA LowCaseIs ==
  ASSUME HeardOK, NEW p \in Here, located \/ live # {}
  PROVE  LET c == LowCase(p)
         IN /\ c \in Case /\ c.alert.plane = p /\ c.alert.kind = "low"
            /\ c.alert.held = FALSE /\ c.alert.outAt = Unknown
<1> DEFINE r == set[p].says
           c == LowCase(p)
           away == IF ByDrone(r) THEN r.away[Nearest(r)] ELSE r.board
           holds == ~r.ground /\ away <= 2 /\ r.low
           raised == Raisable(p) /\ holds
           drone == IF ByDrone(r) THEN Nearest(r) ELSE 0
           al == [drone |-> drone, plane |-> p, kind |-> "low", ground |-> r.ground,
                  away |-> away, below |-> FALSE, held |-> FALSE, outAt |-> Unknown]
<1>1. p \in Plane /\ r \in Reports /\ live \subseteq Drone
  BY DEF HeardOK, Here
<1>2. r.board \in Step /\ r.ground \in BOOLEAN
  BY <1>1, ReportIs
<1>3. c = [alert |-> al, raised |-> raised, hold |-> holds]
  BY DEF LowCase
<1>4. ByDrone(r) => Nearest(r) \in Drone
  BY <1>1, NearestIs DEF ByDrone
<1>5. away \in Step /\ drone \in 0 .. Drones
  <2>1. CASE ByDrone(r)
    <3>1. r.away[Nearest(r)] \in Step /\ Nearest(r) \in Drone
      BY <1>1, <1>4, <2>1, ReportIs
    <3> QED BY <2>1, <3>1, WatchValues DEF Drone
  <2>2. CASE ~ByDrone(r)
    BY <1>2, <2>2, WatchValues
  <2> QED BY <2>1, <2>2
<1>6. holds \in BOOLEAN /\ raised \in BOOLEAN
  OBVIOUS
<1> HIDE DEF away, drone, holds, raised, r, c
<1>7. al \in Alert
  BY <1>1, <1>2, <1>5 DEF Alert, Kind
<1>8. al.plane = p /\ al.kind = "low" /\ al.held = FALSE /\ al.outAt = Unknown
  OBVIOUS
<1> HIDE DEF al
<1>9. c \in Case /\ c.alert = al
  BY <1>3, <1>6, <1>7 DEF Case
<1> QED
  BY <1>8, <1>9 DEF c

\* Every candidate is of one drone, or none, and one aircraft; no two are of the same.
LEMMA CandidateIs ==
  ASSUME NEW i \in Candidate
  PROVE  /\ DroneAt(i) \in 1 .. Drones + 1 /\ PlaneAt(i) \in Plane
         /\ i = (DroneAt(i) - 1) * Planes + PlaneAt(i)
<1>1. Drones \in Nat /\ Planes \in Nat /\ i \in 1 .. (Drones + 1) * Planes
  BY WatchValues DEF Candidate
<1>2. Planes > 0
  <2>1. Planes = 0 => (Drones + 1) * Planes = 0
    BY <1>1
  <2> QED BY <1>1, <2>1
<1> DEFINE a == i - 1
           q == a \div Planes
           m == a % Planes
<1>3. a \in Nat /\ a < (Drones + 1) * Planes
  BY <1>1
<1> HIDE DEF a
<1>4. q \in Int /\ m \in 0 .. Planes - 1 /\ a = Planes * q + m
  BY <1>1, <1>2, <1>3
<1> HIDE DEF q, m
<1>5. q >= 0
  <2>1. q <= -1 => Planes * q <= Planes * (-1)
    BY <1>1, <1>2, <1>4
  <2>2. Planes * (-1) = -Planes
    BY <1>1
  <2> QED BY <1>1, <1>3, <1>4, <2>1, <2>2
<1>6. q <= Drones
  <2>1. q >= Drones + 1 => Planes * q >= Planes * (Drones + 1)
    BY <1>1, <1>2, <1>4
  <2>2. Planes * (Drones + 1) = (Drones + 1) * Planes
    BY <1>1
  <2>3. Planes * q \in Int /\ (Drones + 1) * Planes \in Int
    BY <1>1, <1>4
  <2> QED BY <1>1, <1>3, <1>4, <2>1, <2>2, <2>3
<1>7. DroneAt(i) = q + 1 /\ PlaneAt(i) = m + 1
  BY DEF DroneAt, PlaneAt, q, m, a
<1>8. q * Planes = Planes * q
  BY <1>1, <1>4
<1>9. i = q * Planes + (m + 1)
  <2>1. i = a + 1 /\ i \in Int
    BY <1>1 DEF a
  <2>2. Planes * q \in Int
    BY <1>1, <1>4
  <2> QED BY <1>4, <1>8, <2>1, <2>2
<1>10. (q + 1) - 1 = q /\ q + 1 \in 1 .. Drones + 1 /\ m + 1 \in 1 .. Planes
  BY <1>1, <1>4, <1>5, <1>6
<1> QED
  BY <1>7, <1>9, <1>10 DEF Plane

\* A case is of its candidate.
LEMMA CaseIs ==
  ASSUME HeardOK, NEW i \in DOMAIN Cases
  PROVE  /\ i \in Candidate /\ Cases[i] \in Case /\ ~Cases[i].alert.held /\ Cases[i].alert.outAt = Unknown
         /\ Cases[i].alert.plane = PlaneAt(i)
         /\ Cases[i].alert.kind = "low" => DroneAt(i) = Drones + 1
         /\ Cases[i].alert.kind # "low" => Cases[i].alert.drone = DroneAt(i)
<1>1. i \in Visited /\ i \in Candidate /\ PlaneAt(i) \in Here
      /\ Cases[i] = IF Alone(i) THEN LowCase(PlaneAt(i)) ELSE PairCase(DroneAt(i), PlaneAt(i))
  BY DEF Cases, Visited
<1>2. DroneAt(i) \in 1 .. Drones + 1 /\ Drones \in Nat
  BY <1>1, CandidateIs, WatchValues
<1>3. CASE Alone(i)
  <2>1. located \/ live # {}
    BY <1>1, <1>3 DEF Visited
  <2>2. DroneAt(i) = Drones + 1
    BY <1>2, <1>3 DEF Alone
  <2> QED BY <1>1, <1>3, <2>1, <2>2, LowCaseIs
<1>4. CASE ~Alone(i)
  <2>1. DroneAt(i) \in Drone
    BY <1>2, <1>4 DEF Alone, Drone
  <2> DEFINE d == DroneAt(i)
             p == PlaneAt(i)
             c == PairCase(d, p)
  <2>2. d \in Drone /\ p \in Here
    BY <1>1, <2>1
  <2> HIDE DEF d, p
  <2>3. /\ c \in Case /\ c.alert.drone = d /\ c.alert.plane = p /\ c.alert.kind # "low"
        /\ c.alert.held = FALSE /\ c.alert.outAt = Unknown
    BY <2>2, PairCaseIs
  <2> HIDE DEF c
  <2>4. Cases[i] = c
    BY <1>1, <1>4 DEF c, d, p
  <2> QED BY <1>1, <2>3, <2>4 DEF d, p
<1> QED
  BY <1>3, <1>4

\* So no two cases are about one alert.
LEMMA CasesAreOK ==
  ASSUME HeardOK
  PROVE  CasesOK(Cases) /\ Cases = [i \in DOMAIN Cases |-> Cases[i]]
<1>1. ASSUME NEW i \in DOMAIN Cases, NEW j \in DOMAIN Cases, Key(Cases[i].alert) = Key(Cases[j].alert) PROVE i = j
  <2>1. Cases[i].alert \in Alert /\ Cases[j].alert \in Alert
    BY CaseIs DEF Case
  <2>2. PlaneAt(i) = PlaneAt(j) /\ DroneAt(i) = DroneAt(j)
    BY <1>1, <2>1, CaseIs, SameKey
  <2> QED BY <2>2, CaseIs, CandidateIs
<1>2. \A i \in DOMAIN Cases : i \in Candidate /\ Cases[i] \in Case /\ ~Cases[i].alert.held /\ Cases[i].alert.outAt = Unknown
  BY CaseIs
<1>3. Cases = [i \in DOMAIN Cases |-> Cases[i]]
  BY DEF Cases
<1> QED
  BY <1>1, <1>2, <1>3 DEF CasesOK

-----------------------------------------------------------------------------
\* An alert nothing is said about is held, and out since it first was.
Left(al) == [al EXCEPT !.held = TRUE, !.outAt = IF @ = Unknown THEN clock ELSE @]

\* What an evaluation makes of a table.
EvaluatedOK(tab, cases, new) ==
  /\ Table(new)
  /\ \A al \in new :
       \/ \E i \in DOMAIN cases : About(cases[i], al) /\ Follows(tab, cases[i], al)
       \/ /\ \A i \in DOMAIN cases : ~About(cases[i], al)
          /\ \E old \in tab : Key(old) = Key(al) /\ al = Left(old)
  /\ \A al \in new : ~Expired(al)
  /\ \A al \in new : Key(al) \notin Keys(tab) => \E i \in DOMAIN cases : cases[i].raised /\ About(cases[i], al)
  /\ \A old \in tab : \/ \E al \in new : Key(al) = Key(old)
                      \/ \E al \in new : Key(al) \notin Keys(tab)
                      \/ \E at \in {clock, old.outAt} : at # Unknown /\ Age(at) >= ClearTime
  /\ \A i \in DOMAIN cases :
       cases[i].raised => \/ \E al \in new : About(cases[i], al)
                          \/ \E al \in new : Key(al) \notin Keys(tab)
                          \/ Cardinality(tab) = MaxAlerts

\* Being left changes no name.
LEMMA LeftIs ==
  ASSUME NEW al \in Alert, clock \in Int
  PROVE  /\ Left(al) \in Alert /\ Key(Left(al)) = Key(al)
         /\ Left(al).outAt = (IF al.outAt = Unknown THEN clock ELSE al.outAt)
         /\ Left(al).held = TRUE /\ Left(al).ground = al.ground /\ Left(al).kind = al.kind
<1> DEFINE next == Left(al)
<1>1. /\ next.drone = al.drone /\ next.plane = al.plane /\ next.kind = al.kind /\ next.ground = al.ground
      /\ next.held = TRUE /\ next.outAt = IF al.outAt = Unknown THEN clock ELSE al.outAt
  BY DEF Left, Alert
<1>2. next \in Alert
  BY DEF Left, Alert
<1>3. Key(next) = Key(al)
  BY <1>1, <1>2, SameKey
<1> QED
  BY <1>1, <1>2, <1>3

\* Whether a case is about an alert.
Said(cases, al) == \E i \in DOMAIN cases : About(cases[i], al)

\* An evaluation applies the cases, leaves what none is about, and drops what has expired.
LEMMA EvaluatedOf ==
  ASSUME NEW tab, NEW cases
  PROVE  Evaluated(tab, cases) = {al \in {IF Said(cases, was) THEN was ELSE Left(was) : was \in Applied(tab, cases)} : ~Expired(al)}
<1>1. \A al : Key(al) \in {Key(cases[i].alert) : i \in DOMAIN cases} <=> Said(cases, al)
  BY DEF Said, About
<1>2. Missed(Applied(tab, cases), cases) = {IF Said(cases, was) THEN was ELSE Left(was) : was \in Applied(tab, cases)}
  BY <1>1 DEF Missed, Left
<1> QED
  BY <1>2 DEF Evaluated

\* So it makes of a table what it is to.
LEMMA EvaluatedIs ==
  ASSUME NEW tab, Table(tab), NEW cases, CasesOK(cases), clock \in Int
  PROVE  EvaluatedOK(tab, cases, Evaluated(tab, cases))
<1> DEFINE all == Applied(tab, cases)
           new == Evaluated(tab, cases)
           After(was) == IF Said(cases, was) THEN was ELSE Left(was)
<1>1. AppliedOK(tab, cases, LastCandidate, all)
  BY AppliedIs
<1>2. Table(all) /\ all \subseteq Alert
  BY <1>1 DEF AppliedOK, Table
<1>3. \A was \in all : After(was) \in Alert /\ Key(After(was)) = Key(was)
  BY <1>2, LeftIs
<1>4. new = {al \in {After(was) : was \in all} : ~Expired(al)}
  BY EvaluatedOf
<1>5. \A i \in DOMAIN cases : i <= LastCandidate
  BY WatchValues DEF CasesOK, Candidate, LastCandidate
<1> HIDE DEF all, new
<1>6. \A al \in new : \E was \in all : al = After(was) /\ Key(al) = Key(was)
  BY <1>3, <1>4
<1>7. Table(new)
  <2>1. \A al, also \in new : Key(al) = Key(also) => al = also
    BY <1>2, <1>6 DEF Table
  <2>2. new \subseteq Alert
    BY <1>3, <1>4
  <2> HIDE DEF After
  <2>3. \A al \in new : \E was \in all : Key(was) = Key(al)
    BY <1>6
  <2>4. IsFiniteSet(new) /\ Cardinality(new) <= Cardinality(all)
    BY <1>2, <2>1, <2>2, <2>3, NoMore
  <2>5. Cardinality(new) \in Nat /\ Cardinality(all) \in Nat
    BY <1>2, <2>4, FS_CardinalityType DEF Table
  <2> QED BY <1>2, <2>1, <2>2, <2>4, <2>5, WatchValues DEF Table
<1>8. ASSUME NEW al \in new
      PROVE  \/ \E i \in DOMAIN cases : About(cases[i], al) /\ Follows(tab, cases[i], al)
             \/ /\ \A i \in DOMAIN cases : ~About(cases[i], al)
                /\ \E old \in tab : Key(old) = Key(al) /\ al = Left(old)
  <2>1. PICK was \in all : al = After(was) /\ Key(al) = Key(was)
    BY <1>6
  <2>2. CASE Said(cases, was)
    <3>1. PICK i \in DOMAIN cases : About(cases[i], was)
      BY <2>2 DEF Said
    <3>2. Follows(tab, cases[i], was) /\ al = was
      BY <1>1, <1>5, <2>1, <2>2, <3>1 DEF AppliedOK
    <3> QED BY <3>1, <3>2
  <2>3. CASE ~Said(cases, was)
    <3>1. al = Left(was) /\ was \in tab
      BY <1>1, <2>1, <2>3 DEF Said, AppliedOK
    <3>2. \A i \in DOMAIN cases : ~About(cases[i], al)
      BY <2>1, <2>3 DEF Said, About
    <3> QED BY <2>1, <3>1, <3>2
  <2> QED BY <2>2, <2>3
<1>9. \A al \in new : ~Expired(al)
  BY <1>4
<1>10. \A al \in new : Key(al) \notin Keys(tab) => \E i \in DOMAIN cases : cases[i].raised /\ About(cases[i], al)
  BY <1>1, <1>6 DEF AppliedOK, About
\* What is in the table after the cases stays if it is not out for long.
<1>11. ASSUME NEW was \in all, \A at \in Int : After(was).outAt = at => ~(Age(at) >= ClearTime)
       PROVE  \E al \in new : Key(al) = Key(was)
  <2>1. After(was) \in Alert
    BY <1>3
  <2>2. ~Expired(After(was))
    BY <1>11, <2>1 DEF Expired, Alert
  <2> QED BY <1>3, <1>4, <2>2
\* What is raised stays.
<1>12. ASSUME NEW was \in all, NEW i \in DOMAIN cases, cases[i].raised, About(cases[i], was)
       PROVE  \E al \in new : Key(al) = Key(was)
  <2>1. Follows(tab, cases[i], was)
    BY <1>1, <1>5, <1>12 DEF AppliedOK
  <2>2. After(was) = was /\ was.outAt = Unknown
    BY <1>12, <2>1 DEF Follows, Said
  <2> HIDE DEF After
  <2> QED BY <1>11, <2>2, WatchValues
\* So when a name is lost of a full table, or one is left out, another is new.
<1>13. (\E was \in all : Key(was) \notin Keys(tab)) => \E al \in new : Key(al) \notin Keys(tab)
  BY <1>1, <1>12 DEF AppliedOK
<1>14. ASSUME NEW old \in tab
       PROVE  \/ \E al \in new : Key(al) = Key(old)
              \/ \E al \in new : Key(al) \notin Keys(tab)
              \/ \E at \in {clock, old.outAt} : at # Unknown /\ Age(at) >= ClearTime
  <2>1. CASE ~\E was \in all : Key(was) = Key(old)
    <3>1. ~(Keys(tab) \subseteq Keys(all))
      BY <2>1 DEF Keys
    <3>2. \E was \in all : Key(was) \notin Keys(tab)
      BY <1>1, <1>2, <3>1, NameOfItsOwn DEF AppliedOK
    <3> QED BY <1>13, <3>2
  <2>2. ASSUME NEW was \in all, Key(was) = Key(old)
        PROVE  \/ \E al \in new : Key(al) = Key(old)
               \/ \E at \in {clock, old.outAt} : at # Unknown /\ Age(at) >= ClearTime
    <3>1. was \in Alert /\ old \in Alert /\ clock # Unknown
      BY <1>2, WatchValues DEF Table
    <3>2. \A other \in tab : Key(other) = Key(was) => other = old
      BY <2>2 DEF Table
    <3>3. CASE Said(cases, was)
      <4>1. PICK i \in DOMAIN cases : About(cases[i], was)
        BY <3>3 DEF Said
      <4>2. Follows(tab, cases[i], was) /\ After(was) = was
        BY <1>1, <1>5, <3>3, <4>1 DEF AppliedOK
      <4>3. CASE cases[i].raised
        BY <1>12, <2>2, <4>1, <4>3
      <4>4. CASE cases[i].hold
        <5>1. was.outAt = Unknown
          BY <4>2, <4>4 DEF Follows
        <5> HIDE DEF After
        <5> QED BY <1>11, <2>2, <4>2, <5>1, WatchValues
      <4>5. CASE ~cases[i].raised /\ ~cases[i].hold
        <5>1. was.outAt = OutSince(old, cases[i])
          BY <3>2, <4>2, <4>5 DEF Follows
        <5>2. was.outAt \in {clock, old.outAt} /\ was.outAt # Unknown
          BY <3>1, <4>5, <5>1 DEF OutSince
        <5> HIDE DEF After
        <5>3. CASE Age(was.outAt) >= ClearTime
          <6> DEFINE at == was.outAt
          <6>1. at \in {clock, old.outAt} /\ at # Unknown /\ Age(at) >= ClearTime
            BY <5>2, <5>3
          <6> HIDE DEF at
          <6> QED BY <6>1
        <5>4. CASE ~(Age(was.outAt) >= ClearTime)
          BY <1>11, <2>2, <4>2, <5>4
        <5> QED BY <5>3, <5>4
      <4> QED BY <4>3, <4>4, <4>5
    <3>4. CASE ~Said(cases, was)
      <4>1. was \in tab /\ was = old
        BY <1>1, <3>2, <3>4 DEF AppliedOK, Said
      <4>2. After(was) = Left(old)
        BY <3>4, <4>1
      <4>3. Left(old).outAt \in {clock, old.outAt} /\ Left(old).outAt # Unknown
        BY <3>1, LeftIs
      <4> HIDE DEF After
      <4>4. CASE Age(Left(old).outAt) >= ClearTime
        <5> DEFINE at == Left(old).outAt
        <5>1. at \in {clock, old.outAt} /\ at # Unknown /\ Age(at) >= ClearTime
          BY <4>3, <4>4
        <5> HIDE DEF at
        <5> QED BY <5>1
      <4>5. CASE ~(Age(Left(old).outAt) >= ClearTime)
        BY <1>11, <2>2, <4>2, <4>5
      <4> QED BY <4>4, <4>5
    <3> QED BY <3>3, <3>4
  <2> QED BY <2>1, <2>2
<1>15. ASSUME NEW i \in DOMAIN cases, cases[i].raised
       PROVE  \/ \E al \in new : About(cases[i], al)
              \/ \E al \in new : Key(al) \notin Keys(tab)
              \/ Cardinality(tab) = MaxAlerts
  <2>1. CASE \E was \in all : About(cases[i], was)
    BY <1>12, <1>15, <2>1 DEF About
  <2>2. CASE ~\E was \in all : About(cases[i], was)
    <3>1. Cardinality(all) = MaxAlerts
      BY <1>1, <1>5, <1>15, <2>2 DEF AppliedOK
    <3>2. Cardinality(tab) \in Nat /\ Cardinality(tab) <= MaxAlerts
      BY FS_CardinalityType DEF Table
    <3>3. CASE Cardinality(tab) < Cardinality(all)
      <4>1. \E was \in all : Key(was) \notin Keys(tab)
        BY <1>2, <3>3, NameOfItsOwn
      <4> QED BY <1>13, <4>1
    <3> QED BY <3>1, <3>2, <3>3, WatchValues
  <2> QED BY <2>1, <2>2
<1> QED
  BY <1>7, <1>8, <1>9, <1>10, <1>14, <1>15 DEF EvaluatedOK, new

-----------------------------------------------------------------------------
\* When an alert was last seen to stand: at the last evaluation if it is not out,
\* else at the one before it was found out.
TimesOK ==
  /\ status.at \in {clock - 1, clock}
  /\ DOMAIN heldAt = Keys(alerts)
  /\ \A al \in alerts :
       /\ heldAt[Key(al)] \in Int
       /\ al.outAt = Unknown => heldAt[Key(al)] = status.at
       /\ al.outAt # Unknown => heldAt[Key(al)] <= al.outAt /\ al.outAt <= heldAt[Key(al)] + 1 /\ al.outAt <= clock

WatchInv == HeardOK /\ Table(alerts) /\ TimesOK

\* At the start there are no alerts.
LEMMA WatchInitially == WatchInit => WatchInv
<1> SUFFICES ASSUME WatchInit PROVE WatchInv
  OBVIOUS
<1>1. HeardOK
  <2>1. DOMAIN set = {}
    BY DEF WatchInit
  <2>2. clock = 0 /\ clock \in 0 .. Horizon /\ dataAt = 0 /\ rxAt = 0
    BY WatchValues DEF WatchInit
  <2>3. known = Drone /\ live = Drone /\ located = FALSE /\ have = FALSE
    BY DEF WatchInit
  <2>4. dataAt \in Int /\ dataAt <= clock /\ rxAt \in 0 .. clock
    BY <2>2
  <2>5. \A p \in DOMAIN set : set[p].says \in Reports /\ set[p].at \in Int /\ set[p].at <= clock
    BY <2>1
  <2>6. known \subseteq Drone /\ live \subseteq known /\ located \in BOOLEAN /\ have \in BOOLEAN /\ DOMAIN set \subseteq Plane
    BY <2>1, <2>3
  <2> QED BY <2>2, <2>4, <2>5, <2>6 DEF HeardOK
<1>2. Table(alerts)
  BY FS_EmptySet, WatchValues DEF WatchInit, Table
<1>3. DOMAIN heldAt = {} /\ Keys(alerts) = {}
  BY DEF WatchInit, Keys
<1>4. TimesOK
  BY <1>3 DEF WatchInit, TimesOK
<1> QED
  BY <1>1, <1>2, <1>4 DEF WatchInv

\* A set that is received is of reports, from before now.
LEMMA ReceiveKeeps == WatchInv /\ Receive => HeardOK'
<1> SUFFICES ASSUME WatchInv, Receive PROVE HeardOK'
  OBVIOUS
<1>1. PICK heard \in SUBSET Plane, old \in 0 .. StaleAge + 1 : \E says \in [heard -> Reports] :
        /\ \A p \in heard : says[p].old >= old
        /\ set' = [p \in heard |-> [says |-> says[p], at |-> clock - says[p].old]]
        /\ dataAt' = clock - old
  BY DEF Receive
<1>2. PICK says \in [heard -> Reports] :
        /\ set' = [p \in heard |-> [says |-> says[p], at |-> clock - says[p].old]]
        /\ dataAt' = clock - old
  BY <1>1
<1>3. \A p \in heard : says[p] \in Reports /\ says[p].old \in Nat
  BY <1>2, ReportIs, WatchValues
<1>4. clock \in Nat
  BY WatchValues DEF WatchInv, HeardOK
<1>5. \A p \in DOMAIN set' : set'[p].says \in Reports /\ set'[p].at \in Int /\ set'[p].at <= clock
  BY <1>2, <1>3, <1>4
<1>6. DOMAIN set' \subseteq Plane
  BY <1>2
<1>7. dataAt' \in Int /\ dataAt' <= clock
  BY <1>2, <1>4, WatchValues
<1> QED
  BY <1>5, <1>6, <1>7 DEF WatchInv, HeardOK, Receive

\* The times an alert that was in the table may have been out since.
LEMMA TimesThen ==
  ASSUME WatchInv
  PROVE  /\ clock \in Int /\ status.at \in Int /\ status.at <= clock
         /\ \A al \in alerts : /\ al \in Alert /\ heldAt[Key(al)] \in Int /\ heldAt[Key(al)] <= clock
                               /\ al.outAt # Unknown => al.outAt \in Int
<1>1. clock \in Int
  BY WatchValues DEF WatchInv, HeardOK
<1>2. status.at \in Int /\ status.at <= clock
  BY <1>1 DEF WatchInv, TimesOK
<1>3. ASSUME NEW al \in alerts
      PROVE  /\ al \in Alert /\ heldAt[Key(al)] \in Int /\ heldAt[Key(al)] <= clock
             /\ al.outAt # Unknown => al.outAt \in Int
  <2>1. al \in Alert
    BY DEF WatchInv, Table
  <2>2. al.outAt # Unknown => al.outAt \in Int
    BY <2>1 DEF Alert
  <2>3. heldAt[Key(al)] \in Int
    BY DEF WatchInv, TimesOK
  <2>4. CASE al.outAt = Unknown
    <3>1. heldAt[Key(al)] = status.at
      BY <2>4 DEF WatchInv, TimesOK
    <3> QED BY <1>2, <2>1, <2>2, <2>3, <3>1
  <2>5. CASE al.outAt # Unknown
    <3>1. heldAt[Key(al)] <= al.outAt /\ al.outAt <= clock
      BY <2>5 DEF WatchInv, TimesOK
    <3> QED BY <1>1, <2>1, <2>2, <2>3, <2>5, <3>1
  <2> QED BY <2>4, <2>5
<1> QED
  BY <1>1, <1>2, <1>3

\* What is not later than now has an age.
LEMMA AgeIs ==
  ASSUME WatchInv, NEW at \in Int, at <= clock
  PROVE  Age(at) = clock - at
  BY TimesThen DEF Age

\* The alerts of which the condition, or the hold, is true now.
Standing == {Key(Cases[i].alert) : i \in {j \in DOMAIN Cases : Cases[j].raised \/ Cases[j].hold}}

\* What ui_traffic_update does.
LEMMA EvaluateIs ==
  ASSUME WatchInv, Evaluate
  PROVE  /\ EvaluatedOK(alerts, Cases, alerts') /\ CasesOK(Cases)
         /\ status' = [have |-> Have, stale |-> IsStale, at |-> clock, flash |-> Flash(alerts, alerts')]
         /\ DOMAIN heldAt' = Keys(alerts')
         /\ \A k \in Keys(alerts') : heldAt'[k] = IF k \in Standing THEN clock ELSE heldAt[k]
         /\ HeardOK' /\ clock' = clock
<1>1. CasesOK(Cases)
  BY CasesAreOK DEF WatchInv
<1>2. EvaluatedOK(alerts, Cases, Evaluated(alerts, Cases))
  BY <1>1, EvaluatedIs, TimesThen DEF WatchInv
<1>3. alerts' = Evaluated(alerts, Cases)
  BY DEF Evaluate
<1>4. heldAt' = [k \in Keys(alerts') |-> IF k \in Standing THEN clock ELSE heldAt[k]]
  BY DEF Evaluate, Keys, Standing
<1>5. HeardOK' /\ clock' = clock
  BY DEF Evaluate, WatchInv, HeardOK
<1> QED
  BY <1>1, <1>2, <1>3, <1>4, <1>5 DEF Evaluate

\* After an evaluation an alert is not out and stands, or is out, was in the table
\* and is out since it was, or now.
LEMMA OutOrStanding ==
  ASSUME WatchInv, Evaluate, NEW al \in alerts'
  PROVE  \/ al.outAt = Unknown /\ Key(al) \in Standing
         \/ /\ al.outAt # Unknown /\ Key(al) \notin Standing
            /\ \E old \in alerts : /\ Key(old) = Key(al)
                                   /\ al.outAt = IF old.outAt = Unknown THEN clock ELSE old.outAt
<1>1. EvaluatedOK(alerts, Cases, alerts') /\ CasesOK(Cases) /\ clock \in Int
  BY EvaluateIs, TimesThen
<1>2. \A i \in DOMAIN Cases : About(Cases[i], al) => (Key(al) \in Standing <=> Cases[i].raised \/ Cases[i].hold)
  BY <1>1 DEF Standing, CasesOK, About
<1>3. ASSUME NEW i \in DOMAIN Cases, About(Cases[i], al), Follows(alerts, Cases[i], al)
      PROVE  \/ al.outAt = Unknown /\ Key(al) \in Standing
             \/ /\ al.outAt # Unknown /\ Key(al) \notin Standing
                /\ \E old \in alerts : /\ Key(old) = Key(al)
                                       /\ al.outAt = IF old.outAt = Unknown THEN clock ELSE old.outAt
  <2>1. CASE Cases[i].raised \/ Cases[i].hold
    BY <1>2, <1>3, <2>1 DEF Follows
  <2>2. CASE ~Cases[i].raised /\ ~Cases[i].hold
    <3>1. PICK old \in alerts : Key(old) = Key(al) /\ al.outAt = OutSince(old, Cases[i])
      BY <1>3, <2>2 DEF Follows
    <3>2. al.outAt = IF old.outAt = Unknown THEN clock ELSE old.outAt
      BY <2>2, <3>1 DEF OutSince
    <3>3. al.outAt # Unknown
      BY <1>1, <3>2, WatchValues
    <3> QED BY <1>2, <1>3, <2>2, <3>1, <3>2, <3>3
  <2> QED BY <2>1, <2>2
<1>4. ASSUME \A i \in DOMAIN Cases : ~About(Cases[i], al), NEW old \in alerts, Key(old) = Key(al), al = Left(old)
      PROVE  /\ al.outAt # Unknown /\ Key(al) \notin Standing
             /\ al.outAt = IF old.outAt = Unknown THEN clock ELSE old.outAt
  <2>1. Key(al) \notin Standing
    BY <1>4 DEF Standing, About
  <2>2. old \in Alert
    BY TimesThen
  <2>3. al.outAt = IF old.outAt = Unknown THEN clock ELSE old.outAt
    BY <1>1, <1>4, <2>2, LeftIs
  <2> QED BY <1>1, <2>1, <2>3, WatchValues
<1> QED
  BY <1>1, <1>3, <1>4 DEF EvaluatedOK

\* It keeps the invariant, and no alert that has not stood for longer than the clearing time.
LEMMA EvaluateKeeps ==
  ASSUME WatchInv, Evaluate
  PROVE  WatchInv' /\ \A k \in DOMAIN heldAt' : clock - heldAt'[k] <= ClearTime
<1>1. /\ EvaluatedOK(alerts, Cases, alerts') /\ status'.at = clock
      /\ DOMAIN heldAt' = Keys(alerts')
      /\ \A k \in Keys(alerts') : heldAt'[k] = IF k \in Standing THEN clock ELSE heldAt[k]
      /\ HeardOK' /\ clock' = clock /\ clock \in Int
  BY EvaluateIs, TimesThen
<1>2. ASSUME NEW al \in alerts'
      PROVE  /\ heldAt'[Key(al)] \in Int
             /\ al.outAt = Unknown => heldAt'[Key(al)] = clock
             /\ al.outAt # Unknown => heldAt'[Key(al)] <= al.outAt /\ al.outAt <= heldAt'[Key(al)] + 1 /\ al.outAt <= clock
             /\ clock - heldAt'[Key(al)] <= ClearTime
  <2>1. Key(al) \in Keys(alerts')
    BY DEF Keys
  <2>2. CASE al.outAt = Unknown /\ Key(al) \in Standing
    BY <1>1, <2>1, <2>2, WatchValues
  <2>3. CASE /\ al.outAt # Unknown /\ Key(al) \notin Standing
             /\ \E old \in alerts : /\ Key(old) = Key(al)
                                    /\ al.outAt = IF old.outAt = Unknown THEN clock ELSE old.outAt
    <3>1. PICK old \in alerts : /\ Key(old) = Key(al)
                                /\ al.outAt = IF old.outAt = Unknown THEN clock ELSE old.outAt
      BY <2>3
    <3> DEFINE held == heldAt[Key(al)]
    <3>2. heldAt'[Key(al)] = held /\ held \in Int /\ held <= clock
      BY <1>1, <2>1, <2>3, <3>1, TimesThen
    <3>3. /\ old.outAt = Unknown => held = status.at
          /\ old.outAt # Unknown => held <= old.outAt /\ old.outAt <= held + 1 /\ old.outAt <= clock /\ old.outAt \in Int
      BY <3>1, TimesThen DEF WatchInv, TimesOK
    <3>4. status.at = clock - 1 \/ status.at = clock
      BY DEF WatchInv, TimesOK
    <3> HIDE DEF held
    <3>5. al.outAt \in Int /\ held <= al.outAt /\ al.outAt <= held + 1 /\ al.outAt <= clock
      <4>1. CASE old.outAt = Unknown
        BY <1>1, <3>1, <3>2, <3>3, <3>4, <4>1
      <4>2. CASE old.outAt # Unknown
        BY <3>1, <3>3, <4>2
      <4> QED BY <4>1, <4>2
    <3>6. ~(clock - al.outAt >= ClearTime)
      <4>1. ~Expired(al)
        BY <1>1 DEF EvaluatedOK
      <4>2. Age(al.outAt) = clock - al.outAt
        BY <3>5, AgeIs
      <4> QED BY <2>3, <4>1, <4>2 DEF Expired
    <3>7. clock - held <= ClearTime
      BY <1>1, <3>2, <3>5, <3>6, WatchValues
    <3> QED BY <2>3, <3>2, <3>5, <3>7
  <2> QED BY <2>2, <2>3, OutOrStanding
<1>3. \A k \in DOMAIN heldAt' : \E al \in alerts' : k = Key(al)
  BY <1>1 DEF Keys
<1>4. TimesOK'
  BY <1>1, <1>2 DEF TimesOK
<1>5. Table(alerts')
  BY <1>1 DEF EvaluatedOK
<1>6. Table(alerts)'
  BY <1>5 DEF Table, Alert, Key
<1> QED
  BY <1>1, <1>2, <1>3, <1>4, <1>6 DEF WatchInv

\* Every step keeps the invariant.
LEMMA WatchKept == WatchInv /\ [WatchNext]_watchVars => WatchInv'
<1> SUFFICES ASSUME WatchInv, [WatchNext]_watchVars PROVE WatchInv'
  OBVIOUS
<1>1. ASSUME alerts' = alerts PROVE Table(alerts)' /\ Keys(alerts)' = Keys(alerts)
  BY <1>1 DEF WatchInv, Table, Alert, Key, Keys
<1>2. CASE Receive
  <2>1. TimesOK'
    BY <1>1, <1>2 DEF Receive, WatchInv, TimesOK, Key
  <2> QED BY <1>1, <1>2, <2>1, ReceiveKeeps DEF Receive, WatchInv
<1>3. CASE Hear
  <2>1. HeardOK'
    BY <1>3 DEF Hear, WatchInv, HeardOK
  <2>2. TimesOK'
    BY <1>1, <1>3 DEF Hear, WatchInv, TimesOK, Key
  <2> QED BY <1>1, <1>3, <2>1, <2>2 DEF Hear, WatchInv
<1>4. CASE Locate
  <2>1. HeardOK'
    BY <1>4 DEF Locate, WatchInv, HeardOK
  <2>2. TimesOK'
    BY <1>1, <1>4 DEF Locate, WatchInv, TimesOK, Key
  <2> QED BY <1>1, <1>4, <2>1, <2>2 DEF Locate, WatchInv
<1>5. CASE Evaluate
  BY <1>5, EvaluateKeeps
<1>6. CASE WatchTick
  <2>1. clock \in Int /\ status.at = clock /\ clock' = clock + 1 /\ clock < Horizon
    BY <1>6, TimesThen DEF WatchTick
  <2>2. HeardOK'
    <3>1. \A p \in DOMAIN set : set[p].at \in Int /\ set[p].at <= clock + 1
      BY <2>1 DEF WatchInv, HeardOK
    <3>2. clock + 1 \in 0 .. Horizon /\ dataAt <= clock + 1 /\ rxAt \in 0 .. clock + 1
      BY <2>1, WatchValues DEF WatchInv, HeardOK
    <3> QED BY <1>6, <2>1, <3>1, <3>2 DEF WatchTick, WatchInv, HeardOK
  <2>3. \A al \in alerts : al.outAt # Unknown => al.outAt <= clock + 1
    BY <2>1, TimesThen DEF WatchInv, TimesOK
  <2>4. TimesOK'
    BY <1>1, <1>6, <2>1, <2>3 DEF WatchTick, WatchInv, TimesOK, Key
  <2> QED BY <1>1, <1>6, <2>2, <2>4 DEF WatchTick, WatchInv
<1>7. CASE UNCHANGED watchVars
  <2>1. HeardOK'
    BY <1>7 DEF watchVars, WatchInv, HeardOK
  <2>2. TimesOK'
    BY <1>1, <1>7 DEF watchVars, WatchInv, TimesOK, Key
  <2> QED BY <1>1, <1>7, <2>1, <2>2 DEF watchVars, WatchInv
<1> QED
  BY <1>2, <1>3, <1>4, <1>5, <1>6, <1>7 DEF WatchNext

\* An alert that goes has been out for the clearing time, or a new one has its slot.
LEMMA GoesWhenOut ==
  ASSUME WatchInv, Evaluate, NEW old \in alerts, Key(old) \notin Keys(alerts')
  PROVE  \/ clock - heldAt[Key(old)] >= ClearTime
         \/ \E new \in alerts' : Key(new) \notin Keys(alerts)
<1>1. EvaluatedOK(alerts, Cases, alerts')
  BY EvaluateIs
<1>2. ~\E al \in alerts' : Key(al) = Key(old)
  BY DEF Keys
<1>3. SUFFICES ASSUME NEW at \in {clock, old.outAt}, at # Unknown, Age(at) >= ClearTime
               PROVE  clock - heldAt[Key(old)] >= ClearTime
  BY <1>1, <1>2 DEF EvaluatedOK
<1>4. /\ clock \in Int /\ heldAt[Key(old)] \in Int /\ heldAt[Key(old)] <= clock
      /\ old.outAt # Unknown => old.outAt \in Int /\ heldAt[Key(old)] <= old.outAt /\ old.outAt <= clock
  BY TimesThen DEF WatchInv, TimesOK
<1>5. at \in Int /\ at <= clock /\ heldAt[Key(old)] <= at
  BY <1>3, <1>4
<1>6. clock - at >= ClearTime
  BY <1>3, <1>5, AgeIs
<1> QED
  BY <1>4, <1>5, <1>6, WatchValues

\* So alerts go by the clock, whatever the step.
LEMMA GoesInTime == WatchInv /\ [WatchNext]_watchVars => [GoesByTheClock]_watchVars
<1> SUFFICES ASSUME WatchInv, [WatchNext]_watchVars PROVE GoesByTheClock
  OBVIOUS
<1>1. CASE Evaluate
  BY <1>1, EvaluateKeeps, GoesWhenOut DEF GoesByTheClock
<1>2. CASE alerts' = alerts /\ ~Evaluate
  <2>1. \A al \in alerts : Key(al) \in Keys(alerts')
    BY <1>2 DEF Keys
  <2> QED BY <1>2, <2>1 DEF GoesByTheClock
<1>3. Evaluate \/ alerts' = alerts
  BY DEF WatchNext, Receive, Hear, Locate, WatchTick, watchVars
<1> QED
  BY <1>1, <1>2, <1>3

\* What is not low is not hidden.
LEMMA WarningsShown ==
  ASSUME NEW tab, NEW al \in tab, al.kind # "low"
  PROVE  al \in Shown(tab)
  BY DEF Shown

\* The panel flashes for an alert that is new, or whose aircraft has left the ground.
LEMMA FlashIsTrue ==
  ASSUME WatchInv, Evaluate, status'.flash
  PROVE  \E al \in alerts' : /\ Warning(al) /\ (al.held => Key(al) \in Keys(alerts))
                             /\ \A old \in alerts : Key(old) = Key(al) => old.ground
<1>1. EvaluatedOK(alerts, Cases, alerts') /\ CasesOK(Cases) /\ Flash(alerts, alerts')
  BY EvaluateIs
<1>2. PICK al \in alerts' : Level(al) = "warning" /\ Key(al) \notin Warned(alerts)
  BY <1>1 DEF Flash, Warned, Shown
<1>3. Warning(al) /\ al.kind # "low"
  BY <1>2 DEF Warning, Level
<1>4. al \in Alert /\ \A old \in alerts : old \in Alert
  BY <1>1, TimesThen DEF EvaluatedOK, Table
<1>5. ASSUME NEW old \in alerts, Key(old) = Key(al) PROVE old.ground
  <2>1. old.kind # "low"
    BY <1>3, <1>4, <1>5, SameKey
  <2>2. old \in Shown(alerts)
    BY <2>1, WarningsShown
  <2>3. Level(old) # "warning"
    BY <1>2, <1>5, <2>2 DEF Warned
  <2> QED BY <2>1, <2>3 DEF Level
<1>6. ASSUME Key(al) \notin Keys(alerts) PROVE ~al.held
  <2>1. \A old \in alerts : Key(old) # Key(al)
    BY <1>6 DEF Keys
  <2>2. PICK i \in DOMAIN Cases : Cases[i].raised /\ About(Cases[i], al)
    BY <1>1, <1>6 DEF EvaluatedOK
  <2>3. PICK j \in DOMAIN Cases : About(Cases[j], al) /\ Follows(alerts, Cases[j], al)
    BY <1>1, <2>1 DEF EvaluatedOK
  <2>4. i = j
    BY <1>1, <2>2, <2>3 DEF CasesOK, About
  <2> QED BY <2>2, <2>3, <2>4 DEF Follows
<1> QED
  BY <1>3, <1>5, <1>6

\* A warning hides low alerts, but is shown itself.
LEMMA NoneHidden ==
  ASSUME NEW tab, tab # {}
  PROVE  Shown(tab) # {}
<1>1. PICK al \in tab : TRUE
  OBVIOUS
<1>2. CASE \E w \in tab : Warning(w)
  <2>1. PICK w \in tab : Warning(w)
    BY <1>2
  <2>2. w \in Shown(tab)
    BY <2>1, WarningsShown DEF Warning
  <2> QED BY <2>2
<1>3. CASE ~\E w \in tab : Warning(w)
  <2>1. al \in Shown(tab)
    BY <1>1, <1>3 DEF Shown
  <2> QED BY <2>1
<1> QED
  BY <1>2, <1>3

\* After an evaluation the screen says what is so.
LEMMA EvaluateTells ==
  ASSUME WatchInv, Evaluate
  PROVE  SaysTheTruth
<1>1. EvaluatedOK(alerts, Cases, alerts') /\ CasesOK(Cases)
  BY EvaluateIs
<1>2. ASSUME Summary(status', alerts') = "no conflicts", Cardinality(alerts) < MaxAlerts, NEW i \in DOMAIN Cases, Cases[i].raised
      PROVE  FALSE
  <2>1. Shown(alerts') = {}
    BY <1>2 DEF Summary
  <2>2. alerts' = {}
    BY <2>1, NoneHidden
  <2>3. Cardinality(alerts) # MaxAlerts
    <3>1. Cardinality(alerts) \in Nat
      BY FS_CardinalityType DEF WatchInv, Table
    <3>2. Cardinality(alerts) < MaxAlerts /\ MaxAlerts \in Nat
      BY <1>2, WatchValues
    <3> QED BY <3>1, <3>2
  <2> QED BY <1>1, <1>2, <2>2, <2>3 DEF EvaluatedOK
<1>3. ASSUME NEW al \in alerts', NEW i \in DOMAIN Cases, Key(al) = Key(Cases[i].alert)
      PROVE  al.away = Cases[i].alert.away /\ (Advice(al) = "descend and land" => ~Cases[i].alert.below)
  <2>1. PICK j \in DOMAIN Cases : About(Cases[j], al) /\ Follows(alerts, Cases[j], al)
    BY <1>1, <1>3 DEF EvaluatedOK, About
  <2>2. i = j
    BY <1>1, <1>3, <2>1 DEF CasesOK, About
  <2>3. al.away = Cases[i].alert.away /\ al.below = Cases[i].alert.below
    BY <2>1, <2>2 DEF Follows
  <2> QED BY <2>3 DEF Advice
<1> QED
  BY <1>2, <1>3, FlashIsTrue DEF SaysTheTruth

\* The invariant holds.
LEMMA WatchAlways == WatchSpec => []WatchInv
  BY WatchInitially, WatchKept, PTL DEF WatchSpec

\* The alerts of the T5 are true, and go by the clock: what is said of one is of
\* the last report, "no conflicts" and the flash are as they should be, and an
\* alert goes when its condition has been false for the clearing time, and by then.
THEOREM AlertsAreTrue == WatchSpec => AlertsTrue
<1>1. WatchInv /\ [WatchNext]_watchVars => [GoesByTheClock]_watchVars
  BY GoesInTime
<1>2. WatchInv /\ [WatchNext]_watchVars => [Evaluate => SaysTheTruth]_watchVars
  BY EvaluateTells
<1> QED
  BY <1>1, <1>2, WatchAlways, PTL DEF WatchSpec, AlertsTrue, KeptByTheClock, TellsTheTruth

\* The table and what the board knows have their types, and no two alerts have one name.
THEOREM AlertsTyped == WatchSpec => []WatchTypeOK
<1>1. WatchInv => WatchTypeOK
  BY DEF WatchInv, HeardOK, Table, Alert, WatchTypeOK
<1> QED
  BY <1>1, WatchAlways, PTL

-----------------------------------------------------------------------------
(***************************************************************************)
(* After an evaluation, another of the same would change no alert, so what *)
(* the table then does with the alerts that are raised is a matter of rank *)
(* alone.                                                                  *)
(***************************************************************************)
SettledTable(tab, cases) ==
  /\ Table(tab)
  /\ \A al \in tab : /\ ~Expired(al) /\ (~Said(cases, al) => Left(al) = al)
                     /\ \A i \in DOMAIN cases : About(cases[i], al) =>
                          /\ Refreshed(al, cases[i]) = al
                          /\ cases[i].raised => ~Before(cases[i].alert, al)

\* Alerts that agree in everything are one.
LEMMA SameAlert ==
  ASSUME NEW p \in Alert, NEW q \in Alert, p.drone = q.drone, p.plane = q.plane, p.kind = q.kind, p.ground = q.ground,
         p.away = q.away, p.below = q.below, p.held = q.held, p.outAt = q.outAt
  PROVE  p = q
  BY DEF Alert

\* After an evaluation the table is settled.
LEMMA EvaluatedSettles ==
  ASSUME NEW tab, Table(tab), NEW cases, CasesOK(cases), clock \in Int
  PROVE  SettledTable(Evaluated(tab, cases), cases)
<1> DEFINE new == Evaluated(tab, cases)
<1>1. EvaluatedOK(tab, cases, new)
  BY EvaluatedIs
<1> HIDE DEF new
<1>2. Table(new) /\ clock # Unknown
  BY <1>1, WatchValues DEF EvaluatedOK
<1>3. ASSUME NEW al \in new, ~Said(cases, al) PROVE Left(al) = al
  <2>1. PICK old \in tab : al = Left(old)
    BY <1>1, <1>3 DEF EvaluatedOK, Said
  <2>2. old \in Alert /\ al \in Alert
    BY <1>2 DEF Table
  <2>3. al.held = TRUE /\ al.outAt # Unknown
    BY <1>2, <2>1, <2>2, LeftIs
  <2>4. Left(al) \in Alert /\ Left(al).held = TRUE /\ Left(al).outAt = al.outAt
    BY <2>2, <2>3, LeftIs
  <2>5. /\ Left(al).drone = al.drone /\ Left(al).plane = al.plane /\ Left(al).kind = al.kind
        /\ Left(al).ground = al.ground /\ Left(al).away = al.away /\ Left(al).below = al.below
    BY <2>2 DEF Left, Alert
  <2> QED BY <2>2, <2>3, <2>4, <2>5, SameAlert
<1>4. ASSUME NEW al \in new, NEW i \in DOMAIN cases, About(cases[i], al)
      PROVE  /\ Refreshed(al, cases[i]) = al
             /\ cases[i].raised => ~Before(cases[i].alert, al)
  <2> DEFINE c == cases[i]
             next == Refreshed(al, c)
  <2>1. al \in Alert /\ c \in Case /\ c.alert \in Alert /\ Key(al) = Key(c.alert) /\ c.raised \in BOOLEAN /\ c.hold \in BOOLEAN
    BY <1>2, <1>4 DEF Table, CasesOK, Case, About
  <2>2. Follows(tab, c, al)
    <3>1. PICK j \in DOMAIN cases : About(cases[j], al) /\ Follows(tab, cases[j], al)
      BY <1>1, <1>4 DEF EvaluatedOK
    <3>2. j = i
      BY <1>4, <3>1 DEF About, CasesOK
    <3> QED BY <3>1, <3>2
  <2>3. /\ next \in Alert /\ next.away = al.away /\ next.below = al.below /\ next.ground = al.ground
        /\ next.drone = al.drone /\ next.plane = al.plane /\ next.held = al.held
        /\ next.kind = KindKept(al, c) /\ next.outAt = OutSince(al, c)
    BY <2>1, <2>2, RefreshedIs DEF Follows
  <2> HIDE DEF c, next
  <2>4. OutSince(al, c) = al.outAt
    <3>1. CASE c.raised \/ c.hold
      BY <2>2, <3>1 DEF OutSince, Follows
    <3>2. CASE ~c.raised /\ ~c.hold
      <4>1. PICK old \in tab : al.outAt = OutSince(old, c)
        BY <2>2, <3>2 DEF Follows
      <4>2. al.outAt # Unknown
        BY <1>2, <3>2, <4>1 DEF OutSince
      <4> QED BY <3>2, <4>2 DEF OutSince
    <3> QED BY <3>1, <3>2
  <2>5. KindKept(al, c) = al.kind
    BY <2>2 DEF KindKept, Follows
  <2>6. next = al
    BY <2>1, <2>3, <2>4, <2>5, SameAlert
  <2>7. ASSUME c.raised PROVE ~Before(c.alert, al)
    <3>1. /\ al.drone = c.alert.drone /\ al.plane = c.alert.plane /\ al.ground = c.alert.ground /\ al.away = c.alert.away
          /\ al.kind = c.alert.kind \/ (al.kind = "near" /\ c.alert.kind # "low")
      BY <2>2, <2>7 DEF Follows
    <3>2. Urgency(al) = Urgency(c.alert)
      BY <3>1 DEF Urgency, Level
    <3>3. Place[al.kind] <= Place[c.alert.kind]
      <4>1. c.alert.kind \in Kind
        BY <2>1 DEF Alert
      <4> QED BY <3>1, <4>1 DEF Place, Kind
    <3>4. /\ Urgency(al) \in Int /\ Place[al.kind] \in Int /\ al.away \in Int /\ al.drone \in Int /\ al.plane \in Int
          /\ Place[c.alert.kind] \in Int
      BY <2>1, RanksAre
    <3> QED BY <2>1, <3>1, <3>2, <3>3, <3>4, BeforeIs
  <2> QED BY <2>6, <2>7 DEF c, next
<1>5. \A al \in new : ~Expired(al)
  BY <1>1 DEF EvaluatedOK
<1> QED
  BY <1>2, <1>3, <1>4, <1>5 DEF SettledTable, new

\* After n cases from a settled table, one that is raised and not in it ranks
\* before none of a full table.
RankedOK(tab, cases, n, now) ==
  /\ Table(now)
  /\ \A al \in now : al \in tab \/ \E i \in DOMAIN cases : i <= n /\ cases[i].raised /\ al = cases[i].alert
  /\ \A i \in DOMAIN cases :
       i <= n /\ cases[i].raised =>
         \/ \E al \in now : About(cases[i], al)
         \/ Cardinality(now) = MaxAlerts /\ \A al \in now : ~Before(cases[i].alert, al)

\* One case more.
LEMMA OneMoreRanked ==
  ASSUME NEW tab, NEW cases, SettledTable(tab, cases), CasesOK(cases), NEW n \in DOMAIN cases, NEW now,
         RankedOK(tab, cases, n - 1, now), NEW new, ApplyResult(now, cases[n], new), clock \in Int
  PROVE  RankedOK(tab, cases, n, new)
<1> DEFINE c == cases[n]
           bottom == LastRanked(now)
<1>1. /\ \A i \in DOMAIN cases : cases[i] \in Case /\ cases[i].alert \in Alert
      /\ c \in Case /\ c.alert \in Alert
  BY DEF CasesOK, Case
<1>2. n \in Nat /\ \A i \in DOMAIN cases : i \in Nat /\ (i <= n - 1 <=> i <= n /\ i # n)
  BY DEF CasesOK, Candidate
<1>3. Table(now) /\ Table(new) /\ now \subseteq Alert
  BY <1>1, ApplyKeepsTable DEF RankedOK, Table
<1>4. Cardinality(now) = MaxAlerts => Cardinality(new) = MaxAlerts
  <2>1. Cardinality(now) <= Cardinality(new)
    BY <1>1, <1>3, ApplyKeepsTable
  <2>2. Cardinality(now) \in Nat /\ Cardinality(new) \in Nat /\ Cardinality(new) <= MaxAlerts
    BY <1>3, FS_CardinalityType DEF Table
  <2> QED BY <2>1, <2>2, WatchValues
<1>5. \A i \in DOMAIN cases : About(cases[i], cases[i].alert)
  BY DEF About
<1>6. ASSUME NEW old \in now, About(c, old), new = (now \ {old}) \union {Refreshed(old, c)}
      PROVE  RankedOK(tab, cases, n, new)
  <2>1. old \in tab
    <3>1. ASSUME NEW i \in DOMAIN cases, i <= n - 1, old = cases[i].alert PROVE FALSE
      <4>1. i = n
        BY <1>6, <3>1 DEF About, CasesOK
      <4> QED BY <1>2, <3>1, <4>1
    <3> QED BY <3>1 DEF RankedOK
  <2>2. Refreshed(old, c) = old
    BY <1>6, <2>1 DEF SettledTable
  <2>3. new = now
    BY <1>6, <2>2
  <2> QED BY <1>2, <1>6, <2>3 DEF RankedOK
<1>7. ASSUME ~c.raised, new = now PROVE RankedOK(tab, cases, n, new)
  BY <1>2, <1>7 DEF RankedOK
<1>8. ASSUME c.raised, Cardinality(now) < MaxAlerts, new = now \union {c.alert} PROVE RankedOK(tab, cases, n, new)
  <2>1. Cardinality(now) # MaxAlerts
    <3>1. Cardinality(now) \in Nat
      BY <1>3, FS_CardinalityType DEF Table
    <3> QED BY <1>8, <3>1, WatchValues
  <2>2. \A al \in new : al \in tab \/ \E i \in DOMAIN cases : i <= n /\ cases[i].raised /\ al = cases[i].alert
    BY <1>2, <1>8 DEF RankedOK
  <2>3. ASSUME NEW i \in DOMAIN cases, i <= n, cases[i].raised PROVE \E al \in new : About(cases[i], al)
    <3>1. CASE i = n
      BY <1>5, <1>8, <3>1
    <3>2. CASE i # n
      BY <1>2, <1>8, <2>1, <2>3, <3>2 DEF RankedOK
    <3> QED BY <3>1, <3>2
  <2> QED BY <1>3, <2>2, <2>3 DEF RankedOK
\* What ranks after another ranks after what that ranks after.
<1>9. ASSUME now # {} PROVE bottom \in now /\ bottom \in Alert /\ \A al \in now : al = bottom \/ Before(al, bottom)
  BY <1>3, <1>9, LastIs
<1>10. ASSUME NEW p \in Alert, NEW q \in Alert, NEW r \in Alert, ~Before(p, r), q = r \/ Before(q, r)
       PROVE  ~Before(p, q)
  BY <1>10, BeforeOrder
<1>11. ASSUME c.raised, Cardinality(now) = MaxAlerts, now # {}, Before(c.alert, bottom), new = (now \ {bottom}) \union {c.alert}
       PROVE  RankedOK(tab, cases, n, new)
  <2>1. bottom \in now /\ bottom \in Alert /\ \A al \in now : al = bottom \/ Before(al, bottom)
    BY <1>9, <1>11
  <2> HIDE DEF bottom, c
  <2>2. \A al \in new : al \in Alert /\ (al = bottom \/ Before(al, bottom))
    BY <1>1, <1>3, <1>11, <2>1
  <2>3. \A al \in new : al \in tab \/ \E i \in DOMAIN cases : i <= n /\ cases[i].raised /\ al = cases[i].alert
    BY <1>2, <1>11 DEF RankedOK, c
  <2>4. ASSUME NEW i \in DOMAIN cases, i <= n, cases[i].raised, ~Before(cases[i].alert, bottom)
        PROVE  Cardinality(new) = MaxAlerts /\ \A al \in new : ~Before(cases[i].alert, al)
    BY <1>1, <1>4, <1>10, <1>11, <2>1, <2>2, <2>4
  <2>5. ASSUME NEW i \in DOMAIN cases, i <= n, cases[i].raised
        PROVE  \/ \E al \in new : About(cases[i], al)
               \/ Cardinality(new) = MaxAlerts /\ \A al \in new : ~Before(cases[i].alert, al)
    <3>1. CASE i = n
      BY <1>5, <1>11, <3>1 DEF c
    <3>2. CASE i # n /\ \A al \in now : ~Before(cases[i].alert, al)
      BY <2>1, <2>4, <2>5, <3>2
    <3>3. ASSUME i # n, NEW al \in now, About(cases[i], al)
          PROVE  \/ \E other \in new : About(cases[i], other)
                 \/ ~Before(cases[i].alert, bottom)
      <4>1. CASE al # bottom
        BY <1>11, <3>3, <4>1
      <4>2. CASE al = bottom /\ al \in tab
        BY <2>5, <3>3, <4>2 DEF SettledTable
      <4>3. ASSUME al = bottom, NEW j \in DOMAIN cases, al = cases[j].alert PROVE ~Before(cases[i].alert, bottom)
        <5>1. i = j
          BY <3>3, <4>3 DEF About, CasesOK
        <5> QED BY <1>1, <4>3, <5>1, BeforeOrder
      <4> QED BY <4>1, <4>2, <4>3 DEF RankedOK
    <3>4. i # n => i <= n - 1
      BY <1>2, <2>5
    <3> QED BY <2>4, <2>5, <3>1, <3>2, <3>3, <3>4 DEF RankedOK
  <2> QED BY <1>3, <2>3, <2>5 DEF RankedOK
<1>12. ASSUME c.raised, Cardinality(now) = MaxAlerts, now # {}, ~Before(c.alert, bottom), new = now
       PROVE  RankedOK(tab, cases, n, new)
  <2>1. bottom \in now /\ bottom \in Alert /\ \A al \in now : al = bottom \/ Before(al, bottom)
    BY <1>9, <1>12
  <2> HIDE DEF bottom, c
  <2>2. \A al \in now : ~Before(c.alert, al)
    BY <1>1, <1>3, <1>10, <1>12, <2>1
  <2> QED BY <1>2, <1>12, <2>2 DEF RankedOK, c
<1> QED
  BY <1>6, <1>7, <1>8, <1>11, <1>12 DEF ApplyResult, About

\* So it is after all of them.
LEMMA RankedIs ==
  ASSUME NEW tab, NEW cases, SettledTable(tab, cases), CasesOK(cases), clock \in Int
  PROVE  RankedOK(tab, cases, LastCandidate, Applied(tab, cases))
<1> DEFINE T == Tables(tab, cases)
           Wrong == {n \in Nat : n <= LastCandidate /\ ~RankedOK(tab, cases, n, T[n])}
<1>1. \A i \in 0 .. LastCandidate : T[i] = IF i = 0 THEN tab ELSE IF i \in DOMAIN cases THEN Apply(T[i - 1], cases[i]) ELSE T[i - 1]
  BY TablesAre DEF AfterCase
<1> HIDE DEF T
<1>2. \A i \in DOMAIN cases : i \in Nat /\ i > 0 /\ i <= LastCandidate /\ cases[i] \in Case
  BY WatchValues DEF CasesOK, Candidate, LastCandidate
<1>3. RankedOK(tab, cases, 0, tab)
  <2>1. \A i \in DOMAIN cases : ~(i <= 0)
    BY <1>2
  <2> QED BY <2>1 DEF RankedOK, SettledTable
<1>4. Wrong = {}
  <2>1. SUFFICES ASSUME Wrong # {} PROVE FALSE
    OBVIOUS
  <2>2. PICK n \in Wrong : \A k \in Wrong : n <= k
    BY <2>1, LeastCount
  <2>3. n \in Nat /\ n <= LastCandidate /\ 0 \in 0 .. LastCandidate /\ n \in 0 .. LastCandidate
    BY <2>2, WatchValues
  <2>4. T[0] = tab
    BY <1>1, <2>3
  <2>5. n # 0
    BY <1>3, <2>2, <2>4
  <2>6. n - 1 \in Nat /\ n - 1 <= LastCandidate /\ n - 1 \notin Wrong
    BY <2>2, <2>3, <2>5, WatchValues
  <2>7. RankedOK(tab, cases, n - 1, T[n - 1])
    BY <2>6
  <2>8. CASE n \in DOMAIN cases
    <3>1. T[n] = Apply(T[n - 1], cases[n])
      BY <1>1, <2>3, <2>5, <2>8
    <3>2. ApplyResult(T[n - 1], cases[n], T[n])
      BY <1>2, <2>7, <2>8, <3>1, ApplyIs DEF RankedOK
    <3>3. RankedOK(tab, cases, n, T[n])
      BY <2>7, <2>8, <3>2, OneMoreRanked
    <3> QED BY <2>2, <3>3
  <2>9. CASE n \notin DOMAIN cases
    <3>1. T[n] = T[n - 1]
      BY <1>1, <2>3, <2>5, <2>9
    <3>2. \A i \in DOMAIN cases : i <= n <=> i <= n - 1
      BY <1>2, <2>3, <2>9
    <3>3. RankedOK(tab, cases, n, T[n])
      BY <2>7, <3>1, <3>2 DEF RankedOK
    <3> QED BY <2>2, <3>3
  <2> QED BY <2>8, <2>9
<1>5. RankedOK(tab, cases, LastCandidate, T[LastCandidate])
  BY <1>4, WatchValues
<1> QED
  BY <1>5 DEF Applied, T, LastCandidate

\* And nothing of it is left or expires.
LEMMA SettledStays ==
  ASSUME NEW tab, NEW cases, SettledTable(tab, cases), CasesOK(cases), clock \in Int
  PROVE  Evaluated(tab, cases) = Applied(tab, cases)
<1> DEFINE all == Applied(tab, cases)
<1>1. RankedOK(tab, cases, LastCandidate, all)
  BY RankedIs
<1> HIDE DEF all
<1>2. ASSUME NEW al \in all PROVE (IF Said(cases, al) THEN al ELSE Left(al)) = al /\ ~Expired(al)
  <2>1. CASE al \in tab
    BY <2>1 DEF SettledTable
  <2>2. ASSUME NEW i \in DOMAIN cases, al = cases[i].alert PROVE Said(cases, al) /\ ~Expired(al)
    BY <2>2 DEF Said, About, CasesOK, Expired
  <2> QED BY <1>1, <2>1, <2>2 DEF RankedOK
<1>3. Evaluated(tab, cases) = {al \in {IF Said(cases, was) THEN was ELSE Left(was) : was \in all} : ~Expired(al)}
  BY EvaluatedOf DEF all
<1>4. {IF Said(cases, was) THEN was ELSE Left(was) : was \in all} = all
  BY <1>2
<1> QED
  BY <1>2, <1>3, <1>4 DEF all

\* A full table keeps the most urgent: no alert that is raised and not in the table
\* ranks before one that is, once the numbers are those of the present.
THEOREM UrgentAreKept == WatchSpec => []MostUrgentKept
<1>1. ASSUME WatchInv PROVE MostUrgentKept
  <2> DEFINE cases == Cases
             once == Evaluated(alerts, cases)
             settled == Evaluated(once, cases)
  <2>1. CasesOK(cases) /\ clock \in Int /\ Table(alerts)
    BY <1>1, CasesAreOK, TimesThen DEF WatchInv
  <2> HIDE DEF cases
  <2>2. SettledTable(once, cases)
    BY <2>1, EvaluatedSettles
  <2> HIDE DEF once
  <2>3. settled = Applied(once, cases)
    BY <2>1, <2>2, SettledStays
  <2>4. RankedOK(once, cases, LastCandidate, settled)
    BY <2>1, <2>2, <2>3, RankedIs
  <2> HIDE DEF settled
  <2>5. ASSUME NEW i \in DOMAIN cases, cases[i].raised, Key(cases[i].alert) \notin Keys(settled)
        PROVE  Cardinality(settled) = MaxAlerts /\ \A al \in settled : ~Before(cases[i].alert, al)
    <3>1. ~\E al \in settled : About(cases[i], al)
      BY <2>5 DEF About, Keys
    <3>2. i <= LastCandidate
      BY <2>1 DEF CasesOK, Candidate, LastCandidate
    <3> QED BY <2>4, <2>5, <3>1, <3>2 DEF RankedOK
  <2> QED BY <2>5 DEF MostUrgentKept, settled, once, cases
<1> QED
  BY <1>1, WatchAlways, PTL

-----------------------------------------------------------------------------
(***************************************************************************)
(* The types of the parts, side by side as MCAir runs them: a step of one   *)
(* leaves the others as they are.                                          *)
(***************************************************************************)
\* What is in the table and on its way there are restrictions, and the last one
\* the contact was in is one; there is a table once there is a restriction.
ZonesTyped ==
  /\ tfrs \in Seq(Zone) /\ Len(tfrs) <= TfrMax /\ pushing \in Seq(Zone \union {Nil}) /\ spot \in Spots
  /\ loaded \in BOOLEAN /\ (tfrs # <<>> => loaded)
  /\ tables \in 0 .. MaxTables /\ moment \in 0 .. LastMoment
Contact == [at : Spots \union {Nil}, in : BOOLEAN, zone : Zone \union {Nil}, ever : BOOLEAN, set : Signed \union {Nil}]
ContactOK(t) == t \in Contact /\ (t.ever <=> t.zone # Nil) /\ (t.in => t.ever /\ t.at # Nil /\ loaded)
TrackTyped == ContactOK(track)
\* The lines: one told by a way is no later than the last told, nor that than the last.
ToldTyped ==
  /\ DOMAIN told = Via /\ lineNow.set = track.set
  /\ lineTold.at \in Nat /\ lineNow.at \in Nat /\ lineTold.at <= lineNow.at /\ lineNow.at <= moment
  /\ \A v \in Via : told[v].at \in Nat /\ told[v].at <= lineTold.at

AirTyped == ZonesTyped /\ TrackTyped /\ ToldTyped

LEMMA AirValues ==
  /\ TfrMax \in Nat \ {0} /\ MaxTables \in Nat /\ LastMoment \in Nat /\ IsFiniteSet(Zone)
  /\ InForce \subseteq SUBSET Zone /\ Nil \notin Spots /\ Nil \notin Zone /\ Nil \notin Signed
  /\ OneSecond \in Nat \ {0}
BY AirspaceAssumption DEF Zone

\* The restrictions in force, in any order, are as many.
LEMMA InOrderOf ==
  ASSUME NEW zs \in InForce, NEW order \in SetToSeqs(zs)
  PROVE  order \in Seq(Zone) /\ Len(order) = Cardinality(zs)
<1>1. zs \subseteq Zone /\ IsFiniteSet(zs)
  BY AirValues, FS_Subset
<1>2. Cardinality(zs) \in Nat
  BY <1>1, FS_CardinalityType
<1>3. order \in [1 .. Cardinality(zs) -> zs]
  BY DEF SetToSeqs
<1>4. order \in [1 .. Cardinality(zs) -> Zone]
  BY <1>1, <1>3
<1> QED
  BY <1>2, <1>4

\* A contact is where it says, and in a restriction that is around it.
LEMMA LookedUpTyped ==
  ASSUME AirTyped, NEW p \in Spots \union {Nil}
  PROVE  ContactOK(LookedUp(track, p))
<1>1. Around(p) # {} => tfrs[Min(Around(p))] \in Zone /\ loaded
  <2> SUFFICES ASSUME Around(p) # {} PROVE tfrs[Min(Around(p))] \in Zone /\ loaded
    OBVIOUS
  <2>1. Around(p) \subseteq DOMAIN tfrs /\ tfrs \in Seq(Zone)
    BY DEF Around, AirTyped, ZonesTyped
  <2>2. Around(p) \in SUBSET Nat
    BY <2>1
  <2>3. Min(Around(p)) \in Around(p)
    BY <2>2, LeastOf
  <2>4. Len(tfrs) # 0
    BY <2>1, <2>3
  <2> QED
    BY <2>1, <2>3, <2>4 DEF AirTyped, ZonesTyped
<1>2. CASE p = Nil
  BY <1>2 DEF LookedUp, AirTyped, TrackTyped
<1>3. CASE p # Nil /\ Around(p) # {}
  <2>1. LookedUp(track, p) = [track EXCEPT !.at = p, !.in = TRUE, !.zone = tfrs[Min(Around(p))], !.ever = TRUE]
    BY <1>3 DEF LookedUp, AirTyped, TrackTyped, ContactOK, Contact
  <2>2. PICK z \in Zone : z = tfrs[Min(Around(p))] /\ loaded
    BY <1>1, <1>3
  <2>3. LookedUp(track, p) = [at |-> p, in |-> TRUE, zone |-> z, ever |-> TRUE, set |-> track.set]
    BY <2>1, <2>2 DEF AirTyped, TrackTyped, ContactOK, Contact
  <2> QED
    BY <1>3, <2>2, <2>3, AirValues DEF ContactOK, Contact, AirTyped, TrackTyped
<1>4. CASE p # Nil /\ Around(p) = {}
  <2>1. LookedUp(track, p) = [at |-> p, in |-> FALSE, zone |-> track.zone, ever |-> track.ever, set |-> track.set]
    BY <1>4 DEF LookedUp, AirTyped, TrackTyped, ContactOK, Contact
  <2> QED
    BY <1>4, <2>1 DEF ContactOK, Contact, AirTyped, TrackTyped
<1> QED
  BY <1>2, <1>3, <1>4

LEMMA IngestedTyped ==
  ASSUME AirTyped, NEW frame \in Frame
  PROVE  ContactOK(Ingested(frame))
<1>1. CASE frame[1] = "page"
  <2>1. frame[2] \in Signed
    BY <1>1 DEF Frame
  <2>2. Ingested(frame) = [track EXCEPT !.set = frame[2]]
    BY <1>1 DEF Ingested
  <2> QED
    BY <2>1, <2>2 DEF AirTyped, TrackTyped, ContactOK, Contact
<1>2. CASE frame[1] # "page"
  <2>1. PositionIn(frame) \in Spots \union {Nil}
    BY <1>2 DEF PositionIn, Frame, AirTyped, TrackTyped, ContactOK, Contact
  <2> QED
    BY <1>2, <2>1, LookedUpTyped DEF Ingested
<1> QED
  BY <1>1, <1>2

\* What a frame does to what is held and told of the contact.
LEMMA FrameHeard ==
  ASSUME AirTyped, NEW v \in Via, NEW frame \in Frame, HearFrame(v, frame)
  PROVE  \E t, now, says :
           /\ t = Ingested(frame) /\ ContactOK(t) /\ track' = t
           /\ says = <<frame, t.in, ZoneIn(t)>>
           /\ now = [word |-> Word(t), set |-> t.set, at |-> moment]
           /\ lineNow' = now
           /\ \/ Repeats(v, says) /\ told' = told /\ lineTold' = lineTold
              \/ /\ DOMAIN told' = Via /\ told'[v] = [says |-> says, at |-> moment]
                 /\ \A w \in Via \ {v} : told'[w] = told[w]
                 /\ lineTold' = now
           /\ wordAt' = Changed(wordAt, t.in # track.in \/ ZoneIn(t) # ZoneIn(track))
           /\ setAt' = Changed(setAt, t.set # track.set)
           /\ UNCHANGED <<tfrs, loaded, pushing, spot, tables, moment>>
<1>1. PICK t : t = Ingested(frame)
  OBVIOUS
<1>2. PICK says : says = <<frame, t.in, ZoneIn(t)>>
  OBVIOUS
<1>3. PICK now : now = [word |-> Word(t), set |-> t.set, at |-> moment]
  OBVIOUS
<1>4. /\ track' = t
      /\ told' = IF Repeats(v, says) THEN told ELSE [told EXCEPT ![v] = [says |-> says, at |-> moment]]
      /\ lineNow' = now /\ lineTold' = IF Repeats(v, says) THEN lineTold ELSE now
      /\ wordAt' = Changed(wordAt, t.in # track.in \/ ZoneIn(t) # ZoneIn(track))
      /\ setAt' = Changed(setAt, t.set # track.set)
      /\ UNCHANGED <<tfrs, loaded, pushing, spot, tables, moment>>
  BY <1>1, <1>2, <1>3 DEF HearFrame, Says
<1>5. ContactOK(t)
  BY <1>1, IngestedTyped
<1>6. CASE Repeats(v, says)
  <2>1. told' = told /\ lineTold' = lineTold
    BY <1>4, <1>6
  <2> QED
    BY <1>1, <1>2, <1>3, <1>4, <1>5, <1>6, <2>1
<1>7. CASE ~Repeats(v, says)
  <2>1. told' = [told EXCEPT ![v] = [says |-> says, at |-> moment]] /\ lineTold' = now
    BY <1>4, <1>7
  <2>2. DOMAIN told = Via
    BY DEF AirTyped, ToldTyped
  <2>3. DOMAIN told' = Via /\ told'[v] = [says |-> says, at |-> moment] /\ \A w \in Via \ {v} : told'[w] = told[w]
    BY <2>1, <2>2
  <2> QED
    BY <1>1, <1>2, <1>3, <1>4, <1>5, <2>1, <2>3
<1> QED
  BY <1>6, <1>7

LEMMA AirTypesStep == AirTyped /\ [AirNext]_airVars => AirTyped'
<1> SUFFICES ASSUME AirTyped, [AirNext]_airVars PROVE AirTyped'
  OBVIOUS
<1> USE AirValues
<1>1. CASE PushZones
  <2>1. PICK zs \in InForce : \E order \in SetToSeqs(zs) : pushing' = <<Nil>> \o order
    BY <1>1 DEF PushZones
  <2>2. PICK order \in SetToSeqs(zs) : pushing' = <<Nil>> \o order
    BY <2>1
  <2>3. order \in Seq(Zone)
    BY InOrderOf
  <2>4. pushing' \in Seq(Zone \union {Nil})
    BY <2>2, <2>3
  <2> QED
    BY <1>1, <2>4 DEF PushZones, AirTyped, ZonesTyped, TrackTyped, ContactOK, ToldTyped
<1>2. CASE HandleZone
  <2>1. Head(pushing) \in Zone \union {Nil} /\ Tail(pushing) \in Seq(Zone \union {Nil})
    BY <1>2 DEF HandleZone, AirTyped, ZonesTyped
  <2>2. tfrs' \in Seq(Zone) /\ Len(tfrs') <= TfrMax
    BY <1>2, <2>1 DEF HandleZone, AirTyped, ZonesTyped
  <2>3. loaded' \in BOOLEAN /\ (tfrs' # <<>> => loaded') /\ (loaded => loaded')
    BY <1>2 DEF HandleZone, AirTyped, ZonesTyped
  <2> QED
    BY <1>2, <2>1, <2>2, <2>3 DEF HandleZone, AirTyped, ZonesTyped, TrackTyped, ContactOK, ToldTyped
<1>3. CASE InstallZones
  <2>1. PICK zs \in InForce : Cardinality(zs) <= TfrMax /\ tfrs' \in SetToSeqs(zs)
    BY <1>3 DEF InstallZones
  <2>2. tfrs' \in Seq(Zone) /\ Len(tfrs') <= TfrMax
    BY <2>1, InOrderOf
  <2> QED
    BY <1>3, <2>2 DEF InstallZones, AirTyped, ZonesTyped, TrackTyped, ContactOK, ToldTyped
<1>4. CASE Fly
  BY <1>4 DEF Fly, AirTyped, ZonesTyped, TrackTyped, ContactOK, ToldTyped
<1>5. CASE AirTick
  BY <1>5 DEF AirTick, AirTyped, ZonesTyped, TrackTyped, ContactOK, ToldTyped
<1>6. ASSUME NEW v \in Via, NEW frame \in Frame, HearFrame(v, frame)
      PROVE  AirTyped'
  <2>1. PICK t, now, says :
           /\ t = Ingested(frame) /\ ContactOK(t) /\ track' = t
           /\ says = <<frame, t.in, ZoneIn(t)>>
           /\ now = [word |-> Word(t), set |-> t.set, at |-> moment]
           /\ lineNow' = now
           /\ \/ Repeats(v, says) /\ told' = told /\ lineTold' = lineTold
              \/ /\ DOMAIN told' = Via /\ told'[v] = [says |-> says, at |-> moment]
                 /\ \A w \in Via \ {v} : told'[w] = told[w]
                 /\ lineTold' = now
           /\ wordAt' = Changed(wordAt, t.in # track.in \/ ZoneIn(t) # ZoneIn(track))
           /\ setAt' = Changed(setAt, t.set # track.set)
           /\ UNCHANGED <<tfrs, loaded, pushing, spot, tables, moment>>
    BY <1>6, FrameHeard
  <2>2. TrackTyped'
    BY <2>1 DEF TrackTyped, ContactOK
  <2>3. ZonesTyped'
    BY <2>1 DEF AirTyped, ZonesTyped
  <2>4. moment \in Nat /\ moment' = moment
    BY <2>1 DEF AirTyped, ZonesTyped
  <2>5. lineNow'.at = moment /\ lineNow'.set = track'.set /\ now.at = moment
    <3>1. now.at = moment /\ now.set = t.set
      BY <2>1
    <3>2. lineNow' = now /\ track' = t
      BY <2>1
    <3> QED
      BY <3>1, <3>2
  <2>6. CASE told' = told /\ lineTold' = lineTold
    <3>1. /\ DOMAIN told = Via /\ lineTold.at \in Nat /\ lineTold.at <= moment
          /\ \A w \in Via : told[w].at \in Nat /\ told[w].at <= lineTold.at
      BY <2>4 DEF AirTyped, ToldTyped
    <3>2. /\ DOMAIN told' = Via /\ lineTold'.at \in Nat /\ lineTold'.at <= moment'
          /\ \A w \in Via : told'[w].at \in Nat /\ told'[w].at <= lineTold'.at
      BY <2>4, <2>6, <3>1
    <3>3. lineNow'.at = moment'
      BY <2>4, <2>5
    <3>4. ToldTyped'
      BY <2>4, <2>5, <3>2, <3>3 DEF ToldTyped
    <3> QED
      BY <2>2, <2>3, <3>4 DEF AirTyped
  <2>7. CASE /\ DOMAIN told' = Via /\ told'[v] = [says |-> says, at |-> moment]
             /\ \A w \in Via \ {v} : told'[w] = told[w]
             /\ lineTold' = now
    <3>1. \A w \in Via : told'[w].at \in Nat /\ told'[w].at <= moment
      BY <2>4, <2>7 DEF AirTyped, ToldTyped
    <3>2. lineTold'.at = moment
      BY <2>5, <2>7
    <3>3. lineNow'.at = moment' /\ lineTold'.at = moment' /\ DOMAIN told' = Via
      BY <2>4, <2>5, <2>7, <3>2
    <3>4. \A w \in Via : told'[w].at \in Nat /\ told'[w].at <= lineTold'.at
      BY <2>4, <3>1, <3>3
    <3>5. ToldTyped'
      BY <2>4, <2>5, <3>3, <3>4 DEF ToldTyped
    <3> QED
      BY <2>2, <2>3, <3>5 DEF AirTyped
  <2> QED
    BY <2>1, <2>2, <2>3, <2>6, <2>7 DEF AirTyped
<1>7. CASE UNCHANGED airVars
  BY <1>7 DEF airVars, AirTyped, ZonesTyped, TrackTyped, ContactOK, ToldTyped
<1> QED
  BY <1>1, <1>2, <1>3, <1>4, <1>5, <1>6, <1>7 DEF AirNext

LEMMA InitTyped == ASSUME AirInit PROVE AirTyped
<1>1. tfrs \in Seq(Zone) /\ pushing \in Seq(Zone \union {Nil}) /\ Len(tfrs) = 0
  BY DEF AirInit
<1>2. ZonesTyped
  <2>1. tables = 0 /\ moment = 0 /\ loaded = FALSE /\ tfrs = <<>> /\ spot \in Spots
    BY DEF AirInit
  <2>2. TfrMax \in Nat /\ MaxTables \in Nat /\ LastMoment \in Nat
    BY AirValues
  <2>3. Len(tfrs) <= TfrMax
    BY <1>1, <2>2
  <2>4. tables \in 0 .. MaxTables /\ moment \in 0 .. LastMoment
    BY <2>1, <2>2
  <2>5. loaded \in BOOLEAN /\ (tfrs # <<>> => loaded)
    BY <2>1
  <2> QED
    BY <1>1, <2>1, <2>3, <2>4, <2>5, Zenon DEF ZonesTyped
<1>3. TrackTyped
  BY AirValues DEF AirInit, TrackTyped, ContactOK, Contact
<1>4. ToldTyped
  BY DEF AirInit, ToldTyped
<1> QED
  BY <1>2, <1>3, <1>4 DEF AirTyped

\* The types of the restrictions' table and of what is said of a contact in it.
THEOREM AirTypes == AirSpec => []AirTypeOK
<1>1. AirInit => AirTyped
  BY InitTyped
<1>2. AirTyped => AirTypeOK
  BY DEF AirTyped, ZonesTyped, TrackTyped, ContactOK, Contact, ToldTyped, AirTypeOK
<1> QED
  BY <1>1, <1>2, AirTypesStep, PTL DEF AirSpec

(***************************************************************************)
(* Airspace: that no change of what a line says of the contact is kept from *)
(* the host for longer than a second, nor at all but for one that goes back *)
(* on another of that second (ChangesTold), for every set of restrictions,  *)
(* spots, sets, tables and ways a frame is heard.                           *)
(*                                                                         *)
(* The argument: a frame that is not told has the hash of a line told less  *)
(* than a second ago. If it changes the contact, then the contact was no    *)
(* longer as that line said, and so changed after it. If not, then the line *)
(* before says the same of the contact, but for having a word of it at all; *)
(* and once a line has one, all have: the position and the table stay.      *)
(***************************************************************************)
\* Since a line was told the contact has changed unless it is as that line says.
SinceTold(v) ==
  told[v].says # <<>> =>
    /\ told[v].says[2] # track.in \/ told[v].says[3] # ZoneIn(track) => wordAt[1] >= told[v].at
    /\ \A e \in Signed : told[v].says[1] = <<"page", e>> /\ track.set # e => setAt[1] >= told[v].at
\* A line has what the contact was then; a word once had is had for good.
LinesOK ==
  /\ lineNow.word.in = track.in /\ lineNow.word.zone = ZoneIn(track)
  /\ lineTold.word \in [said : BOOLEAN, in : BOOLEAN, zone : Zone \union {Nil}]
  /\ lineNow.word \in [said : BOOLEAN, in : BOOLEAN, zone : Zone \union {Nil}]
  /\ \A w \in {lineTold.word, lineNow.word} : (w.in => w.said) /\ (~w.in => w.zone = Nil)
  /\ lineTold.word.said => track.at # Nil /\ loaded
  /\ wordAt[1] \in Int /\ setAt[1] \in Int /\ wordAt[1] <= moment /\ setAt[1] <= moment
TellingInv == AirTyped /\ LinesOK /\ (\A v \in Via : SinceTold(v)) /\ ChangesTold

\* A position stays, and a contact in a restriction has one.
LEMMA PositionStays ==
  ASSUME AirTyped, NEW frame \in Frame
  PROVE  track.at # Nil => Ingested(frame).at # Nil
<1>1. CASE frame[1] = "page"
  BY <1>1 DEF Ingested, AirTyped, TrackTyped, ContactOK, Contact
<1>2. CASE frame[1] # "page"
  <2>1. Ingested(frame) = LookedUp(track, PositionIn(frame))
    BY <1>2 DEF Ingested
  <2> QED
    BY <2>1 DEF LookedUp, AirTyped, TrackTyped, ContactOK, Contact
<1> QED
  BY <1>1, <1>2

\* Only a page changes the set, to the one it is of.
LEMMA SetOfPage ==
  ASSUME AirTyped, NEW frame \in Frame, Ingested(frame).set # track.set
  PROVE  Ingested(frame).set \in Signed /\ frame = <<"page", Ingested(frame).set>>
<1>1. CASE frame[1] = "page"
  <2>1. frame[2] \in Signed /\ frame = <<"page", frame[2]>>
    BY <1>1 DEF Frame
  <2>2. Ingested(frame).set = frame[2]
    BY <1>1 DEF Ingested, AirTyped, TrackTyped, ContactOK, Contact
  <2> QED
    BY <2>1, <2>2
<1>2. CASE frame[1] # "page"
  <2>1. Ingested(frame) = LookedUp(track, PositionIn(frame))
    BY <1>2 DEF Ingested
  <2>2. Ingested(frame).set = track.set
    BY <2>1 DEF LookedUp, AirTyped, TrackTyped, ContactOK, Contact
  <2> QED
    BY <2>2
<1> QED
  BY <1>1, <1>2

\* The set after a page is the one it is of.
LEMMA PageSets ==
  ASSUME AirTyped, NEW e \in Signed, NEW frame \in Frame, frame = <<"page", e>>
  PROVE  Ingested(frame).set = e
BY DEF Ingested, AirTyped, TrackTyped, ContactOK, Contact

LEMMA ChangeHeard ==
  ASSUME TellingInv, NEW v \in Via, NEW frame \in Frame, HearFrame(v, frame)
  PROVE  LinesOK' /\ (\A w \in Via : SinceTold(w)') /\ ChangesTold'
<1>1. PICK t, now, says :
         /\ t = Ingested(frame) /\ ContactOK(t) /\ track' = t
         /\ says = <<frame, t.in, ZoneIn(t)>>
         /\ now = [word |-> Word(t), set |-> t.set, at |-> moment]
         /\ lineNow' = now
         /\ \/ Repeats(v, says) /\ told' = told /\ lineTold' = lineTold
            \/ /\ DOMAIN told' = Via /\ told'[v] = [says |-> says, at |-> moment]
               /\ \A w \in Via \ {v} : told'[w] = told[w]
               /\ lineTold' = now
         /\ wordAt' = Changed(wordAt, t.in # track.in \/ ZoneIn(t) # ZoneIn(track))
         /\ setAt' = Changed(setAt, t.set # track.set)
         /\ UNCHANGED <<tfrs, loaded, pushing, spot, tables, moment>>
  BY FrameHeard DEF TellingInv
<1>2. /\ moment \in Nat /\ moment' = moment /\ OneSecond \in Nat \ {0} /\ loaded \in BOOLEAN /\ loaded' = loaded
      /\ lineTold.at \in Nat /\ lineTold.at <= moment
      /\ \A w \in Via : told[w].at \in Nat /\ told[w].at <= lineTold.at
      /\ lineNow.set = track.set
  BY <1>1, AirValues DEF TellingInv, AirTyped, ZonesTyped, ToldTyped
<1>3. /\ says[1] = frame /\ says[2] = t.in /\ says[3] = ZoneIn(t) /\ says # <<>>
      /\ now.word = Word(t) /\ now.set = t.set /\ now.at = moment
  BY <1>1
<1>4. /\ Word(t).in = t.in /\ Word(t).zone = ZoneIn(t)
      /\ Word(t) \in [said : BOOLEAN, in : BOOLEAN, zone : Zone \union {Nil}]
      /\ (t.in => Word(t).said) /\ (~t.in => ZoneIn(t) = Nil)
      /\ Word(t).said <=> t.at # Nil /\ loaded
  BY <1>1, <1>2 DEF Word, ZoneIn, ContactOK, Contact
<1>5. track.at # Nil => t.at # Nil
  BY <1>1, PositionStays DEF TellingInv
<1>6. ZoneIn(track)' = ZoneIn(t)
  BY <1>1 DEF ZoneIn
<1>7. /\ wordAt'[1] \in Int /\ wordAt'[1] <= moment /\ wordAt'[1] >= wordAt[1]
      /\ setAt'[1] \in Int /\ setAt'[1] <= moment /\ setAt'[1] >= setAt[1]
      /\ (t.in # track.in \/ ZoneIn(t) # ZoneIn(track)) => wordAt' = <<moment, wordAt[1]>> /\ wordAt'[1] = moment
      /\ t.set # track.set => setAt' = <<moment, setAt[1]>> /\ setAt'[1] = moment
      /\ (t.in = track.in /\ ZoneIn(t) = ZoneIn(track)) => wordAt' = wordAt
      /\ t.set = track.set => setAt' = setAt
  BY <1>1, <1>2 DEF Changed, TellingInv, LinesOK
<1>8. LinesOK'
  <2>1. /\ lineNow'.word.in = track'.in /\ lineNow'.word.zone = ZoneIn(t)
        /\ lineNow'.word = Word(t)
    BY <1>1, <1>3, <1>4
  <2>2. lineTold'.word = lineTold.word \/ lineTold'.word = Word(t)
    BY <1>1, <1>3
  <2>3. lineTold'.word.said => track'.at # Nil /\ loaded'
    BY <1>1, <1>2, <1>4, <1>5, <2>2 DEF TellingInv, LinesOK
  <2>4. lineTold'.word \in [said : BOOLEAN, in : BOOLEAN, zone : Zone \union {Nil}]
    BY <1>4, <2>2 DEF TellingInv, LinesOK
  <2>5. ASSUME NEW w \in {lineTold'.word, lineNow'.word} PROVE (w.in => w.said) /\ (~w.in => w.zone = Nil)
    BY <1>4, <2>1, <2>2 DEF TellingInv, LinesOK
  <2> QED
    BY <1>2, <1>4, <1>6, <1>7, <2>1, <2>3, <2>4, <2>5 DEF LinesOK
<1>9. ASSUME NEW w \in Via PROVE SinceTold(w)'
  <2>1. CASE told'[w] = told[w]
    <3> SUFFICES ASSUME told[w].says # <<>>
                 PROVE  /\ told[w].says[2] # t.in \/ told[w].says[3] # ZoneIn(t) => wordAt'[1] >= told[w].at
                        /\ \A e \in Signed : told[w].says[1] = <<"page", e>> /\ t.set # e => setAt'[1] >= told[w].at
      BY <1>1, <1>6, <2>1 DEF SinceTold
    <3>1. /\ told[w].says[2] # track.in \/ told[w].says[3] # ZoneIn(track) => wordAt[1] >= told[w].at
          /\ \A e \in Signed : told[w].says[1] = <<"page", e>> /\ track.set # e => setAt[1] >= told[w].at
      BY DEF TellingInv, SinceTold
    <3>2. told[w].at \in Nat /\ told[w].at <= moment /\ wordAt[1] \in Int /\ setAt[1] \in Int
      BY <1>2 DEF TellingInv, LinesOK
    <3>3. told[w].says[2] # t.in \/ told[w].says[3] # ZoneIn(t) => wordAt'[1] >= told[w].at
      BY <1>2, <1>7, <3>1, <3>2
    <3>4. ASSUME NEW e \in Signed, told[w].says[1] = <<"page", e>>, t.set # e PROVE setAt'[1] >= told[w].at
      BY <1>2, <1>7, <3>1, <3>2, <3>4
    <3> QED
      BY <3>3, <3>4
  <2>2. CASE told'[w] = [says |-> says, at |-> moment]
    <3>1. told'[w].says = says
      BY <2>2
    <3>2. ASSUME NEW e \in Signed, frame = <<"page", e>> PROVE t.set = e
      BY <1>1, <3>2, PageSets DEF TellingInv
    <3> QED
      BY <1>1, <1>3, <1>6, <3>1, <3>2 DEF SinceTold
  <2> QED
    BY <1>1, <2>1, <2>2
<1>10. ChangesTold'
  <2>1. CASE lineTold' = now
    BY <1>1, <1>2, <2>1, <1>3 DEF ChangesTold
  <2>2. CASE Repeats(v, says) /\ lineTold' = lineTold
    <3>1. told[v].says = says /\ moment - told[v].at < OneSecond
      BY <2>2 DEF Repeats
    <3>2. lineNow'.at - lineTold'.at < OneSecond
      BY <1>1, <1>2, <1>3, <2>2, <3>1
    <3>3. /\ t.in # track.in \/ ZoneIn(t) # ZoneIn(track) => wordAt[1] >= told[v].at
          /\ \A e \in Signed : frame = <<"page", e>> /\ track.set # e => setAt[1] >= told[v].at
      BY <1>3, <3>1 DEF TellingInv, SinceTold
    <3>4. wordAt[1] \in Int /\ setAt[1] \in Int /\ told[v].at \in Nat
      BY <1>2 DEF TellingInv, LinesOK
    <3>5. ASSUME lineTold.word # Word(t)
          PROVE  Flapped(wordAt)' \/ (lineTold.word = NoWord /\ Word(t) = [NoWord EXCEPT !.said = TRUE])
      <4>1. CASE t.in # track.in \/ ZoneIn(t) # ZoneIn(track)
        <5>1. wordAt'[1] = moment /\ wordAt'[2] = wordAt[1]
          BY <1>7, <4>1
        <5> QED
          BY <1>2, <3>1, <3>3, <3>4, <4>1, <5>1 DEF Flapped
      <4>2. CASE t.in = track.in /\ ZoneIn(t) = ZoneIn(track)
        <5>1. wordAt' = wordAt
          BY <1>7, <4>2
        <5>2. lineNow.word.in = t.in /\ lineNow.word.zone = ZoneIn(t)
          BY <4>2 DEF TellingInv, LinesOK
        <5>3. CASE lineTold.word.in # t.in \/ lineTold.word.zone # ZoneIn(t)
          <6>1. lineTold.word # lineNow.word
            BY <5>2, <5>3
          <6>2. ~(lineTold.word = NoWord /\ lineNow.word = [NoWord EXCEPT !.said = TRUE])
            BY <5>2, <5>3 DEF NoWord
          <6> QED
            BY <5>1, <6>1, <6>2 DEF TellingInv, ChangesTold, Flapped
        <5>4. CASE lineTold.word.in = t.in /\ lineTold.word.zone = ZoneIn(t)
          <6>1. /\ lineTold.word \in [said : BOOLEAN, in : BOOLEAN, zone : Zone \union {Nil}]
                /\ (lineTold.word.in => lineTold.word.said)
                /\ (lineTold.word.said => track.at # Nil /\ loaded)
            BY DEF TellingInv, LinesOK
          <6>2. lineTold.word.said # Word(t).said
            BY <1>4, <3>5, <5>4, <6>1
          <6>3. lineTold.word.said => Word(t).said
            BY <1>4, <1>5, <6>1
          <6>4. ~lineTold.word.said /\ Word(t).said /\ ~t.in /\ ZoneIn(t) = Nil
            BY <1>4, <5>4, <6>1, <6>2, <6>3
          <6> QED
            BY <1>4, <5>4, <6>1, <6>4 DEF NoWord
        <5> QED
          BY <5>3, <5>4
      <4> QED
        BY <4>1, <4>2
    <3>6. ASSUME lineTold.set # t.set PROVE Flapped(setAt)'
      <4>1. CASE t.set # track.set
        <5>1. t.set \in Signed /\ frame = <<"page", t.set>>
          BY <1>1, <4>1, SetOfPage DEF TellingInv
        <5>2. setAt'[1] = moment /\ setAt'[2] = setAt[1]
          BY <1>7, <4>1
        <5>3. setAt[1] >= told[v].at
          BY <3>3, <4>1, <5>1
        <5> QED
          BY <1>2, <3>1, <3>4, <5>2, <5>3 DEF Flapped
      <4>2. CASE t.set = track.set
        BY <1>2, <1>7, <3>6, <4>2 DEF TellingInv, ChangesTold, Flapped
      <4> QED
        BY <4>1, <4>2
    <3>7. lineNow'.word = Word(t) /\ lineNow'.set = t.set /\ lineTold' = lineTold /\ NoWord' = NoWord
      BY <1>1, <1>3, <2>2 DEF NoWord
    <3> QED
      BY <3>2, <3>5, <3>6, <3>7 DEF ChangesTold
  <2> QED
    BY <1>1, <2>1, <2>2
<1> QED
  BY <1>8, <1>9, <1>10

\* A line that is suppressed as a repeat keeps from the host, for less than a second,
\* only a change back on another of that second, or the first word that the contact
\* is in no restriction (rx_process).
THEOREM ChangesAreTold == AirSpec => []ChangesTold
<1>1. AirInit => TellingInv
  <2> SUFFICES ASSUME AirInit PROVE TellingInv
    OBVIOUS
  <2>1. AirTyped
    BY InitTyped
  <2>2. lineNow.word = NoWord /\ lineTold = lineNow /\ wordAt[1] = -OneSecond /\ setAt[1] = -OneSecond /\ moment = 0
    BY DEF AirInit
  <2>3. LinesOK
    <3>1. track.in = FALSE /\ ZoneIn(track) = Nil
      BY DEF AirInit, ZoneIn
    <3>2. NoWord \in [said : BOOLEAN, in : BOOLEAN, zone : Zone \union {Nil}] /\ ~NoWord.said /\ ~NoWord.in /\ NoWord.zone = Nil
      BY DEF NoWord
    <3>3. wordAt[1] \in Int /\ setAt[1] \in Int /\ wordAt[1] <= moment /\ setAt[1] <= moment
      BY <2>2, AirValues
    <3> QED
      BY <2>2, <3>1, <3>2, <3>3 DEF LinesOK
  <2>4. ASSUME NEW v \in Via PROVE SinceTold(v)
    BY DEF AirInit, SinceTold
  <2>5. ChangesTold
    BY <2>2 DEF ChangesTold
  <2> QED
    BY <2>1, <2>3, <2>4, <2>5 DEF TellingInv
<1>2. TellingInv /\ [AirNext]_airVars => TellingInv'
  <2> SUFFICES ASSUME TellingInv, [AirNext]_airVars
               PROVE  TellingInv'
    OBVIOUS
  <2>1. AirTyped'
    BY AirTypesStep DEF TellingInv
  <2>2. CASE \E v \in Via, frame \in Frame : HearFrame(v, frame)
    BY <2>1, <2>2, ChangeHeard DEF TellingInv
  <2>3. CASE PushZones \/ HandleZone \/ InstallZones \/ Fly \/ AirTick \/ UNCHANGED airVars
    <3>1. UNCHANGED <<track, told, lineNow, lineTold, wordAt, setAt>> /\ moment' >= moment /\ moment' \in Nat /\ moment \in Nat
      BY <2>3 DEF PushZones, HandleZone, InstallZones, Fly, AirTick, airVars, TellingInv, AirTyped, ZonesTyped
    <3>2. loaded => loaded'
      BY <2>3 DEF PushZones, HandleZone, InstallZones, Fly, AirTick, airVars
    <3>3. LinesOK'
      BY <3>1, <3>2 DEF TellingInv, LinesOK, ZoneIn
    <3>4. ASSUME NEW v \in Via PROVE SinceTold(v)'
      BY <3>1 DEF TellingInv, SinceTold, ZoneIn
    <3>5. ChangesTold'
      BY <3>1 DEF TellingInv, ChangesTold, Flapped, NoWord
    <3> QED
      BY <2>1, <3>3, <3>4, <3>5 DEF TellingInv
  <2> QED
    BY <2>2, <2>3 DEF AirNext
<1>3. TellingInv => ChangesTold
  BY DEF TellingInv
<1> QED
  BY <1>1, <1>2, <1>3, PTL DEF AirSpec

\* Beyond what HomeInv says: what is in RAM are positions.
HomeTyped == HomeInv /\ home \in FixPlace /\ saved \in FixPlace /\ hour \in 0 .. LastHour /\ cuts \in 0 .. MaxCuts /\ setting.fix \in Road \union {Unset}

\* The types of the position and of the steps that save it.
THEOREM HomeTypes == HomeSpec => []HomeTypeOK
<1>1. HomeInit => HomeTyped
  <2>1. LastHour \in Nat /\ MaxCuts \in Nat
    BY HomeAssumption
  <2> QED
    BY <2>1, HomeInitially, HomeValues DEF HomeInit, HomeTyped, Resting
<1>2. HomeTyped /\ [HomeNext]_homeVars => HomeTyped'
  <2> SUFFICES ASSUME HomeTyped, [HomeNext]_homeVars PROVE HomeTyped'
    OBVIOUS
  <2>1. HomeInv'
    <3>1. CASE HomeNext
      BY <3>1, HomeKept DEF HomeTyped, HomeInv
    <3>2. CASE UNCHANGED homeVars
      BY <3>2 DEF HomeTyped, homeVars, HomeInv, RecordsOK, Calls, PlacesOK, HoursOK, WrittenOK, KnowsStored, HalfPut, HomeStored, Near, Between
    <3> QED
      BY <3>1, <3>2
  <2>2. setting'.fix \in Road \union {Unset}
    <3>1. setting.fix \in Road \union {Unset} /\ setting = [fix |-> setting.fix, at |-> setting.at, pc |-> setting.pc]
      BY DEF HomeTyped, HomeInv, RecordsOK
    <3>2. setting'.fix \in {setting.fix, Unset} \/ \E p \in Road : setting' = [fix |-> p, at |-> hour, pc |-> "check"]
      BY <3>1 DEF HomeNext, SetHome, CheckHome, PutHome, NoteHome, CutHome, HomeTick, Done, Resting, homeVars
    <3> QED
      BY <3>1, <3>2
  <2>3. stored \in FixPlace /\ (setting.pc # "none" => setting.fix \in FixPlace)
    BY DEF HomeTyped, HomeInv, PlacesOK
  <2>4. home' \in FixPlace /\ saved' \in FixPlace
    BY <2>3, HomeValues DEF HomeTyped, HomeNext, SetHome, CheckHome, PutHome, NoteHome, CutHome, HomeTick, Done, homeVars
  <2>5. hour' \in 0 .. LastHour /\ cuts' \in 0 .. MaxCuts
    <3>1. LastHour \in Nat /\ MaxCuts \in Nat
      BY HomeAssumption
    <3> QED
      BY <3>1 DEF HomeTyped, HomeNext, SetHome, CheckHome, PutHome, NoteHome, CutHome, HomeTick, homeVars
  <2> QED
    BY <2>1, <2>2, <2>4, <2>5 DEF HomeTyped
<1>3. HomeTyped => HomeTypeOK
  BY DEF HomeTyped, HomeInv, RecordsOK, Calls, PlacesOK, FixPlace, HomeTypeOK
<1> QED
  BY <1>1, <1>2, <1>3, PTL DEF HomeSpec


\* The types of the advertising sets.
THEOREM SetsTypes == TxSpec => []TxTypeOK
<1>1. SetsInv /\ [TxNext]_txVars => SetsInv'
  BY BeginKeeps, QuietenKeeps, ServeKeeps, TakeKeeps, ConfigureKeeps, StartKeeps, SwitchKeeps, TimeKeepsSets DEF TxNext
<1>2. SetsInv => TxTypeOK
  <2> SUFFICES ASSUME SetsInv PROVE TxTypeOK
    OBVIOUS
  <2>1. pass.k \in 1 .. nsets
    BY DEF SetsInv, SetsTyped, Taking, PassRecord, SetNo
  <2>2. \A k \in SetNo : advs[k].path \in BlePath \union {NoPath}
    <3>1. \A k \in SetNo : advs[k] \in SetRecord
      BY DEF SetsInv, SetsTyped
    <3> QED
      BY <3>1 DEF SetRecord, AnyPath
  <2> QED
    BY <2>1, <2>2 DEF SetsInv, SetsTyped, AirIs, TxTypeOK
<1> QED
  BY SetsInitially, <1>1, <1>2, PTL DEF TxSpec

\* The types of all parts.
THEOREM ReceivedTyped == MCAirSpec => []ReceivedTypeOK
<1>1. MCAirInit => FragInit /\ AirInit /\ HomeInit /\ WatchInit /\ TxInit
  BY DEF MCAirInit
<1>2. [MCAirNext]_MCAirVars =>
        /\ [FragNext]_fragVars /\ [AirNext]_airVars /\ [HomeNext]_homeVars /\ [WatchNext]_watchVars /\ [TxNext]_txVars
  BY DEF MCAirNext, MCAirVars, sentVars
<1>3. MCAirSpec => FragSpec /\ AirSpec /\ HomeSpec /\ WatchSpec /\ TxSpec
  BY <1>1, <1>2, PTL DEF MCAirSpec, FragSpec, AirSpec, HomeSpec, WatchSpec, TxSpec
<1>4. FragTypeOK /\ AirTypeOK /\ HomeTypeOK /\ WatchTypeOK /\ TxTypeOK => ReceivedTypeOK
  BY DEF ReceivedTypeOK
<1> QED
  BY <1>3, <1>4, FragTyped, AirTypes, HomeTypes, AlertsTyped, SetsTypes, PTL

=============================================================================
