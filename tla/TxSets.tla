------------------------------- MODULE TxSets -------------------------------
(***************************************************************************)
(* The Bluetooth half of the test transmitter (firmware/common/tx_core.h):  *)
(* three paths over the controller's advertising sets. With three sets each *)
(* path has its own; with two, BLE4 has the second and BLE5 and coded take  *)
(* turns on the first. The radio task makes a pass every 2 ms (ble_service) *)
(* and holds the lock; the screen and the console write running, enabled    *)
(* and rate at any point of it, without the lock.                           *)
(*                                                                         *)
(* Left out: the payloads, the Wi-Fi frames (TxSlots), the status line.     *)
(***************************************************************************)
EXTENDS Integers, Sequences, FiniteSets

CONSTANTS
  Turn,        \* TX_RATES: rate -> share_ms
  Every,       \* rate -> path -> ext_data_ms, leg_msg_ms
  StopRetry,   \* 200 ms
  StartRetry,  \* 500 ms
  TxWrap,      \* millis() counts modulo this
  NoPath,      \* -1
  MaxFailed,   \* bound of the model: calls of the controller that fail
  MaxSwitched, \* bound of the model: settings that change
  LastReading  \* bound of the model: how long it runs

Rate == DOMAIN Turn
\* BLE_PATHS: path -> its place.
PathOrder == [ble5 |-> 1, lr |-> 2, ble4 |-> 3]
BlePath == DOMAIN PathOrder

ASSUME TxSetsAssumption ==
  /\ Turn \in [Rate -> Nat \ {0}] /\ Every \in [Rate -> [BlePath -> Nat \ {0}]]
  /\ {StopRetry, StartRetry} \subseteq Nat \ {0} /\ {MaxFailed, MaxSwitched, LastReading} \subseteq Nat
  /\ TxWrap \in Nat /\ TxWrap > 2 * StopRetry /\ TxWrap > 2 * StartRetry /\ TxWrap > 2 * LastReading
  /\ NoPath \notin BlePath

VARIABLES
  running, enabled, rate,  \* s_running, s_enabled, s_rate
  advs,     \* s_set, by number
  nsets,    \* s_ble_sets
  onAir,    \* the controller: what each set advertises, and at which rate's interval
  pass,     \* where the radio task is in its pass
  reading,  \* millis()
  passed,   \* a pass was made at this reading
  steady,   \* history: no setting changed since the pass began
  stray,    \* history: sets a relayout could not stop
  idle,     \* history: path -> for how long it was wanted, could have been, and was not on the air
  failed, switched

settings == <<running, enabled, rate, switched>>
txVars == <<settings, advs, nsets, onAir, pass, reading, passed, steady, stray, idle, failed>>

SetNo == 1 .. 3
IdleSet == [path |-> NoPath, active |-> FALSE, rate |-> "spec", since |-> 0, data |-> 0, retry |-> 0]
Rested == [at |-> "between", k |-> 1, path |-> NoPath, ok |-> FALSE, interval |-> "spec", r |-> "spec"]
Quiet == [path |-> NoPath, rate |-> "spec"]

TxInit ==
  /\ running = TRUE /\ enabled = BlePath /\ rate \in Rate
  /\ advs = [k \in SetNo |-> IdleSet] /\ nsets \in {2, 3}
  /\ onAir = [k \in SetNo |-> Quiet] /\ pass = Rested
  /\ reading = 0 /\ passed = FALSE /\ steady = TRUE
  /\ stray = {} /\ idle = [p \in BlePath |-> 0] /\ failed = 0 /\ switched = 0

-----------------------------------------------------------------------------
Since(from) == (reading - from) % TxWrap
Later(d) == (reading + d) % TxWrap

\* (int32_t)(now - retry_ms) < 0
PutOff(k) == 2 * Since(advs[k].retry) >= TxWrap

\* ble_set_of
SetOf(p) == IF nsets = 3 THEN PathOrder[p] ELSE IF p = "ble4" THEN 2 ELSE 1

Wanted(p) == running /\ p \in enabled
Wants(k) == {p \in BlePath : Wanted(p) /\ SetOf(p) = k}
FirstPath(S) == CHOOSE p \in S : \A q \in S : PathOrder[p] <= PathOrder[q]

\* A bug to compare with: the path that has the set keeps it.
OnTurnKept(k) == IF advs[k].path \in Wants(k) THEN advs[k].path ELSE FirstPath(Wants(k))

\* Who should be on a set: the path that is, until its turn is over; then the next.
OnTurn(k) ==
  LET want == Wants(k)
      cur == advs[k].path
      after == {p \in want : PathOrder[p] > PathOrder[cur]}
  IN IF cur \notin want THEN FirstPath(want)
     ELSE IF want # {cur} /\ Since(advs[k].since) >= Turn[pass.r]
          THEN FirstPath(IF after = {} THEN want ELSE after)
          ELSE cur

\* tx_advance
Advanced(last, every) == IF Since(last) < 2 * every THEN (last + every) % TxWrap ELSE reading

\* Calls to the controller fail or do not.
CallFails == failed < MaxFailed /\ failed' = failed + 1
CallWorks == UNCHANGED failed

\* On to the next of n sets.
NextSet(n) ==
  IF pass.k < n THEN pass' = [Rested EXCEPT !.at = "set", !.k = pass.k + 1, !.r = pass.r] /\ UNCHANGED passed
  ELSE pass' = Rested /\ passed' = TRUE
Goes(step) == pass' = step /\ UNCHANGED passed

always == <<settings, reading, steady>>

\* tx_step, ble_service: the pass goes by the rate it finds.
BeginPass ==
  /\ pass.at = "between" /\ pass' = [Rested EXCEPT !.at = "set", !.r = rate] /\ steady' = TRUE
  /\ UNCHANGED <<settings, advs, nsets, onAir, reading, passed, stray, idle, failed>>

\* ble_service, a set nobody wants goes quiet; one whose stop failed waits.
Quieten ==
  LET k == pass.k IN
  /\ pass.at = "set" /\ Wants(k) = {}
  /\ \/ advs[k].active /\ PutOff(k) /\ UNCHANGED <<advs, onAir>> /\ CallWorks
     \/ advs[k].active /\ ~PutOff(k) /\ advs' = [advs EXCEPT ![k].retry = Later(StopRetry)] /\ UNCHANGED onAir /\ CallFails
     \/ /\ advs[k].active /\ ~PutOff(k) /\ advs' = [advs EXCEPT ![k].active = FALSE, ![k].path = NoPath]
        /\ onAir' = [onAir EXCEPT ![k] = Quiet] /\ CallWorks
     \/ ~advs[k].active /\ advs' = [advs EXCEPT ![k].path = NoPath] /\ UNCHANGED onAir /\ CallWorks
  /\ NextSet(nsets) /\ UNCHANGED <<always, nsets, stray, idle>>

\* A bug to compare with: a new rate waits for the next change of path.
MustTakePath(k) == OnTurn(k) # advs[k].path \/ ~advs[k].active

\* The path or the rate changed, or the set is not on.
MustTake(k) == OnTurn(k) # advs[k].path \/ ~advs[k].active \/ advs[k].rate # rate

\* ble_service, a set somebody wants: held back, taken, or its payload renewed
\* when it is due; it is taken again when that fails (ble_refresh).
Serve ==
  LET k == pass.k IN
  /\ pass.at = "set" /\ Wants(k) # {}
  /\ LET p == OnTurn(k)
         due == Since(advs[k].data) >= Every[pass.r][p]
         taken == [pass EXCEPT !.at = "take", !.path = p]
     IN \/ (PutOff(k) \/ (~MustTake(k) /\ ~due)) /\ NextSet(nsets) /\ CallWorks /\ UNCHANGED advs
        \/ ~PutOff(k) /\ MustTake(k) /\ Goes(taken) /\ CallWorks /\ UNCHANGED advs
        \/ /\ ~PutOff(k) /\ ~MustTake(k) /\ due
           /\ \/ advs' = [advs EXCEPT ![k].data = Advanced(@, Every[pass.r][p])] /\ NextSet(nsets) /\ CallWorks
              \/ Goes(taken) /\ CallFails /\ UNCHANGED advs
  /\ UNCHANGED <<always, nsets, onAir, stray, idle>>

\* ble_take stops the set; a stop that fails is tried again later.
Take ==
  LET k == pass.k IN
  /\ pass.at = "take"
  /\ \/ /\ advs[k].active /\ advs' = [advs EXCEPT ![k].retry = Later(StopRetry)] /\ CallFails
        /\ NextSet(nsets) /\ UNCHANGED onAir
     \/ /\ advs' = [advs EXCEPT ![k].active = FALSE] /\ CallWorks
        /\ onAir' = IF advs[k].active THEN [onAir EXCEPT ![k] = Quiet] ELSE onAir
        /\ Goes([pass EXCEPT !.at = "configure"])
  /\ UNCHANGED <<always, nsets, stray, idle>>

\* Configures it, at the interval of the rate as it is now; twice, with a stop in between.
Configure ==
  LET k == pass.k IN
  /\ pass.at = "configure"
  /\ \/ Goes([pass EXCEPT !.at = "start", !.ok = TRUE, !.interval = rate]) /\ onAir' = [onAir EXCEPT ![k] = Quiet] /\ CallWorks
     \/ Goes([pass EXCEPT !.at = "start"]) /\ onAir' \in {onAir, [onAir EXCEPT ![k] = Quiet]} /\ CallFails
  /\ stray' = IF onAir'[k] = Quiet THEN stray \ {k} ELSE stray
  /\ UNCHANGED <<always, advs, nsets, idle>>

\* And starts it, noting the rate as it is by then. A third set that does not
\* start is given up.
Start ==
  LET k == pass.k
      noted == [advs[k] EXCEPT !.path = pass.path, !.since = reading, !.data = reading, !.rate = rate]
  IN
  /\ pass.at = "start"
  /\ \/ /\ pass.ok /\ CallWorks /\ advs' = [advs EXCEPT ![k] = [noted EXCEPT !.active = TRUE]]
        /\ onAir' = [onAir EXCEPT ![k] = [path |-> pass.path, rate |-> pass.interval]]
        /\ NextSet(nsets) /\ UNCHANGED <<nsets, idle>>
     \/ /\ IF pass.ok THEN CallFails ELSE CallWorks
        /\ advs' = [advs EXCEPT ![k] = [noted EXCEPT !.retry = Later(StartRetry), !.path = IF k = 3 THEN NoPath ELSE @]]
        /\ nsets' = (IF k = 3 THEN 2 ELSE nsets)
        /\ idle' = [idle EXCEPT ![pass.path] = 0]
        /\ NextSet(nsets') /\ UNCHANGED onAir
  /\ UNCHANGED <<always, stray>>

-----------------------------------------------------------------------------
\* The screen, the console.
Switch ==
  /\ switched < MaxSwitched /\ switched' = switched + 1 /\ steady' = FALSE
  /\ \/ running' = ~running /\ UNCHANGED <<enabled, rate>>
     \/ \E p \in BlePath : enabled' = (enabled \ {p}) \union ({p} \ enabled) /\ UNCHANGED <<running, rate>>
     \/ rate' \in Rate \ {rate} /\ UNCHANGED <<running, enabled>>
  /\ idle' = [p \in BlePath |-> 0]
  /\ UNCHANGED <<advs, nsets, onAir, pass, reading, passed, stray, failed>>

\* ble_relayout, under the lock: every set is stopped, whatever that returns.
Relayout ==
  /\ pass.at = "between" /\ switched < MaxSwitched /\ switched' = switched + 1
  /\ nsets' \in {2, 3}
  /\ advs' = [k \in SetNo |-> [advs[k] EXCEPT !.active = FALSE, !.path = NoPath, !.retry = 0]]
  /\ stray' \in SUBSET {k \in SetNo : onAir[k] # Quiet} /\ failed' = failed + Cardinality(stray') /\ failed' <= MaxFailed
  /\ onAir' = [k \in SetNo |-> IF k \in stray' THEN onAir[k] ELSE Quiet]
  /\ steady' = FALSE /\ idle' = [p \in BlePath |-> 0]
  /\ UNCHANGED <<running, enabled, rate, pass, reading, passed>>

OnTheAir(p) == \E k \in SetNo : onAir[k].path = p

\* Time passes; the task makes its pass meanwhile.
TxTick ==
  /\ reading < LastReading /\ passed /\ pass.at = "between"
  /\ reading' = reading + 1 /\ passed' = FALSE
  /\ idle' = [p \in BlePath |-> IF OnTheAir(p) \/ ~Wanted(p) THEN 0 ELSE IF PutOff(SetOf(p)) THEN idle[p] ELSE idle[p] + 1]
  /\ UNCHANGED <<settings, advs, nsets, onAir, pass, steady, stray, failed>>

TxNext == BeginPass \/ Quieten \/ Serve \/ Take \/ Configure \/ Start \/ Switch \/ Relayout \/ TxTick
TxSpec == TxInit /\ [][TxNext]_txVars

-----------------------------------------------------------------------------
\* The types, and that a set is on the air when NimBLE has said it is, except
\* one a relayout could not stop.
TxTypeOK ==
  /\ enabled \subseteq BlePath /\ rate \in Rate /\ nsets \in {2, 3}
  /\ pass.k \in 1 .. nsets /\ reading \in 0 .. LastReading /\ failed <= MaxFailed
  /\ \A k \in SetNo :
       /\ advs[k].path \in BlePath \union {NoPath}
       /\ (advs[k].active => onAir[k].path = advs[k].path)
       /\ (onAir[k] # Quiet => advs[k].active \/ k \in stray)

\* After a pass in which no setting changed only what is enabled is on the air,
\* at the interval of the rate; except on a set whose next attempt is put off or
\* that a relayout could not stop, and the interval of one that was configured
\* while the rate changed (ble_take notes the new rate then).
OnlyEnabled ==
  pass.at = "between" /\ passed /\ steady =>
    \A k \in SetNo : onAir[k] # Quiet /\ ~PutOff(k) /\ k \notin stray =>
      /\ Wanted(onAir[k].path)
      /\ onAir[k].rate = rate \/ onAir[k].rate # advs[k].rate

\* A path that is enabled comes on the air within the turn of the one it shares
\* a set with; a call that fails, or a setting that changes, costs it at most
\* one turn more.
SetsInTurn == \A p \in BlePath : idle[p] <= Turn[rate] * (1 + failed + switched)
=============================================================================
