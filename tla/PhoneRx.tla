------------------------------ MODULE PhoneRx ------------------------------
(***************************************************************************)
(* "Use this phone as a detector": the app's setting                       *)
(* (mobile/lib/app/app_controller.dart), the receiver it starts and stops   *)
(* (core/native_rx/native_rx_service.dart) and its Bluetooth path           *)
(* (ble_rid_scanner.dart), whose lease PhoneScan serves. Each is a chain of *)
(* awaits: what runs between two of them is one step, and another call,    *)
(* the power policy or the adapter may come in at each.                     *)
(*                                                                         *)
(* Left out: the Wi-Fi paths, which go the same way, and the frames.        *)
(***************************************************************************)
EXTENDS Integers, Sequences, FiniteSets

CONSTANTS
  LastToggle,  \* bound of the model: how often the setting is changed
  MaxPolicies, \* bound of the model: changes of the power policy, and of the adapter
  MaxRefusals  \* bound of the model: leases refused with Bluetooth on, and stops that throw

ASSUME PhoneRxAssumption == {LastToggle, MaxPolicies, MaxRefusals} \subseteq Nat

\* The calls, in order; the first is the app's own, when it begins.
Toggle == 0 .. LastToggle

VARIABLES
  phoneRx,   \* settings.phoneRx
  calls,     \* where each call is: not begun, at an await, or done
  until,     \* and how many changes of the paths rx.stop waits for
  rxOn,      \* NativeRxService._running
  bleOn,     \* ._bleOn
  hears,     \* .adapterOn is listened to
  paths,     \* ._paths: how many changes of the paths were queued, and how many are done
  path,      \* where the first of those that are not is
  rxLease,     \* BleRidScanner._lease: none, held, or asked for
  listens,   \* BleRidScanner._sub
  allowed,   \* the power policy wants the Bluetooth path
  bluetooth, \* the adapter is on
  overlap,   \* history: a call was begun while another was under way
  refused,   \* history: the last lease asked for was refused with Bluetooth on
  threw,     \* history: the last stop of the Bluetooth path threw, with the path on
  policies, refusals

rxVars == <<phoneRx, calls, until, rxOn, bleOn, hears, paths, path, rxLease, listens, allowed, bluetooth, overlap, refused, threw, policies, refusals>>
outside == <<allowed, bluetooth, policies>>
scanner == <<rxLease, listens, refused, threw, refusals>>

RxInit ==
  /\ phoneRx \in BOOLEAN
  /\ calls = [t \in Toggle |-> IF t = 0 THEN "start" ELSE "none"]
  /\ until = [t \in Toggle |-> 0] /\ rxOn = FALSE /\ bleOn = FALSE /\ hears = FALSE
  /\ paths = [queued |-> 0, done |-> 0] /\ path = "ready"
  /\ rxLease = "none" /\ listens = FALSE
  /\ allowed \in BOOLEAN /\ bluetooth \in BOOLEAN /\ overlap = FALSE /\ refused = FALSE /\ threw = FALSE /\ policies = 0 /\ refusals = 0

-----------------------------------------------------------------------------
\* A call is at an await, and goes on to the next.
Under(t) == calls[t] \notin {"none", "done"}
Awaits(t, where) == calls[t] = where
To(t, where) == calls' = [calls EXCEPT ![t] = where] /\ UNCHANGED until
QueuePaths == paths' = [paths EXCEPT !.queued = @ + 1]

\* setPhoneRx, up to the setting's save.
SetPhoneRx(t) ==
  /\ t > 0 /\ Awaits(t, "none") /\ ~Awaits(t - 1, "none")
  /\ phoneRx' = ~phoneRx
  /\ To(t, IF phoneRx' THEN "start" ELSE "stop")
  /\ overlap' = (overlap \/ \E u \in Toggle : Under(u))
  /\ UNCHANGED <<rxOn, bleOn, hears, paths, path, scanner, outside>>

\* _startPhoneRx, up to the permissions and the capabilities.
StartPhoneRx(t) ==
  /\ Awaits(t, "start") /\ To(t, IF ~phoneRx \/ rxOn THEN "done" ELSE "permitted")
  /\ UNCHANGED <<phoneRx, rxOn, bleOn, hears, paths, path, scanner, outside, overlap>>

\* rx.start
StartRx(t) ==
  /\ Awaits(t, "permitted")
  /\ IF rxOn THEN To(t, "done") /\ UNCHANGED <<rxOn, hears, paths>>
     ELSE rxOn' = TRUE /\ hears' = TRUE /\ QueuePaths /\ To(t, "done")
  /\ UNCHANGED <<phoneRx, bleOn, path, scanner, outside, overlap>>

\* rx.stop: not running, the subscriptions, the changes queued so far, the
\* scanner's subscription, its lease, and the Wi-Fi.
StopRx(t) ==
  /\ Awaits(t, "stop")
  /\ IF ~rxOn THEN To(t, "done") /\ UNCHANGED <<rxOn, hears>>
     ELSE rxOn' = FALSE /\ hears' = FALSE /\ To(t, "unheard")
  /\ UNCHANGED <<phoneRx, bleOn, paths, path, scanner, outside, overlap>>

\* A bug to compare with: rx.stop goes on while a change of the paths is under way.
AwaitPathsNot(t) ==
  /\ Awaits(t, "unheard") /\ To(t, "quiet")
  /\ UNCHANGED <<phoneRx, rxOn, bleOn, hears, paths, path, scanner, outside, overlap>>

AwaitPaths(t) ==
  /\ \/ Awaits(t, "unheard") /\ calls' = [calls EXCEPT ![t] = "waits"] /\ until' = [until EXCEPT ![t] = paths.queued]
     \/ Awaits(t, "waits") /\ paths.done >= until[t] /\ To(t, "quiet")
  /\ UNCHANGED <<phoneRx, rxOn, bleOn, hears, paths, path, scanner, outside, overlap>>

StopScanner(t) ==
  /\ Awaits(t, "quiet") /\ listens' = FALSE /\ To(t, "deaf")
  /\ UNCHANGED <<phoneRx, rxOn, bleOn, hears, paths, path, rxLease, refused, threw, refusals, outside, overlap>>

\* The lease is gone at once, and its release awaited.
ReleaseLease(t) ==
  /\ Awaits(t, "deaf") /\ rxLease' = (IF rxLease = "held" THEN "none" ELSE rxLease) /\ To(t, "released")
  /\ UNCHANGED <<phoneRx, rxOn, bleOn, hears, paths, path, listens, refused, threw, refusals, outside, overlap>>

NoteStopped(t) ==
  /\ Awaits(t, "released") /\ bleOn' = FALSE /\ threw' = FALSE /\ To(t, "done")
  /\ UNCHANGED <<phoneRx, rxOn, hears, paths, path, rxLease, listens, refused, refusals, outside, overlap>>

\* A release throws when the scan cannot start again for the leases that are
\* left, and the stop of the Wi-Fi may: rx.stop leaves there, and the path
\* stays noted as on.
StopThrows(t) ==
  /\ Awaits(t, "released") /\ refusals < MaxRefusals /\ refusals' = refusals + 1
  /\ threw' = bleOn /\ To(t, "done")
  /\ UNCHANGED <<phoneRx, rxOn, bleOn, hears, paths, path, rxLease, listens, refused, outside, overlap>>

-----------------------------------------------------------------------------
PathDone == path' = "ready" /\ paths' = [paths EXCEPT !.done = @ + 1]

\* _syncPaths
SyncPaths ==
  /\ path = "ready" /\ paths.done < paths.queued
  /\ \/ ~rxOn /\ PathDone /\ UNCHANGED <<bleOn, scanner>>
     \/ rxOn /\ allowed /\ (bleOn \/ rxLease = "held") /\ bleOn' = TRUE /\ PathDone /\ UNCHANGED scanner
     \/ rxOn /\ allowed /\ ~bleOn /\ rxLease # "held" /\ listens' = TRUE /\ rxLease' = "asked" /\ path' = "asking" /\ UNCHANGED <<bleOn, paths, refused, threw, refusals>>
     \/ rxOn /\ ~allowed /\ bleOn /\ listens' = FALSE /\ path' = "stopping" /\ UNCHANGED <<bleOn, paths, rxLease, refused, threw, refusals>>
     \/ rxOn /\ ~allowed /\ ~bleOn /\ PathDone /\ UNCHANGED <<bleOn, scanner>>
  /\ UNCHANGED <<phoneRx, calls, until, rxOn, hears, outside, overlap>>

\* The lease is given, or refused: without Bluetooth, or by the platform.
LeaseAnswered ==
  /\ path = "asking" /\ PathDone
  /\ \/ bluetooth /\ rxLease' = "held" /\ bleOn' = TRUE /\ refused' = FALSE /\ UNCHANGED <<listens, refusals>>
     \/ ~bluetooth /\ rxLease' = "none" /\ listens' = FALSE /\ refused' = FALSE /\ UNCHANGED <<bleOn, refusals>>
     \/ bluetooth /\ refusals < MaxRefusals /\ refusals' = refusals + 1 /\ rxLease' = "none" /\ listens' = FALSE /\ refused' = TRUE /\ UNCHANGED bleOn
  /\ UNCHANGED <<phoneRx, calls, until, rxOn, hears, threw, outside, overlap>>

\* The Bluetooth path was stopped; or its lease's release threw, with which
\* the change of the paths ends.
PathStopped ==
  /\ path = "stopping" /\ rxLease' = "none" /\ PathDone
  /\ \/ bleOn' = FALSE /\ threw' = FALSE /\ UNCHANGED refusals
     \/ rxLease = "held" /\ refusals < MaxRefusals /\ refusals' = refusals + 1 /\ threw' = bleOn /\ UNCHANGED bleOn
  /\ UNCHANGED <<phoneRx, calls, until, rxOn, hears, listens, refused, outside, overlap>>

-----------------------------------------------------------------------------
\* applyPolicy
ApplyPolicy ==
  /\ policies < MaxPolicies /\ policies' = policies + 1 /\ allowed' = ~allowed
  /\ IF rxOn THEN QueuePaths ELSE UNCHANGED paths
  /\ UNCHANGED <<phoneRx, calls, until, rxOn, bleOn, hears, path, scanner, bluetooth, overlap>>

\* The adapter; its turning on is a chance for a path that could not start. A
\* lease that is held outlives its going off.
BluetoothTurns ==
  /\ policies < MaxPolicies /\ policies' = policies + 1 /\ bluetooth' = ~bluetooth
  /\ IF bluetooth' /\ hears /\ rxOn /\ ~bleOn THEN QueuePaths ELSE UNCHANGED paths
  /\ UNCHANGED <<phoneRx, calls, until, rxOn, bleOn, hears, path, scanner, allowed, overlap>>

Calls ==
  \E t \in Toggle :
    \/ SetPhoneRx(t) \/ StartPhoneRx(t) \/ StartRx(t) \/ StopRx(t)
    \/ AwaitPaths(t) \/ StopScanner(t) \/ ReleaseLease(t) \/ NoteStopped(t) \/ StopThrows(t)

RxNext == Calls \/ SyncPaths \/ LeaseAnswered \/ PathStopped \/ ApplyPolicy \/ BluetoothTurns
RxSpec == RxInit /\ [][RxNext]_rxVars

-----------------------------------------------------------------------------
RxTypeOK ==
  /\ rxLease \in {"none", "asked", "held"} /\ path \in {"ready", "asking", "stopping"}
  /\ paths.done <= paths.queued /\ (path # "ready" => paths.done < paths.queued)
  /\ (rxLease = "asked" <=> path = "asking")

RxQuiet == (\A t \in Toggle : ~Under(t)) /\ paths.done = paths.queued

\* When all calls have returned, the receiver is on as its setting says, and
\* what scans for it is its own; and the phone receives whenever the policy and
\* Bluetooth allow it, however those changed meanwhile. The exceptions: a call
\* begun before another had returned, a lease the platform refused, and a stop
\* that threw, after which the path is noted as on, and is not started, until
\* a stop returns.
RxAsSet ==
  RxQuiet /\ ~overlap =>
    /\ rxOn = phoneRx
    /\ (rxLease = "held" => bleOn /\ rxOn /\ allowed /\ listens)
    /\ (~threw => (bleOn => rxLease = "held"))
    /\ (rxOn /\ allowed /\ bluetooth /\ ~refused /\ ~threw => rxLease = "held")
=============================================================================
