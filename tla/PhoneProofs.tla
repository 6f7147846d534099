---------------------------- MODULE PhoneProofs ----------------------------
(***************************************************************************)
(* What is proved of the phone app: its own receiver (PhoneRx), its list of  *)
(* contacts (ContactTracker) and its own records (PhoneHistory).             *)
(***************************************************************************)
EXTENDS PhoneRx, ContactTracker, PhoneHistory, TLAPS

(***************************************************************************)
(* That the phone receives if and only if its setting says so and the       *)
(* policy and Bluetooth allow it (RxAsSet), for every number of changes of   *)
(* the setting, the policy and the adapter, of refused leases and of stops   *)
(* that throw.                                                             *)
(*                                                                         *)
(* The argument: while no two calls overlap, how far the one under way is   *)
(* tells what the receiver is; a receiver that is off has no change of the  *)
(* paths before it, since its stop waited for those and nothing queues one  *)
(* for it; and with none before it, one that is on has its path as the      *)
(* policy and the adapter want it, since each of their changes queues one.  *)
(***************************************************************************)
AnyAwait == {"none", "done", "start", "permitted", "stop", "unheard", "waits", "quiet", "deaf", "released"}
Leaving == {"unheard", "waits", "quiet", "deaf", "released"}

\* Nobody is at one of these awaits.
NoneAt(where) == \A t \in Toggle : calls[t] \notin where

CallsOK ==
  /\ calls \in [Toggle -> AnyAwait] /\ until \in [Toggle -> Nat]
  /\ phoneRx \in BOOLEAN /\ rxOn \in BOOLEAN /\ hears \in BOOLEAN /\ bleOn \in BOOLEAN
  /\ listens \in BOOLEAN /\ overlap \in BOOLEAN /\ refused \in BOOLEAN /\ threw \in BOOLEAN

PathsOK ==
  /\ paths \in [queued : Nat, done : Nat] /\ paths.done <= paths.queued
  /\ path \in {"ready", "asking", "stopping"} /\ (path # "ready" => paths.done < paths.queued)
  /\ path = "asking" <=> rxLease = "asked"
  /\ rxLease \in {"none", "asked", "held"}

\* What the call under way has done so far.
CallsAre ==
  /\ \A t, u \in Toggle : Under(t) /\ Under(u) => t = u
  /\ \A t \in Toggle :
       /\ calls[t] = "start" => ~rxOn
       /\ calls[t] = "permitted" => phoneRx /\ ~rxOn
       /\ calls[t] = "stop" => ~phoneRx /\ rxOn
       /\ calls[t] \in Leaving => ~phoneRx /\ ~rxOn
       /\ calls[t] = "start" /\ t > 0 => phoneRx
  /\ (\A t \in Toggle : ~Under(t)) => rxOn = phoneRx
  /\ hears = rxOn

\* A receiver that is off has no change of the paths before it, once its stop
\* has waited for those there were.
OffIsStill ==
  /\ \A t \in Toggle :
       /\ calls[t] = "waits" => until[t] = paths.queued
       /\ calls[t] \in {"quiet", "deaf", "released"} => paths.done = paths.queued
       /\ calls[t] = "released" => rxLease # "held"
  /\ ~rxOn /\ NoneAt(Leaving) => paths.done = paths.queued /\ rxLease # "held" /\ (~threw => ~bleOn)

\* The path is on when its lease is held, and it listens; but for a stop that
\* threw, it is on only then.
PathIs ==
  /\ rxLease = "held" => bleOn
  /\ path # "stopping" /\ NoneAt({"released"}) /\ ~threw => (bleOn => rxLease = "held")
  /\ path # "stopping" /\ NoneAt({"deaf", "released"}) /\ rxLease = "held" => listens
  /\ path = "asking" => listens /\ ~bleOn
  /\ path = "stopping" => bleOn

\* The last change of the paths leaves them as the policy and the adapter say.
PathWanted ==
  rxOn =>
    /\ paths.done = paths.queued => (rxLease = "held" => allowed) /\ (allowed /\ bluetooth /\ ~refused => bleOn)
    /\ paths.done + 1 = paths.queued => (path = "asking" => allowed) /\ (path = "stopping" => ~allowed)

RxTypes == CallsOK /\ PathsOK
AsCalled == CallsAre /\ OffIsStill /\ PathIs /\ PathWanted

RxInv == RxTypes /\ (~overlap => AsCalled)

-----------------------------------------------------------------------------
LEMMA RxInitially == RxInit => RxInv
<1> SUFFICES ASSUME RxInit PROVE RxInv
  OBVIOUS
<1>1. RxTypes
  <2>1. CallsOK
    <3>1. calls \in [Toggle -> AnyAwait] /\ until \in [Toggle -> Nat]
      BY DEF RxInit, AnyAwait
    <3> QED
      BY <3>1 DEF RxInit, CallsOK
  <2>2. PathsOK
    BY DEF RxInit, PathsOK
  <2> QED
    BY <2>1, <2>2 DEF RxTypes
<1>2. CallsAre
  <2>1. \A t \in Toggle : calls[t] = IF t = 0 THEN "start" ELSE "none"
    BY DEF RxInit
  <2>2. 0 \in Toggle /\ Under(0)
    BY <2>1, PhoneRxAssumption DEF Toggle, Under
  <2>3. \A t \in Toggle : Under(t) => t = 0
    BY <2>1 DEF Under
  <2>4. rxOn = FALSE /\ hears = FALSE
    BY DEF RxInit
  <2>5. \A t \in Toggle : calls[t] \in {"start", "none"} /\ (calls[t] = "start" => t = 0)
    BY <2>1
  <2>6. \A t \in Toggle : calls[t] \notin Leaving \union {"permitted", "stop"} /\ ~(calls[t] = "start" /\ t > 0)
    BY <2>5 DEF Leaving, Toggle
  <2> QED
    BY <2>2, <2>3, <2>4, <2>6 DEF CallsAre
<1>3. OffIsStill /\ PathIs /\ PathWanted
  BY PhoneRxAssumption DEF RxInit, OffIsStill, PathIs, PathWanted, NoneAt, Toggle, Leaving
<1> QED
  BY <1>1, <1>2, <1>3 DEF RxInv, AsCalled

LEMMA RxTypesKept ==
  ASSUME RxTypes, RxNext
  PROVE  RxTypes'
<1> USE DEF RxTypes, To, QueuePaths, PathDone, Awaits, scanner, outside
<1>1. ASSUME NEW t \in Toggle, SetPhoneRx(t) PROVE RxTypes'
  <2>1. CallsOK'
    BY <1>1 DEF SetPhoneRx, CallsOK, PathsOK, AnyAwait
  <2>2. PathsOK'
    BY <1>1 DEF SetPhoneRx, CallsOK, PathsOK
  <2> QED
    BY <2>1, <2>2
<1>2. ASSUME NEW t \in Toggle, StartPhoneRx(t) PROVE RxTypes'
  <2>1. CallsOK'
    BY <1>2 DEF StartPhoneRx, CallsOK, PathsOK, AnyAwait
  <2>2. PathsOK'
    BY <1>2 DEF StartPhoneRx, CallsOK, PathsOK
  <2> QED
    BY <2>1, <2>2
<1>3. ASSUME NEW t \in Toggle, StartRx(t) PROVE RxTypes'
  <2>1. CallsOK'
    BY <1>3 DEF StartRx, CallsOK, PathsOK, AnyAwait
  <2>2. PathsOK'
    BY <1>3 DEF StartRx, CallsOK, PathsOK
  <2> QED
    BY <2>1, <2>2
<1>4. ASSUME NEW t \in Toggle, StopRx(t) PROVE RxTypes'
  <2>1. CallsOK'
    BY <1>4 DEF StopRx, CallsOK, PathsOK, AnyAwait
  <2>2. PathsOK'
    BY <1>4 DEF StopRx, CallsOK, PathsOK
  <2> QED
    BY <2>1, <2>2
<1>5. ASSUME NEW t \in Toggle, AwaitPaths(t) PROVE RxTypes'
  <2>1. CallsOK'
    BY <1>5 DEF AwaitPaths, CallsOK, PathsOK, AnyAwait
  <2>2. PathsOK'
    BY <1>5 DEF AwaitPaths, CallsOK, PathsOK
  <2> QED
    BY <2>1, <2>2
<1>6. ASSUME NEW t \in Toggle, StopScanner(t) PROVE RxTypes'
  <2>1. CallsOK'
    BY <1>6 DEF StopScanner, CallsOK, PathsOK, AnyAwait
  <2>2. PathsOK'
    BY <1>6 DEF StopScanner, CallsOK, PathsOK
  <2> QED
    BY <2>1, <2>2
<1>7. ASSUME NEW t \in Toggle, ReleaseLease(t) PROVE RxTypes'
  <2>1. CallsOK'
    BY <1>7 DEF ReleaseLease, CallsOK, PathsOK, AnyAwait
  <2>2. PathsOK'
    BY <1>7 DEF ReleaseLease, CallsOK, PathsOK
  <2> QED
    BY <2>1, <2>2
<1>8. ASSUME NEW t \in Toggle, NoteStopped(t) PROVE RxTypes'
  <2>1. CallsOK'
    BY <1>8 DEF NoteStopped, CallsOK, PathsOK, AnyAwait
  <2>2. PathsOK'
    BY <1>8 DEF NoteStopped, CallsOK, PathsOK
  <2> QED
    BY <2>1, <2>2
<1>9. ASSUME NEW t \in Toggle, StopThrows(t) PROVE RxTypes'
  <2>1. CallsOK'
    BY <1>9 DEF StopThrows, CallsOK, PathsOK, AnyAwait
  <2>2. PathsOK'
    BY <1>9 DEF StopThrows, CallsOK, PathsOK
  <2> QED
    BY <2>1, <2>2
<1>10. CASE SyncPaths
  <2>1. CallsOK'
    BY <1>10 DEF SyncPaths, CallsOK, PathsOK, AnyAwait
  <2>2. PathsOK'
    BY <1>10 DEF SyncPaths, CallsOK, PathsOK
  <2> QED
    BY <2>1, <2>2
<1>11. CASE LeaseAnswered
  <2>1. CallsOK'
    BY <1>11 DEF LeaseAnswered, CallsOK, PathsOK, AnyAwait
  <2>2. PathsOK'
    BY <1>11 DEF LeaseAnswered, CallsOK, PathsOK
  <2> QED
    BY <2>1, <2>2
<1>12. CASE PathStopped
  <2>1. CallsOK'
    BY <1>12 DEF PathStopped, CallsOK, PathsOK, AnyAwait
  <2>2. PathsOK'
    BY <1>12 DEF PathStopped, CallsOK, PathsOK
  <2> QED
    BY <2>1, <2>2
<1>13. CASE ApplyPolicy
  <2>1. CallsOK'
    BY <1>13 DEF ApplyPolicy, CallsOK, PathsOK, AnyAwait
  <2>2. PathsOK'
    BY <1>13 DEF ApplyPolicy, CallsOK, PathsOK
  <2> QED
    BY <2>1, <2>2
<1>14. CASE BluetoothTurns
  <2>1. CallsOK'
    BY <1>14 DEF BluetoothTurns, CallsOK, PathsOK, AnyAwait
  <2>2. PathsOK'
    BY <1>14 DEF BluetoothTurns, CallsOK, PathsOK
  <2> QED
    BY <2>1, <2>2
<1> QED
  BY <1>1, <1>2, <1>3, <1>4, <1>5, <1>6, <1>7, <1>8, <1>9, <1>10, <1>11, <1>12, <1>13, <1>14 DEF RxNext, Calls

\* A call that goes on is the only one.
LEMMA CallKeeps ==
  ASSUME RxTypes, AsCalled, ~overlap', Calls
  PROVE  AsCalled'
<1> USE DEF RxTypes, CallsOK, PathsOK, To, QueuePaths, Awaits, scanner, outside
<1>1. ASSUME NEW t \in Toggle, SetPhoneRx(t) PROVE AsCalled'
  <2>1. CallsAre'
    <3>1. \A u \in Toggle : ~Under(u)
      BY <1>1 DEF SetPhoneRx
    <3>2. rxOn = phoneRx /\ hears = rxOn
      BY <3>1 DEF AsCalled, CallsAre
    <3>3. /\ calls' = [calls EXCEPT ![t] = IF phoneRx' THEN "start" ELSE "stop"]
          /\ phoneRx' = ~phoneRx /\ rxOn' = rxOn /\ hears' = hears
      BY <1>1 DEF SetPhoneRx
    <3>4. \A u \in Toggle \ {t} : calls'[u] \in {"none", "done"}
      BY <3>1, <3>3 DEF Under
    <3>5. calls'[t] = IF phoneRx' THEN "start" ELSE "stop"
      BY <3>3
    <3>6. rxOn' = ~phoneRx'
      BY <3>2, <3>3
    <3> QED
      BY <3>2, <3>3, <3>4, <3>5, <3>6 DEF CallsAre, Under, Leaving
  <2>2. OffIsStill'
    BY <1>1 DEF SetPhoneRx, AsCalled, CallsAre, OffIsStill, NoneAt, Leaving, Under
  <2>3. PathIs'
    BY <1>1 DEF SetPhoneRx, AsCalled, CallsAre, OffIsStill, PathIs, NoneAt, Under, Leaving
  <2>4. PathWanted'
    BY <1>1 DEF SetPhoneRx, AsCalled, CallsAre, OffIsStill, PathWanted, Leaving
  <2> QED
    BY <2>1, <2>2, <2>3, <2>4 DEF AsCalled
<1>2. ASSUME NEW t \in Toggle, StartPhoneRx(t) PROVE AsCalled'
  <2>1. CallsAre'
    BY <1>2 DEF StartPhoneRx, AsCalled, CallsAre, Under, Leaving
  <2>2. OffIsStill'
    BY <1>2 DEF StartPhoneRx, AsCalled, CallsAre, OffIsStill, NoneAt, Leaving, Under
  <2>3. PathIs'
    BY <1>2 DEF StartPhoneRx, AsCalled, CallsAre, OffIsStill, PathIs, NoneAt, Under, Leaving
  <2>4. PathWanted'
    BY <1>2 DEF StartPhoneRx, AsCalled, CallsAre, OffIsStill, PathWanted, Leaving
  <2> QED
    BY <2>1, <2>2, <2>3, <2>4 DEF AsCalled
<1>3. ASSUME NEW t \in Toggle, StartRx(t) PROVE AsCalled'
  <2>1. CallsAre'
    BY <1>3 DEF StartRx, AsCalled, CallsAre, Under, Leaving
  <2>2. OffIsStill'
    BY <1>3 DEF StartRx, AsCalled, CallsAre, OffIsStill, NoneAt, Leaving, Under
  <2>3. PathIs'
    BY <1>3 DEF StartRx, AsCalled, CallsAre, OffIsStill, PathIs, NoneAt, Under, Leaving
  <2>4. PathWanted'
    <3>1. NoneAt(Leaving) /\ ~rxOn
      BY <1>3 DEF StartRx, AsCalled, CallsAre, Under, NoneAt, Leaving
    <3>2. paths.done = paths.queued /\ path = "ready"
      BY <3>1 DEF AsCalled, OffIsStill
    <3>3. paths' = [paths EXCEPT !.queued = @ + 1] /\ path' = path
      BY <1>3, <3>1 DEF StartRx
    <3> QED
      BY <3>2, <3>3 DEF PathWanted
  <2> QED
    BY <2>1, <2>2, <2>3, <2>4 DEF AsCalled
<1>4. ASSUME NEW t \in Toggle, StopRx(t) PROVE AsCalled'
  <2>1. CallsAre'
    BY <1>4 DEF StopRx, AsCalled, CallsAre, Under, Leaving
  <2>2. OffIsStill'
    BY <1>4 DEF StopRx, AsCalled, CallsAre, OffIsStill, NoneAt, Leaving, Under
  <2>3. PathIs'
    BY <1>4 DEF StopRx, AsCalled, CallsAre, OffIsStill, PathIs, NoneAt, Under, Leaving
  <2>4. PathWanted'
    BY <1>4 DEF StopRx, AsCalled, CallsAre, OffIsStill, PathWanted, Leaving
  <2> QED
    BY <2>1, <2>2, <2>3, <2>4 DEF AsCalled
<1>5. ASSUME NEW t \in Toggle, AwaitPaths(t) PROVE AsCalled'
  <2>1. CallsAre'
    BY <1>5 DEF AwaitPaths, AsCalled, CallsAre, Under, Leaving
  <2>2. OffIsStill'
    BY <1>5 DEF AwaitPaths, AsCalled, CallsAre, OffIsStill, NoneAt, Leaving, Under
  <2>3. PathIs'
    BY <1>5 DEF AwaitPaths, AsCalled, CallsAre, OffIsStill, PathIs, NoneAt, Under, Leaving
  <2>4. PathWanted'
    BY <1>5 DEF AwaitPaths, AsCalled, CallsAre, OffIsStill, PathWanted, Leaving
  <2> QED
    BY <2>1, <2>2, <2>3, <2>4 DEF AsCalled
<1>6. ASSUME NEW t \in Toggle, StopScanner(t) PROVE AsCalled'
  <2>1. CallsAre'
    BY <1>6 DEF StopScanner, AsCalled, CallsAre, Under, Leaving
  <2>2. OffIsStill'
    BY <1>6 DEF StopScanner, AsCalled, CallsAre, OffIsStill, NoneAt, Leaving, Under
  <2>3. PathIs'
    BY <1>6 DEF StopScanner, AsCalled, CallsAre, OffIsStill, PathIs, NoneAt, Under, Leaving
  <2>4. PathWanted'
    BY <1>6 DEF StopScanner, AsCalled, CallsAre, OffIsStill, PathWanted, Leaving
  <2> QED
    BY <2>1, <2>2, <2>3, <2>4 DEF AsCalled
<1>7. ASSUME NEW t \in Toggle, ReleaseLease(t) PROVE AsCalled'
  <2>1. CallsAre'
    BY <1>7 DEF ReleaseLease, AsCalled, CallsAre, Under, Leaving
  <2>2. OffIsStill'
    BY <1>7 DEF ReleaseLease, AsCalled, CallsAre, OffIsStill, NoneAt, Leaving, Under
  <2>3. PathIs'
    BY <1>7 DEF ReleaseLease, AsCalled, CallsAre, OffIsStill, PathIs, NoneAt, Under, Leaving
  <2>4. PathWanted'
    BY <1>7 DEF ReleaseLease, AsCalled, CallsAre, OffIsStill, PathWanted, Leaving
  <2> QED
    BY <2>1, <2>2, <2>3, <2>4 DEF AsCalled
<1>8. ASSUME NEW t \in Toggle, NoteStopped(t) PROVE AsCalled'
  <2>1. CallsAre'
    BY <1>8 DEF NoteStopped, AsCalled, CallsAre, Under, Leaving
  <2>2. OffIsStill'
    BY <1>8 DEF NoteStopped, AsCalled, CallsAre, OffIsStill, NoneAt, Leaving, Under
  <2>3. PathIs'
    BY <1>8 DEF NoteStopped, AsCalled, CallsAre, OffIsStill, PathIs, NoneAt, Under, Leaving
  <2>4. PathWanted'
    BY <1>8 DEF NoteStopped, AsCalled, CallsAre, OffIsStill, PathWanted, Leaving
  <2> QED
    BY <2>1, <2>2, <2>3, <2>4 DEF AsCalled
<1>9. ASSUME NEW t \in Toggle, StopThrows(t) PROVE AsCalled'
  <2>1. CallsAre'
    BY <1>9 DEF StopThrows, AsCalled, CallsAre, Under, Leaving
  <2>2. OffIsStill'
    BY <1>9 DEF StopThrows, AsCalled, CallsAre, OffIsStill, NoneAt, Leaving, Under
  <2>3. PathIs'
    BY <1>9 DEF StopThrows, AsCalled, CallsAre, OffIsStill, PathIs, NoneAt, Under, Leaving
  <2>4. PathWanted'
    BY <1>9 DEF StopThrows, AsCalled, CallsAre, OffIsStill, PathWanted, Leaving
  <2> QED
    BY <2>1, <2>2, <2>3, <2>4 DEF AsCalled
<1> QED
  BY <1>1, <1>2, <1>3, <1>4, <1>5, <1>6, <1>7, <1>8, <1>9 DEF Calls

\* The paths, the policy and the adapter.
LEMMA PathKeeps ==
  ASSUME RxTypes, AsCalled, SyncPaths \/ LeaseAnswered \/ PathStopped \/ ApplyPolicy \/ BluetoothTurns
  PROVE  AsCalled'
<1> USE DEF RxTypes, CallsOK, PathsOK, QueuePaths, PathDone, scanner, outside
<1>1. CASE SyncPaths
  <2>1. CallsAre'
    BY <1>1 DEF SyncPaths, AsCalled, CallsAre, Under
  <2>2. OffIsStill'
    BY <1>1 DEF SyncPaths, AsCalled, CallsAre, OffIsStill, PathIs, NoneAt, Leaving
  <2>3. PathIs'
    BY <1>1 DEF SyncPaths, AsCalled, CallsAre, OffIsStill, PathIs, NoneAt, Leaving
  <2>4. PathWanted'
    BY <1>1 DEF SyncPaths, AsCalled, CallsAre, OffIsStill, PathIs, PathWanted, NoneAt, Leaving
  <2> QED
    BY <2>1, <2>2, <2>3, <2>4 DEF AsCalled
<1>2. CASE LeaseAnswered
  <2>1. CallsAre'
    BY <1>2 DEF LeaseAnswered, AsCalled, CallsAre, Under
  <2>2. OffIsStill'
    BY <1>2 DEF LeaseAnswered, AsCalled, CallsAre, OffIsStill, PathIs, NoneAt, Leaving
  <2>3. PathIs'
    <3>1. path' = "ready" /\ calls' = calls /\ listens /\ ~bleOn
      BY <1>2 DEF LeaseAnswered, AsCalled, PathIs
    <3>2. \/ rxLease' = "held" /\ bleOn' /\ listens'
          \/ rxLease' = "none" /\ ~bleOn'
      BY <1>2, <3>1 DEF LeaseAnswered
    <3>3. path' # "stopping" /\ path' # "asking"
      BY <3>1
    <3> QED
      BY <3>2, <3>3 DEF PathIs
  <2>4. PathWanted'
    BY <1>2 DEF LeaseAnswered, AsCalled, CallsAre, OffIsStill, PathIs, PathWanted, NoneAt, Leaving
  <2> QED
    BY <2>1, <2>2, <2>3, <2>4 DEF AsCalled
<1>3. CASE PathStopped
  <2>1. CallsAre'
    BY <1>3 DEF PathStopped, AsCalled, CallsAre, Under
  <2>2. OffIsStill'
    BY <1>3 DEF PathStopped, AsCalled, CallsAre, OffIsStill, PathIs, NoneAt, Leaving
  <2>3. PathIs'
    BY <1>3 DEF PathStopped, AsCalled, CallsAre, OffIsStill, PathIs, NoneAt, Leaving
  <2>4. PathWanted'
    BY <1>3 DEF PathStopped, AsCalled, CallsAre, OffIsStill, PathIs, PathWanted, NoneAt, Leaving
  <2> QED
    BY <2>1, <2>2, <2>3, <2>4 DEF AsCalled
<1>4. CASE ApplyPolicy
  <2>1. CallsAre'
    BY <1>4 DEF ApplyPolicy, AsCalled, CallsAre, Under
  <2>2. OffIsStill'
    BY <1>4 DEF ApplyPolicy, AsCalled, CallsAre, OffIsStill, PathIs, NoneAt, Leaving
  <2>3. PathIs'
    BY <1>4 DEF ApplyPolicy, AsCalled, CallsAre, OffIsStill, PathIs, NoneAt, Leaving
  <2>4. PathWanted'
    BY <1>4 DEF ApplyPolicy, AsCalled, CallsAre, OffIsStill, PathIs, PathWanted, NoneAt, Leaving
  <2> QED
    BY <2>1, <2>2, <2>3, <2>4 DEF AsCalled
<1>5. CASE BluetoothTurns
  <2>1. CallsAre'
    BY <1>5 DEF BluetoothTurns, AsCalled, CallsAre, Under
  <2>2. OffIsStill'
    BY <1>5 DEF BluetoothTurns, AsCalled, CallsAre, OffIsStill, PathIs, NoneAt, Leaving
  <2>3. PathIs'
    BY <1>5 DEF BluetoothTurns, AsCalled, CallsAre, OffIsStill, PathIs, NoneAt, Leaving
  <2>4. PathWanted'
    BY <1>5 DEF BluetoothTurns, AsCalled, CallsAre, OffIsStill, PathIs, PathWanted, NoneAt, Leaving
  <2> QED
    BY <2>1, <2>2, <2>3, <2>4 DEF AsCalled
<1> QED
  BY <1>1, <1>2, <1>3, <1>4, <1>5

LEMMA QuietAsSet == RxInv => RxAsSet
BY DEF RxInv, AsCalled, RxTypes, CallsOK, PathsOK, CallsAre, OffIsStill, PathIs, PathWanted, NoneAt, RxAsSet, RxQuiet, Under, Leaving

\* Once every call has returned the receiver is as its setting, the power
\* policy and the adapter say (setPhoneRx, NativeRxService.start and stop,
\* BleRidScanner), in whatever order those changed at their awaits, for every
\* number of changes; but for a call begun before another had returned.
THEOREM PhoneReceivesAsSet == RxSpec => []RxAsSet
<1>1. RxInit => RxInv
  BY RxInitially
<1>2. RxInv /\ [RxNext]_rxVars => RxInv'
  <2> SUFFICES ASSUME RxInv, [RxNext]_rxVars PROVE RxInv'
    OBVIOUS
  <2>1. CASE UNCHANGED rxVars
    BY <2>1 DEF rxVars, RxInv, RxTypes, AsCalled, CallsOK, PathsOK, CallsAre, OffIsStill, PathIs, PathWanted, NoneAt, Under
  <2>2. CASE RxNext
    <3>1. RxTypes'
      BY <2>2, RxTypesKept DEF RxInv
    <3>2. overlap => overlap'
      BY <2>2 DEF RxNext, Calls, SetPhoneRx, StartPhoneRx, StartRx, StopRx, AwaitPaths, StopScanner, ReleaseLease, NoteStopped, StopThrows, SyncPaths, LeaseAnswered, PathStopped, ApplyPolicy, BluetoothTurns
    <3>3. ~overlap' => AsCalled'
      BY <2>2, <3>2, CallKeeps, PathKeeps DEF RxInv, RxNext
    <3> QED
      BY <3>1, <3>3 DEF RxInv
  <2> QED
    BY <2>1, <2>2
<1> QED
  BY <1>1, <1>2, QuietAsSet, PTL DEF RxSpec

\* The types of the receiver and its paths.
THEOREM RxTyped == RxSpec => []RxTypeOK
<1>1. RxTypes /\ [RxNext]_rxVars => RxTypes'
  <2> SUFFICES ASSUME RxTypes, [RxNext]_rxVars PROVE RxTypes'
    OBVIOUS
  <2>1. CASE UNCHANGED rxVars
    BY <2>1 DEF rxVars, RxTypes, CallsOK, PathsOK
  <2>2. CASE RxNext
    BY <2>2, RxTypesKept
  <2> QED
    BY <2>1, <2>2
<1>2. RxInit => RxTypes
  BY RxInitially DEF RxInv
<1>3. RxTypes => RxTypeOK
  BY DEF RxTypes, PathsOK, RxTypeOK
<1> QED
  BY <1>1, <1>2, <1>3, PTL DEF RxSpec

-----------------------------------------------------------------------------
(***************************************************************************)
(* That a drone is one contact, and no contact two drones (OneContact), for *)
(* every set of drones with whatever IDs and addresses, of which others may *)
(* share some.                                                             *)
(*                                                                         *)
(* The argument: a frame changes the contact it is of, that of its address, *)
(* and what leads to them (Heard), and all of those are of the frame's drone *)
(* if that one shares nothing (KeysApart). So the drones that share nothing *)
(* keep apart (Apart). Of one with a single address the contact is what the *)
(* address leads to; of one with a single ID the addresses of a contact are *)
(* all led to it, so the contact that is folded leaves nothing behind.      *)
(***************************************************************************)
ContactRecord == [uasId : Id \union {Unsaid}, macs : SUBSET Mac, last : Nat]
NameOf(k) == IF k \in Id THEN k ELSE Unsaid

\* The contacts C and the index I are of each other.
Typed(C, I) ==
  /\ DOMAIN C \subseteq Id \union Mac /\ DOMAIN I \subseteq Mac
  /\ \A k \in DOMAIN C : C[k] \in ContactRecord /\ C[k].uasId = NameOf(k) /\ C[k].macs # {}

LedTo(C, I) == \A m \in DOMAIN I : I[m] \in DOMAIN C /\ m \in C[I[m]].macs
ByAddress(C, I) == \A m \in DOMAIN C : m \in Mac => C[m].macs = {m} /\ m \in DOMAIN I /\ I[m] = m
Joined(C, I) == Typed(C, I) /\ LedTo(C, I) /\ ByAddress(C, I)

\* The contacts of a drone that shares nothing have its addresses, the others
\* have none of them.
Apart(d, C) ==
  \A k \in DOMAIN C :
    /\ k \in Names(d) => C[k].macs \subseteq AddrsOf(d)
    /\ k \notin Names(d) => C[k].macs \cap AddrsOf(d) = {}

ByOneAddress(d, C, I) ==
  IsSingle(AddrsOf(d)) => \A k \in DOMAIN C : k \in Names(d) => \A m \in AddrsOf(d) : m \in DOMAIN I /\ I[m] = k

ByOneId(d, C, I, n) ==
  IsSingle(IdsOf(d)) => \A m \in AddrsOf(d) :
    /\ n[m] # Unsaid => n[m] \in IdsOf(d) /\ m \in DOMAIN I /\ I[m] = n[m]
    /\ \A k \in DOMAIN C : m \in C[k].macs => m \in DOMAIN I /\ I[m] = k

Separate(d, C, I, n) == Apart(d, C) /\ ByOneAddress(d, C, I) /\ ByOneId(d, C, I, n)

ContactInv ==
  /\ Joined(contacts, macIndex) /\ second \in Nat /\ \A k \in DOMAIN contacts : contacts[k].last <= second
  /\ named \in [Mac -> Id \union {Unsaid}]
  /\ \A d \in Drone : Alone(d) => Separate(d, contacts, macIndex, named)

\* What a frame from the address m does: the contact key is its, the contacts
\* in gone are folded into that one.
Heard(C, I, gone, key, m, C1, I1) ==
  /\ key \notin gone /\ gone \subseteq DOMAIN C /\ key \in Id \union Mac
  /\ DOMAIN C1 = (DOMAIN C \ gone) \union {key}
  /\ C1[key] \in ContactRecord /\ C1[key].uasId = NameOf(key)
  /\ \A a : a \in C1[key].macs <=> a = m \/ (key \in DOMAIN C /\ a \in C[key].macs) \/ \E g \in gone : a \in C[g].macs
  /\ \A k \in DOMAIN C \ gone : k # key => C1[k] = C[k]
  /\ DOMAIN I1 = DOMAIN I \union {m} /\ I1[m] = key
  /\ \A a \in DOMAIN I : a # m => I1[a] = IF I[a] \in gone THEN key ELSE I[a]
  /\ gone # {} => m \in DOMAIN I /\ gone = {I[m]} /\ key \in Id
  /\ key \notin Id => key = IF m \in DOMAIN I THEN I[m] ELSE m
  /\ gone = {} /\ m \in DOMAIN I => I[m] = key \/ (I[m] \in Id /\ key \in DOMAIN C)

-----------------------------------------------------------------------------
LEMMA IdsAndAddresses ==
  ASSUME NEW d \in Drone
  PROVE  IdsOf(d) \subseteq Id /\ AddrsOf(d) \subseteq Mac
BY DEF Id, Mac

LEMMA JoinedByFrame ==
  ASSUME NEW C, NEW I, NEW gone, NEW key, NEW m \in Mac, NEW C1, NEW I1,
         Joined(C, I), Heard(C, I, gone, key, m, C1, I1)
  PROVE  Joined(C1, I1)
<1>1. Typed(C1, I1)
  <2>1. DOMAIN C1 \subseteq Id \union Mac /\ DOMAIN I1 \subseteq Mac
    BY DEF Heard, Joined, Typed
  <2>2. ASSUME NEW k \in DOMAIN C1
        PROVE  C1[k] \in ContactRecord /\ C1[k].uasId = NameOf(k) /\ C1[k].macs # {}
    <3>1. CASE k = key
      <4>1. m \in C1[key].macs
        BY DEF Heard
      <4> QED
        BY <3>1, <4>1 DEF Heard
    <3>2. CASE k # key
      BY <2>2, <3>2 DEF Heard, Joined, Typed
    <3> QED
      BY <3>1, <3>2
  <2> QED
    BY <2>1, <2>2 DEF Typed
<1>2. LedTo(C1, I1)
  <2> SUFFICES ASSUME NEW a \in DOMAIN I1
               PROVE  I1[a] \in DOMAIN C1 /\ a \in C1[I1[a]].macs
    BY DEF LedTo
  <2>1. CASE a = m
    BY <2>1 DEF Heard
  <2>2. CASE a # m /\ I[a] \in gone
    <3>1. a \in DOMAIN I /\ I1[a] = key /\ a \in C[I[a]].macs
      BY <2>2 DEF Heard, Joined, LedTo
    <3>2. a \in C1[key].macs
      BY <2>2, <3>1 DEF Heard
    <3> QED
      BY <3>1, <3>2 DEF Heard
  <2>3. CASE a # m /\ I[a] \notin gone
    <3>1. a \in DOMAIN I /\ I1[a] = I[a] /\ I[a] \in DOMAIN C /\ a \in C[I[a]].macs
      BY <2>3 DEF Heard, Joined, LedTo
    <3>2. I[a] \in DOMAIN C1
      BY <2>3, <3>1 DEF Heard
    <3>3. a \in C1[I[a]].macs
      BY <2>3, <3>1 DEF Heard
    <3> QED
      BY <3>1, <3>2, <3>3
  <2> QED
    BY <2>1, <2>2, <2>3
<1>3. ByAddress(C1, I1)
  <2> SUFFICES ASSUME NEW x \in DOMAIN C1, x \in Mac
               PROVE  C1[x].macs = {x} /\ x \in DOMAIN I1 /\ I1[x] = x
    BY DEF ByAddress
  <2>1. x \notin Id
    BY ContactAssumption
  <2>2. CASE x = key
    <3>1. gone = {} /\ key = IF m \in DOMAIN I THEN I[m] ELSE m
      BY <2>1, <2>2 DEF Heard
    <3>2. key = m /\ (key \in DOMAIN C => C[key].macs = {m})
      <4>1. CASE m \in DOMAIN I
        BY <2>2, <3>1, <4>1 DEF Joined, LedTo, ByAddress
      <4>2. CASE m \notin DOMAIN I
        BY <3>1, <4>2 DEF Joined, ByAddress
      <4> QED
        BY <4>1, <4>2
    <3>3. \A a : a \in C1[key].macs <=> a = m
      BY <3>1, <3>2 DEF Heard
    <3> QED
      BY <2>2, <3>2, <3>3 DEF Heard
  <2>3. CASE x # key
    <3>1. x \in DOMAIN C /\ x \notin gone /\ C1[x] = C[x]
      BY <2>3 DEF Heard
    <3>2. C[x].macs = {x} /\ x \in DOMAIN I /\ I[x] = x
      BY <3>1 DEF Joined, ByAddress
    <3>3. x # m
      <4> SUFFICES ASSUME x = m PROVE FALSE
        OBVIOUS
      <4>1. gone = {}
        BY <3>1, <3>2 DEF Heard
      <4> QED
        BY <2>1, <2>3, <3>2, <4>1 DEF Heard
    <3> QED
      BY <3>1, <3>2, <3>3 DEF Heard
  <2> QED
    BY <2>2, <2>3
<1> QED
  BY <1>1, <1>2, <1>3 DEF Joined

\* Of a drone that shares nothing, its own frames change only its own contacts,
\* and those of others only theirs.
LEMMA KeysApart ==
  ASSUME NEW C, NEW I, NEW gone, NEW key, NEW m, NEW C1, NEW I1, NEW e \in Drone, NEW d \in Drone,
         Joined(C, I), Heard(C, I, gone, key, m, C1, I1), m \in AddrsOf(e),
         key \in IdsOf(e) \/ key = IF m \in DOMAIN I THEN I[m] ELSE m,
         Alone(d), Apart(d, C)
  PROVE  /\ m \in AddrsOf(d) => e = d /\ key \in Names(d) /\ gone \subseteq Names(d)
         /\ m \notin AddrsOf(d) => e # d /\ key \notin Names(d) /\ gone \cap Names(d) = {}
<1>1. IdsOf(e) \subseteq Id /\ IdsOf(d) \subseteq Id /\ AddrsOf(e) \subseteq Mac /\ AddrsOf(d) \subseteq Mac /\ Id \cap Mac = {}
  BY IdsAndAddresses, ContactAssumption
<1>2. m \in DOMAIN I => I[m] \in DOMAIN C /\ m \in C[I[m]].macs
  BY DEF Joined, LedTo
<1>3. m \in DOMAIN I => (m \in AddrsOf(d) <=> I[m] \in Names(d))
  BY <1>2 DEF Apart
<1>4. gone \subseteq {I[m]} /\ (gone # {} => m \in DOMAIN I)
  BY DEF Heard
<1>5. e # d => AddrsOf(d) \cap AddrsOf(e) = {} /\ IdsOf(d) \cap IdsOf(e) = {}
  BY DEF Alone
<1> QED
  BY <1>1, <1>3, <1>4, <1>5 DEF Names

LEMMA SeparateByFrame ==
  ASSUME NEW C, NEW I, NEW gone, NEW key, NEW m \in Mac, NEW C1, NEW I1, NEW n, NEW n1, NEW e \in Drone, NEW d \in Drone,
         Joined(C, I), Heard(C, I, gone, key, m, C1, I1), m \in AddrsOf(e),
         Alone(d), Separate(d, C, I, n),
         \A a \in Mac : a # m => n1[a] = n[a],
         (key \in IdsOf(e) /\ n1[m] = key) \/ ((key = IF m \in DOMAIN I THEN I[m] ELSE m) /\ n1[m] = n[m])
  PROVE  Separate(d, C1, I1, n1)
<1>1. /\ m \in AddrsOf(d) => e = d /\ key \in Names(d) /\ gone \subseteq Names(d)
      /\ m \notin AddrsOf(d) => e # d /\ key \notin Names(d) /\ gone \cap Names(d) = {}
  BY KeysApart DEF Separate
<1>2. IdsOf(d) \subseteq Id /\ AddrsOf(d) \subseteq Mac /\ Id \cap Mac = {} /\ Unsaid \notin Id
  BY IdsAndAddresses, ContactAssumption
<1>3. Apart(d, C1)
  <2> SUFFICES ASSUME NEW k \in DOMAIN C1
               PROVE  /\ k \in Names(d) => C1[k].macs \subseteq AddrsOf(d)
                      /\ k \notin Names(d) => C1[k].macs \cap AddrsOf(d) = {}
    BY DEF Apart
  <2>1. CASE k # key
    BY <2>1 DEF Separate, Apart, Heard
  <2>2. CASE k = key /\ m \in AddrsOf(d)
    <3>1. key \in DOMAIN C => C[key].macs \subseteq AddrsOf(d)
      BY <1>1, <2>2 DEF Separate, Apart
    <3>2. \A g \in gone : C[g].macs \subseteq AddrsOf(d)
      BY <1>1, <2>2 DEF Separate, Apart, Heard
    <3>3. \A a \in C1[key].macs : a \in AddrsOf(d)
      BY <2>2, <3>1, <3>2 DEF Heard
    <3> QED
      BY <1>1, <2>2, <3>3
  <2>3. CASE k = key /\ m \notin AddrsOf(d)
    <3>1. key \in DOMAIN C => C[key].macs \cap AddrsOf(d) = {}
      BY <1>1, <2>3 DEF Separate, Apart
    <3>2. \A g \in gone : C[g].macs \cap AddrsOf(d) = {}
      BY <1>1, <2>3 DEF Separate, Apart, Heard
    <3>3. \A a \in C1[key].macs : a \notin AddrsOf(d)
      BY <2>3, <3>1, <3>2 DEF Heard
    <3> QED
      BY <1>1, <2>3, <3>3
  <2> QED
    BY <2>1, <2>2, <2>3
<1>4. ByOneAddress(d, C1, I1)
  <2> SUFFICES ASSUME IsSingle(AddrsOf(d)), NEW k \in DOMAIN C1, k \in Names(d), NEW a \in AddrsOf(d)
               PROVE  a \in DOMAIN I1 /\ I1[a] = k
    BY DEF ByOneAddress
  <2>1. \A x \in DOMAIN C : x \in Names(d) => a \in DOMAIN I /\ I[a] = x
    BY DEF Separate, ByOneAddress
  <2>2. CASE m \notin AddrsOf(d)
    <3>1. k # key /\ k \in DOMAIN C /\ k \notin gone /\ a # m
      BY <1>1, <2>2 DEF Heard
    <3> QED
      BY <2>1, <3>1 DEF Heard
  <2>3. CASE m \in AddrsOf(d)
    <3>1. a = m
      BY <2>3 DEF IsSingle
    <3>2. k = key
      <4> SUFFICES ASSUME k # key PROVE FALSE
        OBVIOUS
      <4>1. k \in DOMAIN C /\ k \notin gone
        BY DEF Heard
      <4>2. m \in DOMAIN I /\ I[m] = k
        BY <2>1, <3>1, <4>1
      <4>3. gone = {}
        BY <4>1, <4>2 DEF Heard
      <4>4. key \in DOMAIN C
        BY <4>2, <4>3 DEF Heard
      <4>5. I[m] = key
        BY <1>1, <2>1, <2>3, <3>1, <4>4
      <4> QED
        BY <4>2, <4>5
    <3> QED
      BY <3>1, <3>2 DEF Heard
  <2> QED
    BY <2>2, <2>3
<1>5. ByOneId(d, C1, I1, n1)
  <2> SUFFICES ASSUME IsSingle(IdsOf(d)), NEW a \in AddrsOf(d)
               PROVE  /\ n1[a] # Unsaid => n1[a] \in IdsOf(d) /\ a \in DOMAIN I1 /\ I1[a] = n1[a]
                      /\ \A k \in DOMAIN C1 : a \in C1[k].macs => a \in DOMAIN I1 /\ I1[a] = k
    BY DEF ByOneId
  <2>1. /\ n[a] # Unsaid => n[a] \in IdsOf(d) /\ a \in DOMAIN I /\ I[a] = n[a]
        /\ \A k \in DOMAIN C : a \in C[k].macs => a \in DOMAIN I /\ I[a] = k
    BY DEF Separate, ByOneId
  <2>2. ASSUME n1[a] # Unsaid
        PROVE  n1[a] \in IdsOf(d) /\ a \in DOMAIN I1 /\ I1[a] = n1[a]
    <3>1. CASE a = m /\ key \in IdsOf(e) /\ n1[m] = key
      <4>1. e = d
        BY <1>1, <2>2, <3>1
      <4> QED
        BY <3>1, <4>1 DEF Heard
    <3>2. CASE a = m /\ key = (IF m \in DOMAIN I THEN I[m] ELSE m) /\ n1[m] = n[m]
      <4>1. m \in DOMAIN I /\ key = I[m] /\ I[m] = n[m] /\ n[m] \in IdsOf(d)
        BY <2>1, <2>2, <3>2
      <4> QED
        BY <3>2, <4>1 DEF Heard
    <3>3. CASE a # m
      <4>1. n1[a] = n[a] /\ n[a] \in IdsOf(d) /\ a \in DOMAIN I /\ I[a] = n[a]
        BY <1>2, <2>1, <2>2, <3>3
      <4>2. I[a] \notin gone
        <5> SUFFICES ASSUME I[a] \in gone PROVE FALSE
          OBVIOUS
        <5>1. I[a] \in Names(d) /\ m \in AddrsOf(d)
          BY <1>1, <4>1 DEF Names
        <5>2. key \in Id /\ key \in Names(d) /\ key # I[a]
          BY <1>1, <5>1 DEF Heard
        <5>3. key \in IdsOf(d)
          BY <1>2, <5>2 DEF Names
        <5> QED
          BY <4>1, <5>2, <5>3 DEF IsSingle
      <4> QED
        BY <3>3, <4>1, <4>2 DEF Heard
    <3> QED
      BY <3>1, <3>2, <3>3
  <2>3. ASSUME NEW k \in DOMAIN C1, a \in C1[k].macs
        PROVE  a \in DOMAIN I1 /\ I1[a] = k
    <3>1. CASE a = m /\ k = key
      BY <3>1 DEF Heard
    <3>2. CASE a # m /\ k = key
      <4>1. (key \in DOMAIN C /\ a \in C[key].macs) \/ \E g \in gone : a \in C[g].macs
        BY <2>3, <3>2 DEF Heard
      <4>2. CASE key \in DOMAIN C /\ a \in C[key].macs
        <5>1. a \in DOMAIN I /\ I[a] = key
          BY <2>1, <4>2
        <5> QED
          BY <3>2, <5>1 DEF Heard
      <4>3. CASE \E g \in gone : a \in C[g].macs
        <5>1. PICK g \in gone : a \in C[g].macs
          BY <4>3
        <5>2. g \in DOMAIN C
          BY DEF Heard
        <5>3. a \in DOMAIN I /\ I[a] = g
          BY <2>1, <5>1, <5>2
        <5> QED
          BY <3>2, <5>3 DEF Heard
      <4> QED
        BY <4>1, <4>2, <4>3
    <3>3. CASE k # key
      <4>1. k \in DOMAIN C /\ k \notin gone /\ C1[k] = C[k]
        BY <3>3 DEF Heard
      <4>2. a \in DOMAIN I /\ I[a] = k
        BY <2>1, <2>3, <4>1
      <4>3. a # m
        <5> SUFFICES ASSUME a = m PROVE FALSE
          OBVIOUS
        <5>1. gone = {}
          BY <4>1, <4>2 DEF Heard
        <5>2. key \in DOMAIN C /\ k \in Id
          BY <3>3, <4>2, <5>1 DEF Heard
        <5>3. k \in Names(d) /\ key \in Names(d)
          BY <1>1, <2>3, <4>1 DEF Separate, Apart
        <5>4. key \in Id
          BY <3>3, <4>2 DEF Heard
        <5>5. k \in IdsOf(d) /\ key \in IdsOf(d)
          BY <1>2, <5>2, <5>3, <5>4 DEF Names
        <5> QED
          BY <3>3, <5>5 DEF IsSingle
      <4> QED
        BY <4>1, <4>2, <4>3 DEF Heard
    <3> QED
      BY <3>1, <3>2, <3>3
  <2> QED
    BY <2>2, <2>3
<1> QED
  BY <1>3, <1>4, <1>5 DEF Separate

-----------------------------------------------------------------------------
LEMMA ContactInitially == ContactInit => ContactInv
<1> SUFFICES ASSUME ContactInit PROVE ContactInv
  OBVIOUS
<1>1. DOMAIN contacts = {} /\ DOMAIN macIndex = {} /\ named = [m \in Mac |-> Unsaid] /\ second = 0
  BY DEF ContactInit
<1>2. \A d \in Drone : \A m \in AddrsOf(d) : named[m] = Unsaid
  BY <1>1, IdsAndAddresses
<1>3. named \in [Mac -> Id \union {Unsaid}]
  BY <1>1
<1> QED
  BY <1>1, <1>2, <1>3 DEF ContactInv, Joined, Typed, LedTo, ByAddress, Separate, Apart, ByOneAddress, ByOneId

LEMMA AbsorbedContact ==
  ASSUME NEW c \in ContactRecord, NEW o \in ContactRecord
  PROVE  Absorbed(c, o) \in ContactRecord /\ Absorbed(c, o).macs = c.macs \union o.macs
<1>1. (IF o.last > c.last THEN o.last ELSE c.last) \in Nat
  BY DEF ContactRecord
<1> QED
  BY <1>1 DEF Absorbed, ContactRecord

\* ingest without a fold: the contact key is the ID's, or that of the address.
LEMMA HeardPlain ==
  ASSUME ContactInv, NEW m \in Mac, NEW key \in Id \union Mac, NEW C1, NEW I1, NEW c \in ContactRecord,
         C1 = Entered(contacts, key, c), I1 = Entered(macIndex, m, key),
         c.macs = (IF key \in DOMAIN contacts THEN contacts[key].macs ELSE {}) \union {m},
         c.uasId = NameOf(key), c.last = second,
         key \notin Id => key = IF m \in DOMAIN macIndex THEN macIndex[m] ELSE m,
         m \in DOMAIN macIndex => macIndex[m] = key \/ (macIndex[m] \in Id /\ key \in DOMAIN contacts)
  PROVE  Heard(contacts, macIndex, {}, key, m, C1, I1) /\ C1[key].last = second
<1>1. DOMAIN C1 = DOMAIN contacts \union {key} /\ C1[key] = c /\ \A k \in DOMAIN contacts : k # key => C1[k] = contacts[k]
  BY DEF Entered
<1>2. DOMAIN I1 = DOMAIN macIndex \union {m} /\ I1[m] = key /\ \A a \in DOMAIN macIndex : a # m => I1[a] = macIndex[a]
  BY DEF Entered
<1>3. \A a : a \in c.macs <=> a = m \/ (key \in DOMAIN contacts /\ a \in contacts[key].macs)
  OBVIOUS
<1> QED
  BY <1>1, <1>2, <1>3 DEF Heard

\* ingest with one.
LEMMA HeardFolded ==
  ASSUME ContactInv, NEW m \in Mac, NEW id \in Id, MayFold(m, id), Hear(m, id)
  PROVE  Heard(contacts, macIndex, {macIndex[m]}, id, m, contacts', macIndex') /\ contacts'[id].last = second
<1> DEFINE prior == macIndex[m]
           into == IF id \in DOMAIN contacts THEN Absorbed(contacts[id], contacts[prior]) ELSE contacts[prior]
           C0 == Entered(Restrict(contacts, DOMAIN contacts \ {prior}), id, into)
           I0 == [a \in DOMAIN macIndex |-> IF macIndex[a] = prior THEN id ELSE macIndex[a]]
           c == [into EXCEPT !.macs = @ \union {m}, !.last = second, !.uasId = id]
<1>1. m \in DOMAIN macIndex /\ prior # id /\ prior \in DOMAIN contacts /\ id # Unsaid
  BY ContactAssumption DEF MayFold, IsPrior
<1>2. Folded(m, id) = [contacts |-> C0, index |-> I0]
  BY DEF Folded
<1>3. \A k \in DOMAIN contacts : contacts[k] \in ContactRecord
  BY DEF ContactInv, Joined, Typed
<1>4. into \in ContactRecord /\ into.macs = (IF id \in DOMAIN contacts THEN contacts[id].macs ELSE {}) \union contacts[prior].macs
  BY <1>1, <1>3, AbsorbedContact
<1>5. DOMAIN C0 = (DOMAIN contacts \ {prior}) \union {id} /\ C0[id] = into /\ \A k \in DOMAIN contacts \ {prior} : k # id => C0[k] = contacts[k]
  BY DEF Entered, Restrict
<1>6. contacts' = Entered(C0, id, c) /\ macIndex' = Entered(I0, m, id)
  <2> DEFINE at == Folded(m, id)
             was == IF id \in DOMAIN at.contacts THEN at.contacts[id] ELSE New
  <2>1. /\ contacts' = Entered(at.contacts, id, [was EXCEPT !.macs = @ \union {m}, !.last = second, !.uasId = id])
        /\ macIndex' = Entered(at.index, m, id)
    BY <1>1 DEF Hear
  <2>2. at.contacts = C0 /\ at.index = I0
    BY <1>2
  <2>3. was = into
    BY <1>5, <2>2
  <2> QED
    BY <2>1, <2>2, <2>3
<1>7. second \in Nat
  BY DEF ContactInv
<1>8. DOMAIN I0 = DOMAIN macIndex /\ \A a \in DOMAIN macIndex : I0[a] = IF macIndex[a] = prior THEN id ELSE macIndex[a]
  OBVIOUS
<1> HIDE DEF into, C0, I0
<1>9. c \in ContactRecord /\ c.macs = into.macs \union {m} /\ c.uasId = id /\ c.last = second
  BY <1>4, <1>7 DEF ContactRecord
<1>10. \A a : a \in c.macs <=> a = m \/ (id \in DOMAIN contacts /\ a \in contacts[id].macs) \/ a \in contacts[prior].macs
  BY <1>4, <1>9
<1> HIDE DEF c
<1>11. DOMAIN contacts' = (DOMAIN contacts \ {prior}) \union {id} /\ contacts'[id] = c
       /\ \A k \in DOMAIN contacts \ {prior} : k # id => contacts'[k] = contacts[k]
  BY <1>5, <1>6 DEF Entered
<1>12. DOMAIN macIndex' = DOMAIN macIndex \union {m} /\ macIndex'[m] = id
       /\ \A a \in DOMAIN macIndex : a # m => macIndex'[a] = IF macIndex[a] = prior THEN id ELSE macIndex[a]
  BY <1>6, <1>8 DEF Entered
<1> HIDE DEF prior
<1> QED
  BY <1>1, <1>9, <1>10, <1>11, <1>12 DEF Heard, NameOf, prior

LEMMA FramePreserves ==
  ASSUME ContactInv, NEW e \in Drone, NEW m \in AddrsOf(e), NEW id \in IdsOf(e) \union {Unsaid}, Hear(m, id), second' = second
  PROVE  ContactInv'
<1>1. m \in Mac /\ IdsOf(e) \subseteq Id /\ Unsaid \notin Id /\ Id \cap Mac = {}
  BY IdsAndAddresses, ContactAssumption
<1>2. /\ Joined(contacts, macIndex) /\ named \in [Mac -> Id \union {Unsaid}] /\ second \in Nat
      /\ \A k \in DOMAIN contacts : contacts[k].last <= second
      /\ \A d \in Drone : Alone(d) => Separate(d, contacts, macIndex, named)
  BY DEF ContactInv
<1>3. named' = IF id # Unsaid THEN [named EXCEPT ![m] = id] ELSE named
  BY DEF Hear
<1> DEFINE key == IF id # Unsaid THEN id ELSE IF m \in DOMAIN macIndex THEN macIndex[m] ELSE m
<1>4. key \in Id \union Mac
  BY <1>1, <1>2 DEF Joined, Typed, LedTo
<1>5. \E gone : Heard(contacts, macIndex, gone, key, m, contacts', macIndex') /\ contacts'[key].last = second
  <2>1. CASE id # Unsaid /\ MayFold(m, id)
    BY <1>1, <2>1, HeardFolded
  <2>2. CASE ~(id # Unsaid /\ MayFold(m, id))
    <3> DEFINE was == IF key \in DOMAIN contacts THEN contacts[key] ELSE New
               c == [was EXCEPT !.macs = @ \union {m}, !.last = second, !.uasId = NameOf(key)]
    <3>1. was.uasId = NameOf(key) \/ id # Unsaid
      <4> SUFFICES ASSUME id = Unsaid PROVE was.uasId = NameOf(key)
        OBVIOUS
      <4>1. CASE key \in DOMAIN contacts
        BY <1>2, <4>1 DEF Joined, Typed
      <4>2. CASE key \notin DOMAIN contacts
        <5>1. key = m
          BY <1>2, <4>2 DEF Joined, LedTo
        <5> QED
          BY <1>1, <4>2, <5>1 DEF New, NameOf
      <4> QED
        BY <4>1, <4>2
    <3>2. (IF id # Unsaid THEN id ELSE was.uasId) = NameOf(key)
      BY <1>1, <3>1 DEF NameOf
    <3>3. contacts' = Entered(contacts, key, [was EXCEPT !.macs = @ \union {m}, !.last = second, !.uasId = IF id # Unsaid THEN id ELSE @])
          /\ macIndex' = Entered(macIndex, m, key)
      BY <2>2 DEF Hear, Folded, KeyOf
    <3>4. contacts' = Entered(contacts, key, c)
      BY <3>2, <3>3
    <3>5. key \notin Id => key = IF m \in DOMAIN macIndex THEN macIndex[m] ELSE m
      BY <1>1
    <3>6. m \in DOMAIN macIndex => macIndex[m] = key \/ (macIndex[m] \in Id /\ key \in DOMAIN contacts)
      <4> SUFFICES ASSUME m \in DOMAIN macIndex, macIndex[m] # key PROVE macIndex[m] \in Id /\ key \in DOMAIN contacts
        OBVIOUS
      <4>1. id # Unsaid /\ key = id /\ ~MayFold(m, id) /\ macIndex[m] \in DOMAIN contacts
        BY <2>2, <1>2 DEF Joined, LedTo
      <4>2. id \in DOMAIN contacts /\ contacts[macIndex[m]].uasId # Unsaid
        BY <4>1 DEF MayFold, IsPrior
      <4>3. macIndex[m] \in Id
        BY <1>2, <4>1, <4>2 DEF Joined, Typed, NameOf
      <4> QED
        BY <4>1, <4>2, <4>3
    <3>7. was \in ContactRecord /\ was.macs = (IF key \in DOMAIN contacts THEN contacts[key].macs ELSE {})
      <4>1. CASE key \in DOMAIN contacts
        BY <1>2, <4>1 DEF Joined, Typed
      <4>2. CASE key \notin DOMAIN contacts
        BY <1>2, <4>2 DEF New, ContactRecord
      <4> QED
        BY <4>1, <4>2
    <3> HIDE DEF key, was
    <3>8. c \in ContactRecord /\ c.macs = was.macs \union {m} /\ c.uasId = NameOf(key) /\ c.last = second
      <4>1. NameOf(key) \in Id \union {Unsaid} /\ m \in Mac /\ second \in Nat /\ was \in ContactRecord
        BY <1>1, <1>2, <3>7 DEF NameOf
      <4> QED
        BY <4>1 DEF ContactRecord
    <3> HIDE DEF c
    <3>9. Heard(contacts, macIndex, {}, key, m, contacts', macIndex') /\ contacts'[key].last = second
      <4>1. macIndex' = Entered(macIndex, m, key) /\ contacts' = Entered(contacts, key, c)
        BY <3>3, <3>4
      <4>2. m \in Mac
        BY <1>1
      <4>3. c.macs = (IF key \in DOMAIN contacts THEN contacts[key].macs ELSE {}) \union {m}
        BY <3>7, <3>8
      <4> QED
        BY <1>4, <3>5, <3>6, <3>8, <4>1, <4>2, <4>3, HeardPlain
    <3> QED
      BY <3>9
  <2> QED
    BY <2>1, <2>2
<1>6. PICK gone : Heard(contacts, macIndex, gone, key, m, contacts', macIndex') /\ contacts'[key].last = second
  BY <1>5
<1>7. /\ \A a \in Mac : a # m => named'[a] = named[a]
      /\ named' \in [Mac -> Id \union {Unsaid}]
  BY <1>1, <1>2, <1>3
<1>8. Joined(contacts', macIndex')
  BY <1>1, <1>2, <1>6, JoinedByFrame
<1>9. ASSUME NEW k \in DOMAIN contacts' PROVE contacts'[k].last <= second'
  <2>1. CASE k = key
    BY <1>2, <1>6, <2>1
  <2>2. CASE k # key
    <3>1. k \in DOMAIN contacts /\ contacts'[k] = contacts[k]
      BY <1>6, <2>2 DEF Heard
    <3> QED
      BY <1>2, <3>1
  <2> QED
    BY <2>1, <2>2
<1>10. ASSUME NEW d \in Drone, Alone(d) PROVE Separate(d, contacts', macIndex', named')
  <2>1. CASE id # Unsaid
    <3>1. key \in IdsOf(e) /\ named'[m] = key
      BY <1>1, <1>2, <1>3, <2>1
    <3> HIDE DEF key
    <3> QED
      BY <1>1, <1>2, <1>6, <1>7, <1>10, <3>1, SeparateByFrame
  <2>2. CASE id = Unsaid
    <3>1. named' = named /\ key = IF m \in DOMAIN macIndex THEN macIndex[m] ELSE m
      BY <1>3, <2>2
    <3> HIDE DEF key
    <3> QED
      BY <1>1, <1>2, <1>6, <1>7, <1>10, <3>1, SeparateByFrame
  <2> QED
    BY <2>1, <2>2
<1> QED
  BY <1>2, <1>7, <1>8, <1>9, <1>10 DEF ContactInv, Alone

\* What expires goes from both.
LEMMA ExpirePreserves == ContactInv /\ Expire => ContactInv'
<1> SUFFICES ASSUME ContactInv, Expire
             PROVE  ContactInv'
  OBVIOUS
<1> DEFINE kept == {k \in DOMAIN contacts : second' - contacts[k].last <= ExpireAfter}
<1>1. /\ contacts' = Restrict(contacts, kept)
      /\ macIndex' = Restrict(macIndex, {m \in DOMAIN macIndex : macIndex[m] \in kept})
      /\ named' = [m \in Mac |-> IF named[m] \in kept THEN named[m] ELSE Unsaid]
      /\ second' = second + 1 /\ kept \subseteq DOMAIN contacts
  BY DEF Expire
<1> HIDE DEF kept
<1>2. /\ DOMAIN contacts' = kept /\ \A k \in kept : contacts'[k] = contacts[k]
      /\ DOMAIN macIndex' = {m \in DOMAIN macIndex : macIndex[m] \in kept}
      /\ \A m \in DOMAIN macIndex' : macIndex'[m] = macIndex[m]
  BY <1>1 DEF Restrict
<1>3. /\ Joined(contacts, macIndex) /\ second \in Nat /\ named \in [Mac -> Id \union {Unsaid}]
      /\ \A k \in DOMAIN contacts : contacts[k].last <= second
      /\ \A d \in Drone : Alone(d) => Separate(d, contacts, macIndex, named)
  BY DEF ContactInv
<1>4. Joined(contacts', macIndex')
  <2>1. Typed(contacts', macIndex')
    BY <1>1, <1>2, <1>3 DEF Joined, Typed
  <2>2. LedTo(contacts', macIndex')
    BY <1>1, <1>2, <1>3 DEF Joined, LedTo
  <2>3. ByAddress(contacts', macIndex')
    BY <1>1, <1>2, <1>3 DEF Joined, ByAddress
  <2> QED
    BY <2>1, <2>2, <2>3 DEF Joined
<1>5. named' \in [Mac -> Id \union {Unsaid}] /\ second' \in Nat
  BY <1>1, <1>3
<1>6. ASSUME NEW k \in DOMAIN contacts' PROVE contacts'[k].last <= second'
  <2>1. k \in DOMAIN contacts /\ contacts'[k] = contacts[k]
    BY <1>1, <1>2
  <2>2. contacts[k].last \in Nat
    BY <1>3, <2>1 DEF Joined, Typed, ContactRecord
  <2> QED
    BY <1>1, <1>3, <2>1, <2>2
<1>7. ASSUME NEW d \in Drone, Alone(d) PROVE Separate(d, contacts', macIndex', named')
  <2>1. Separate(d, contacts, macIndex, named)
    BY <1>3, <1>7
  <2>2. Apart(d, contacts')
    BY <1>1, <1>2, <2>1 DEF Separate, Apart
  <2>3. ByOneAddress(d, contacts', macIndex')
    BY <1>1, <1>2, <2>1 DEF Separate, ByOneAddress
  <2>4. ByOneId(d, contacts', macIndex', named')
    <3> SUFFICES ASSUME IsSingle(IdsOf(d)), NEW m \in AddrsOf(d)
                 PROVE  /\ named'[m] # Unsaid => named'[m] \in IdsOf(d) /\ m \in DOMAIN macIndex' /\ macIndex'[m] = named'[m]
                        /\ \A k \in DOMAIN contacts' : m \in contacts'[k].macs => m \in DOMAIN macIndex' /\ macIndex'[m] = k
      BY DEF ByOneId
    <3>1. /\ named[m] # Unsaid => named[m] \in IdsOf(d) /\ m \in DOMAIN macIndex /\ macIndex[m] = named[m]
          /\ \A k \in DOMAIN contacts : m \in contacts[k].macs => m \in DOMAIN macIndex /\ macIndex[m] = k
      BY <2>1 DEF Separate, ByOneId
    <3>2. m \in Mac
      BY IdsAndAddresses
    <3>3. named'[m] = IF named[m] \in kept THEN named[m] ELSE Unsaid
      BY <1>1, <3>2
    <3> QED
      BY <1>1, <1>2, <3>1, <3>3
  <2> QED
    BY <2>2, <2>3, <2>4 DEF Separate
<1> QED
  BY <1>4, <1>5, <1>6, <1>7 DEF ContactInv, Alone

LEMMA ContactStep == ContactInv /\ [ContactNext]_contactVars => ContactInv'
<1> SUFFICES ASSUME ContactInv, [ContactNext]_contactVars
             PROVE  ContactInv'
  OBVIOUS
<1>1. CASE HearFrame
  <2>1. second' = second
    BY <1>1 DEF HearFrame
  <2>2. PICK d \in Drone : \E m \in AddrsOf(d), id \in IdsOf(d) \union {Unsaid} : Hear(m, id)
    BY <1>1 DEF HearFrame
  <2> QED
    BY <2>1, <2>2, FramePreserves
<1>2. CASE Expire
  BY <1>2, ExpirePreserves
<1>3. CASE Clear
  <2>1. DOMAIN contacts' = {} /\ DOMAIN macIndex' = {} /\ named' = [m \in Mac |-> Unsaid] /\ second' = second /\ second \in Nat
    BY <1>3 DEF Clear, ContactInv
  <2>2. \A d \in Drone : \A m \in AddrsOf(d) : named'[m] = Unsaid
    BY <2>1, IdsAndAddresses
  <2>3. named' \in [Mac -> Id \union {Unsaid}]
    BY <2>1
  <2> QED
    BY <2>1, <2>2, <2>3 DEF ContactInv, Joined, Typed, LedTo, ByAddress, Separate, Apart, ByOneAddress, ByOneId
<1>4. CASE UNCHANGED contactVars
  BY <1>4 DEF contactVars, ContactInv, Alone
<1> QED
  BY <1>1, <1>2, <1>3, <1>4 DEF ContactNext

LEMMA OneOfEach == ContactInv => OneContact
<1> SUFFICES ASSUME ContactInv
             PROVE  OneContact
  OBVIOUS
<1>1. Joined(contacts, macIndex)
  BY DEF ContactInv
<1>2. IndexLeads
  BY <1>1 DEF Joined, LedTo, ByAddress, IndexLeads
<1>3. ASSUME NEW d \in Drone, Alone(d)
      PROVE  /\ NotMixed(d)
             /\ (IsSingle(AddrsOf(d)) => \A k, l \in ContactsOf(d) : k = l)
             /\ (IsSingle(IdsOf(d)) => OneOfId(d))
  <2>1. Apart(d, contacts) /\ ByOneAddress(d, contacts, macIndex) /\ ByOneId(d, contacts, macIndex, named)
    BY <1>3 DEF ContactInv, Separate
  <2>2. ASSUME NEW k \in ContactsOf(d) PROVE k \in DOMAIN contacts /\ k \in Names(d) /\ contacts[k].macs \subseteq AddrsOf(d)
    BY <2>1 DEF ContactsOf, Apart
  <2>3. NotMixed(d)
    BY <2>2 DEF NotMixed
  <2>4. ASSUME IsSingle(AddrsOf(d)), NEW k \in ContactsOf(d), NEW l \in ContactsOf(d) PROVE k = l
    <3>1. contacts[k].macs # {}
      BY <1>1, <2>2 DEF Joined, Typed
    <3>2. PICK m \in contacts[k].macs : TRUE
      BY <3>1
    <3>3. m \in AddrsOf(d)
      BY <2>2, <3>2
    <3> QED
      BY <2>1, <2>2, <2>4, <3>3 DEF ByOneAddress
  <2>5. ASSUME IsSingle(IdsOf(d)) PROVE OneOfId(d)
    <3> SUFFICES ASSUME NEW m \in AddrsOf(d)
                 PROVE  /\ (named[m] # Unsaid => KeyOf(m) = named[m] /\ m \notin DOMAIN contacts)
                        /\ \A k \in DOMAIN contacts : m \in contacts[k].macs => m \in DOMAIN macIndex /\ macIndex[m] = k
      BY DEF OneOfId
    <3>1. /\ named[m] # Unsaid => named[m] \in IdsOf(d) /\ m \in DOMAIN macIndex /\ macIndex[m] = named[m]
          /\ \A k \in DOMAIN contacts : m \in contacts[k].macs => m \in DOMAIN macIndex /\ macIndex[m] = k
      BY <2>1, <2>5 DEF ByOneId
    <3>2. m \in Mac /\ IdsOf(d) \subseteq Id /\ Id \cap Mac = {}
      BY IdsAndAddresses, ContactAssumption
    <3>3. m \in DOMAIN contacts => macIndex[m] = m
      BY <1>1, <3>2 DEF Joined, ByAddress
    <3> QED
      BY <3>1, <3>2, <3>3 DEF KeyOf
  <2> QED
    BY <2>3, <2>4, <2>5
<1> QED
  BY <1>2, <1>3 DEF OneContact

\* A drone that shares no address and no ID is one contact, and none with
\* another's (ingest, expire and clear, in any order), whatever those that
\* share become: with one address though it sends several IDs, with one ID on
\* every address that was heard on.
THEOREM DroneIsOneContact == ContactSpec => []OneContact
<1> QED
  BY ContactInitially, ContactStep, OneOfEach, PTL DEF ContactSpec

\* The types of the contacts: each has the ID it is known by or none.
THEOREM ContactsTyped == ContactSpec => []ContactTypeOK
<1>1. ContactInv => ContactTypeOK
  BY DEF ContactInv, Joined, Typed, NameOf, ContactTypeOK
<1> QED
  BY ContactInitially, ContactStep, <1>1, PTL DEF ContactSpec

-----------------------------------------------------------------------------
(***************************************************************************)
(* PhoneHistory: that once written a record has every frame of its spell    *)
(* and is live if and only if the spell goes on (HistoryTrue), for every    *)
(* set of contacts, every period and delay, however often writes fail, the  *)
(* history is cleared and the app killed.                                  *)
(*                                                                         *)
(* The argument: a spell's frames are counted twice, in the spell and in    *)
(* the history of what was noted, and the two agree; a flush under way has  *)
(* what the spells had when it began, and differs from them only in what    *)
(* was noted since, for which unsaved is set; and a spell that it ends can  *)
(* take no frame any more.                                                 *)
(***************************************************************************)
Row == HeardKey \X Nat
Entry == [active : BOOLEAN, msgs : Nat]
Flushing == flush # NoFlush

HistTyped ==
  /\ DOMAIN spells \subseteq HeardKey /\ spells \in [DOMAIN spells -> [first : Nat, last : Nat, msgs : Nat]]
  /\ clock \in Nat /\ unsaved \in BOOLEAN /\ broken \in [n : Nat, last : BOOLEAN]
  /\ DOMAIN noted \subseteq Row /\ noted \in [DOMAIN noted -> Nat]
  /\ DOMAIN rows \subseteq Row /\ rows \in [DOMAIN rows -> Entry]

SpellsAge == \A k \in DOMAIN spells : spells[k].first <= spells[k].last /\ spells[k].last <= clock

FlushTyped ==
  Flushing =>
    /\ flush = [ending |-> flush.ending, rows |-> flush.rows]
    /\ DOMAIN flush.rows \subseteq Row /\ flush.rows \in [DOMAIN flush.rows -> Entry]

\* Every frame of an open spell is counted in both.
Counted == \A k \in DOMAIN spells : RowOf(k) \notin dropped => RowOf(k) \in DOMAIN noted /\ noted[RowOf(k)] = spells[k].msgs

\* A record that is over is as it should be, and stays so.
OverWritten ==
  \A r \in DOMAIN noted \ dropped : ~IsOpen(r) =>
    /\ r \in DOMAIN rows /\ rows[r] = [active |-> FALSE, msgs |-> noted[r]] /\ r[2] < clock
    /\ Flushing => r \notin DOMAIN flush.rows

\* What a flush writes of an open spell is as it should be, but for what came since.
FlushRight ==
  Flushing /\ ~unsaved => \A k \in DOMAIN spells :
    RowOf(k) \in DOMAIN flush.rows /\ flush.rows[RowOf(k)] = [active |-> k \notin flush.ending, msgs |-> spells[k].msgs]

\* A spell that it ends is over, and takes no more frames.
EndingRight ==
  Flushing => \A r \in DOMAIN flush.rows : r[1] \in flush.ending =>
    /\ r[2] < clock
    /\ IsOpen(r) => IsOver(r[1]) /\ flush.rows[r] = [active |-> FALSE, msgs |-> spells[r[1]].msgs]

\* When all is written, the open spells are.
OpenWritten ==
  Settled => \A k \in DOMAIN spells :
    RowOf(k) \in DOMAIN rows /\ rows[RowOf(k)] = [active |-> TRUE, msgs |-> spells[k].msgs]

HistInv == HistTyped /\ SpellsAge /\ FlushTyped /\ Counted /\ OverWritten /\ FlushRight /\ EndingRight /\ OpenWritten

LEMMA HistInitially == HistInit => HistInv
<1> USE PhoneHistoryAssumption
<1> SUFFICES ASSUME HistInit PROVE HistInv
  OBVIOUS
<1>1. /\ spells = <<>> /\ rows = <<>> /\ noted = <<>> /\ flush = NoFlush
      /\ clock = 0 /\ unsaved = FALSE /\ broken = [n |-> 0, last |-> FALSE]
  BY DEF HistInit
<1>2. DOMAIN spells = {} /\ DOMAIN rows = {} /\ DOMAIN noted = {}
  BY <1>1
<1>3. spells \in [DOMAIN spells -> [first : Nat, last : Nat, msgs : Nat]] /\ noted \in [DOMAIN noted -> Nat] /\ rows \in [DOMAIN rows -> Entry]
  BY <1>1, <1>2
<1>4. HistTyped
  BY <1>1, <1>2, <1>3 DEF HistTyped
<1> QED
  BY <1>1, <1>2, <1>4 DEF HistInv, SpellsAge, FlushTyped, Flushing, Counted, OverWritten, FlushRight, EndingRight, OpenWritten

\* What HistoryTrue says follows: of the open spells from their counts, of the
\* others from OverWritten.
LEMMA HistoryFollows == HistInv => HistoryTrue
<1> SUFFICES ASSUME HistInv, Settled, NEW r \in DOMAIN noted \ dropped
             PROVE r \in DOMAIN rows /\ rows[r].msgs = noted[r] /\ (rows[r].active <=> IsOpen(r))
  BY DEF HistoryTrue
<1>1. CASE IsOpen(r)
  <2> DEFINE k == r[1]
  <2>1. k \in DOMAIN spells /\ RowOf(k) = r
    BY <1>1 DEF IsOpen
  <2>2. noted[r] = spells[k].msgs
    BY <2>1 DEF HistInv, Counted
  <2>3. r \in DOMAIN rows /\ rows[r] = [active |-> TRUE, msgs |-> spells[k].msgs]
    BY <2>1 DEF HistInv, OpenWritten
  <2>4. rows[r].msgs = spells[k].msgs /\ rows[r].active = TRUE
    BY <2>3
  <2> QED
    BY <1>1, <2>2, <2>3, <2>4
<1>2. CASE ~IsOpen(r)
  <2>1. r \in DOMAIN rows /\ rows[r] = [active |-> FALSE, msgs |-> noted[r]]
    BY <1>2 DEF HistInv, OverWritten
  <2>2. rows[r].msgs = noted[r] /\ rows[r].active = FALSE
    BY <2>1
  <2> QED
    BY <1>2, <2>1, <2>2
<1> QED
  BY <1>1, <1>2

-----------------------------------------------------------------------------
\* The steps after which the spells are the same but for the time.
LEMMA TimeStays == HistInv /\ Second => HistInv'
<1> SUFFICES ASSUME HistInv, Second PROVE HistInv'
  OBVIOUS
<1>1. /\ UNCHANGED <<spells, unsaved, flush, rows, noted, dropped, broken>>
      /\ clock' = clock + 1
  BY DEF Second
<1>2. HistTyped' /\ clock \in Nat
  BY <1>1 DEF HistInv, HistTyped
<1>3. SpellsAge'
  BY <1>1, <1>2 DEF HistInv, SpellsAge, HistTyped
<1>4. FlushTyped' /\ Counted' /\ FlushRight'
  BY <1>1 DEF HistInv, FlushTyped, Flushing, Counted, FlushRight, RowOf
<1>5. OverWritten'
  <2> SUFFICES ASSUME NEW r \in DOMAIN noted \ dropped, ~IsOpen(r)
               PROVE /\ r \in DOMAIN rows /\ rows[r] = [active |-> FALSE, msgs |-> noted[r]] /\ r[2] < clock + 1
                     /\ Flushing => r \notin DOMAIN flush.rows
    BY <1>1 DEF OverWritten, IsOpen, RowOf, Flushing
  <2>1. r[2] \in Nat
    BY DEF HistInv, HistTyped, Row
  <2> QED
    BY <1>2, <2>1 DEF HistInv, OverWritten
<1>6. EndingRight'
  <2> SUFFICES ASSUME Flushing, NEW r \in DOMAIN flush.rows, r[1] \in flush.ending
               PROVE /\ r[2] < clock + 1
                     /\ IsOpen(r) => (clock + 1) - spells[r[1]].last > EndAfter /\ flush.rows[r] = [active |-> FALSE, msgs |-> spells[r[1]].msgs]
    BY <1>1 DEF EndingRight, IsOpen, RowOf, Flushing, IsOver
  <2>1. r[2] \in Nat /\ EndAfter \in Nat
    BY PhoneHistoryAssumption DEF HistInv, FlushTyped, Row
  <2>2. r[2] < clock /\ (IsOpen(r) => IsOver(r[1]) /\ flush.rows[r] = [active |-> FALSE, msgs |-> spells[r[1]].msgs])
    BY DEF HistInv, EndingRight
  <2>3. IsOpen(r) => spells[r[1]].last \in Nat
    BY DEF IsOpen, HistInv, HistTyped
  <2> QED
    BY <1>2, <2>1, <2>2, <2>3 DEF IsOver
<1>7. OpenWritten'
  BY <1>1 DEF HistInv, OpenWritten, Settled, RowOf
<1> QED
  BY <1>2, <1>3, <1>4, <1>5, <1>6, <1>7 DEF HistInv

LEMMA BreakStays == HistInv /\ FlushBreaks => HistInv'
<1> SUFFICES ASSUME HistInv, FlushBreaks PROVE HistInv'
  OBVIOUS
<1>1. /\ UNCHANGED <<spells, unsaved, rows, clock, noted, dropped>>
      /\ flush' = NoFlush /\ broken' = [n |-> broken.n + 1, last |-> TRUE]
  BY DEF FlushBreaks
<1>2. broken' \in [n : Nat, last : BOOLEAN] /\ broken'.last
  BY <1>1 DEF HistInv, HistTyped
<1>3. HistTyped' /\ SpellsAge' /\ Counted'
  BY <1>1, <1>2 DEF HistInv, HistTyped, SpellsAge, Counted, RowOf
<1>4. ~Flushing' /\ ~Settled'
  BY <1>1, <1>2 DEF Flushing, Settled
<1>5. OverWritten'
  BY <1>1, <1>4 DEF HistInv, OverWritten, IsOpen, RowOf
<1> QED
  BY <1>3, <1>4, <1>5 DEF HistInv, FlushTyped, FlushRight, EndingRight, OpenWritten

LEMMA ClearStays == HistInv /\ ClearHistory => HistInv'
<1> SUFFICES ASSUME HistInv, ClearHistory PROVE HistInv'
  OBVIOUS
<1>1. /\ UNCHANGED <<clock, broken>>
      /\ spells' = <<>> /\ unsaved' = FALSE /\ rows' = <<>> /\ noted' = <<>>
      /\ flush' = (IF flush = NoFlush THEN NoFlush ELSE [flush EXCEPT !.rows = <<>>])
  BY DEF ClearHistory
<1>2. DOMAIN spells' = {} /\ DOMAIN rows' = {} /\ DOMAIN noted' = {}
  BY <1>1
<1>3. spells' \in [DOMAIN spells' -> [first : Nat, last : Nat, msgs : Nat]] /\ noted' \in [DOMAIN noted' -> Nat] /\ rows' \in [DOMAIN rows' -> Entry]
  BY <1>1, <1>2
<1>4. HistTyped'
  BY <1>1, <1>2, <1>3 DEF HistInv, HistTyped
<1>5. Flushing' => flush' = [ending |-> flush'.ending, rows |-> flush'.rows] /\ flush'.rows = <<>>
  <2> SUFFICES ASSUME Flushing' PROVE flush' = [ending |-> flush'.ending, rows |-> flush'.rows] /\ flush'.rows = <<>>
    OBVIOUS
  <2>1. Flushing /\ flush' = [flush EXCEPT !.rows = <<>>]
    BY <1>1 DEF Flushing
  <2>2. flush = [ending |-> flush.ending, rows |-> flush.rows]
    BY <2>1 DEF HistInv, FlushTyped
  <2>3. flush' = [ending |-> flush.ending, rows |-> <<>>]
    BY <2>1, <2>2
  <2>4. flush'.ending = flush.ending /\ flush'.rows = <<>>
    BY <2>3
  <2> QED
    BY <2>3, <2>4
<1>6. FlushTyped' /\ EndingRight'
  <2> DEFINE written == flush'.rows
  <2>1. written = <<>> => DOMAIN written = {} /\ written \in [DOMAIN written -> Entry]
    OBVIOUS
  <2> QED
    BY <1>5, <2>1 DEF FlushTyped, EndingRight
<1> QED
  BY <1>2, <1>4, <1>6 DEF HistInv, SpellsAge, Counted, OverWritten, FlushRight, OpenWritten

\* A flush begins: what it will write is what the spells have.
LEMMA BeginStays == HistInv /\ BeginFlush => HistInv'
<1> SUFFICES ASSUME HistInv, BeginFlush PROVE HistInv'
  OBVIOUS
<1> DEFINE over == {k \in DOMAIN spells : IsOver(k)}
           toWrite == [r \in {RowOf(k) : k \in DOMAIN spells} |-> [active |-> ~IsOver(r[1]), msgs |-> spells[r[1]].msgs]]
<1>1. UNCHANGED <<spells, rows, clock, noted, dropped, broken>> /\ flush = NoFlush
  BY DEF BeginFlush
<1>2. HistTyped /\ SpellsAge /\ Counted /\ OverWritten /\ OpenWritten /\ ~Flushing
  BY <1>1 DEF HistInv, Flushing
<1>3. unsaved' \in BOOLEAN
  BY <1>2 DEF BeginFlush, HistTyped
<1>4. HistTyped' /\ SpellsAge' /\ Counted'
  BY <1>1, <1>2, <1>3 DEF HistTyped, SpellsAge, Counted, RowOf
<1>5. CASE flush' = NoFlush /\ unsaved' = unsaved
  <2>1. ~Flushing' /\ OverWritten'
    BY <1>1, <1>2, <1>5 DEF OverWritten, Flushing, IsOpen, RowOf
  <2>2. OpenWritten'
    BY <1>1, <1>2, <1>5 DEF OpenWritten, Settled, RowOf
  <2> QED
    BY <1>4, <2>1, <2>2 DEF HistInv, FlushTyped, FlushRight, EndingRight
<1>6. CASE flush' = [ending |-> over, rows |-> toWrite]
  <2>1. DOMAIN toWrite = {RowOf(k) : k \in DOMAIN spells} /\ flush'.rows = toWrite /\ flush'.ending = over
    BY <1>6
  <2>2. \A k \in DOMAIN spells : RowOf(k)[1] = k /\ RowOf(k)[2] = spells[k].first /\ RowOf(k) \in Row
    BY <1>2 DEF RowOf, Row, HistTyped
  <2>3. ASSUME NEW r \in DOMAIN toWrite
        PROVE /\ r[1] \in DOMAIN spells /\ r = RowOf(r[1])
              /\ toWrite[r] = [active |-> ~IsOver(r[1]), msgs |-> spells[r[1]].msgs]
    <3>1. PICK k \in DOMAIN spells : r = RowOf(k)
      BY <2>1
    <3>2. r[1] = k
      BY <2>2, <3>1
    <3> QED
      BY <2>1, <3>1, <3>2
  <2>4. DOMAIN toWrite \subseteq Row
    BY <2>1, <2>2
  <2>5. toWrite \in [DOMAIN toWrite -> Entry]
    <3>1. ASSUME NEW r \in DOMAIN toWrite PROVE toWrite[r] \in Entry
      <4>1. spells[r[1]].msgs \in Nat /\ (~IsOver(r[1])) \in BOOLEAN
        BY <1>2, <2>3 DEF HistTyped
      <4> QED
        BY <2>3, <4>1 DEF Entry
    <3> QED
      BY <3>1, <2>1
  <2> HIDE DEF toWrite
  <2>6. FlushTyped'
    BY <1>6, <2>1, <2>4, <2>5 DEF FlushTyped
  <2>7. OverWritten'
    <3> SUFFICES ASSUME NEW r \in DOMAIN noted \ dropped, ~IsOpen(r)
                 PROVE /\ r \in DOMAIN rows /\ rows[r] = [active |-> FALSE, msgs |-> noted[r]] /\ r[2] < clock
                       /\ r \notin DOMAIN toWrite
      BY <1>1, <2>1 DEF OverWritten, IsOpen, RowOf
    <3> QED
      BY <1>2, <2>3 DEF OverWritten, IsOpen
  <2>8. FlushRight'
    <3> SUFFICES ASSUME NEW k \in DOMAIN spells
                 PROVE RowOf(k) \in DOMAIN toWrite /\ toWrite[RowOf(k)] = [active |-> k \notin over, msgs |-> spells[k].msgs]
      BY <1>1, <2>1 DEF FlushRight, RowOf
    <3>1. RowOf(k) \in DOMAIN toWrite
      BY <2>1
    <3>2. (~IsOver(k)) = (k \notin over)
      OBVIOUS
    <3> QED
      BY <2>2, <2>3, <3>1, <3>2
  <2>9. EndingRight'
    <3> SUFFICES ASSUME NEW r \in DOMAIN toWrite, r[1] \in over
                 PROVE /\ r[2] < clock
                       /\ IsOver(r[1]) /\ toWrite[r] = [active |-> FALSE, msgs |-> spells[r[1]].msgs]
      BY <1>1, <2>1 DEF EndingRight, IsOpen, RowOf, IsOver
    <3>1. r[1] \in DOMAIN spells /\ IsOver(r[1]) /\ r[2] = spells[r[1]].first
      BY <2>2, <2>3
    <3>2. toWrite[r] = [active |-> FALSE, msgs |-> spells[r[1]].msgs]
      BY <2>3, <3>1
    <3>3. /\ spells[r[1]].first \in Nat /\ spells[r[1]].last \in Nat /\ clock \in Nat /\ EndAfter \in Nat
          /\ spells[r[1]].first <= spells[r[1]].last
      BY <1>2, <3>1, PhoneHistoryAssumption DEF HistTyped, SpellsAge
    <3>4. clock - spells[r[1]].last > EndAfter
      BY <3>1 DEF IsOver
    <3> QED
      BY <3>1, <3>2, <3>3, <3>4
  <2>10. OpenWritten'
    <3>1. DOMAIN flush' = {"ending", "rows"} /\ DOMAIN NoFlush = {}
      BY <1>6 DEF NoFlush
    <3>2. flush' # NoFlush
      BY <3>1
    <3> QED
      BY <3>2 DEF OpenWritten, Settled
  <2> QED
    BY <1>4, <2>6, <2>7, <2>8, <2>9, <2>10 DEF HistInv
<1> QED
  BY <1>5, <1>6 DEF BeginFlush

\* What the database has after a write.
LEMMA UpdatedTyped ==
  ASSUME HistTyped, FlushTyped, Flushing
  PROVE  /\ DOMAIN Updated(rows, flush.rows) = DOMAIN rows \union DOMAIN flush.rows
         /\ DOMAIN Updated(rows, flush.rows) \subseteq Row
         /\ Updated(rows, flush.rows) \in [DOMAIN Updated(rows, flush.rows) -> Entry]
         /\ \A r \in DOMAIN flush.rows : Updated(rows, flush.rows)[r] = flush.rows[r]
         /\ \A r \in DOMAIN rows \ DOMAIN flush.rows : Updated(rows, flush.rows)[r] = rows[r]
<1> DEFINE w == flush.rows
           u == Updated(rows, w)
<1>1. DOMAIN w \subseteq Row /\ w \in [DOMAIN w -> Entry] /\ DOMAIN rows \subseteq Row /\ rows \in [DOMAIN rows -> Entry]
  BY DEF HistTyped, FlushTyped
<1> HIDE DEF w
<1>2. u = [x \in DOMAIN rows \union DOMAIN w |-> IF x \in DOMAIN w THEN w[x] ELSE rows[x]]
  BY DEF Updated
<1> HIDE DEF u
<1>3. DOMAIN u = DOMAIN rows \union DOMAIN w
  BY <1>2
<1>4. \A x \in DOMAIN u : u[x] \in Entry
  BY <1>1, <1>2
<1>5. u \in [DOMAIN u -> Entry]
  BY <1>2, <1>3, <1>4
<1>6. /\ \A r \in DOMAIN w : u[r] = w[r]
      /\ \A r \in DOMAIN rows \ DOMAIN w : u[r] = rows[r]
  BY <1>2
<1> QED
  BY <1>1, <1>3, <1>5, <1>6 DEF u, w

\* A flush ends: the records of the spells it ends are final, and those of the
\* others are as they are, unless something was noted since.
LEMMA EndStays == HistInv /\ EndFlush => HistInv'
<1> SUFFICES ASSUME HistInv, EndFlush PROVE HistInv'
  OBVIOUS
<1> DEFINE w == flush.rows
           kept == DOMAIN spells \ flush.ending
           lost == {RowOf(k) : k \in {x \in DOMAIN spells \cap flush.ending : RowOf(x) \notin DOMAIN w}}
<1>1. /\ UNCHANGED <<unsaved, clock, noted>> /\ Flushing /\ flush' = NoFlush
      /\ rows' = Updated(rows, w) /\ spells' = Restrict(spells, kept)
      /\ dropped' = dropped \union lost /\ broken' = [broken EXCEPT !.last = FALSE]
  BY DEF EndFlush, Flushing
<1>2. HistTyped /\ SpellsAge /\ FlushTyped /\ Counted /\ OverWritten /\ FlushRight /\ EndingRight
  BY DEF HistInv
<1>3. /\ DOMAIN rows' = DOMAIN rows \union DOMAIN w /\ DOMAIN rows' \subseteq Row /\ rows' \in [DOMAIN rows' -> Entry]
      /\ \A r \in DOMAIN w : rows'[r] = w[r]
      /\ \A r \in DOMAIN rows \ DOMAIN w : rows'[r] = rows[r]
  BY <1>1, <1>2, UpdatedTyped
<1>4. DOMAIN spells' = kept /\ \A k \in kept : spells'[k] = spells[k]
  BY <1>1 DEF Restrict
<1>5. spells' \in [DOMAIN spells' -> [first : Nat, last : Nat, msgs : Nat]] /\ DOMAIN spells' \subseteq HeardKey
  <2>1. \A k \in kept : spells'[k] \in [first : Nat, last : Nat, msgs : Nat]
    BY <1>2, <1>4 DEF HistTyped
  <2>2. spells' = [k \in kept |-> spells[k]]
    BY <1>1 DEF Restrict
  <2> QED
    BY <1>2, <1>4, <2>1, <2>2 DEF HistTyped
<1>6. HistTyped'
  <2>1. broken' \in [n : Nat, last : BOOLEAN]
    BY <1>1, <1>2 DEF HistTyped
  <2> QED
    BY <1>1, <1>2, <1>3, <1>5, <2>1 DEF HistTyped
<1>7. SpellsAge' /\ Counted'
  BY <1>1, <1>2, <1>4 DEF SpellsAge, Counted, RowOf
<1>8. ~Flushing'
  BY <1>1 DEF Flushing
<1>9. OverWritten'
  <2> SUFFICES ASSUME NEW r \in DOMAIN noted \ (dropped \union lost), ~IsOpen(r)'
               PROVE r \in DOMAIN rows' /\ rows'[r] = [active |-> FALSE, msgs |-> noted[r]] /\ r[2] < clock
    BY <1>1, <1>8 DEF OverWritten
  <2>1. CASE IsOpen(r)
    <3> DEFINE k == r[1]
    <3>1. k \in DOMAIN spells /\ RowOf(k) = r
      BY <2>1 DEF IsOpen
    <3>2. k \notin kept
      BY <1>4, <3>1 DEF IsOpen, RowOf
    <3>3. k \in flush.ending /\ r \in DOMAIN w
      BY <3>1, <3>2
    <3>4. w[r] = [active |-> FALSE, msgs |-> spells[k].msgs] /\ r[2] < clock
      BY <1>1, <1>2, <2>1, <3>3 DEF EndingRight
    <3>5. noted[r] = spells[k].msgs
      BY <1>2, <3>1 DEF Counted
    <3> QED
      BY <1>3, <3>3, <3>4, <3>5
  <2>2. CASE ~IsOpen(r)
    <3>1. r \in DOMAIN rows /\ rows[r] = [active |-> FALSE, msgs |-> noted[r]] /\ r[2] < clock /\ r \notin DOMAIN w
      BY <1>1, <1>2, <2>2 DEF OverWritten
    <3> QED
      BY <1>3, <3>1
  <2> QED
    BY <2>1, <2>2
<1>10. OpenWritten'
  <2> SUFFICES ASSUME ~unsaved, NEW k \in kept
               PROVE RowOf(k) \in DOMAIN rows' /\ rows'[RowOf(k)] = [active |-> TRUE, msgs |-> spells[k].msgs]
    BY <1>1, <1>4 DEF OpenWritten, Settled, RowOf
  <2>1. RowOf(k) \in DOMAIN w /\ w[RowOf(k)] = [active |-> TRUE, msgs |-> spells[k].msgs]
    BY <1>1, <1>2 DEF FlushRight
  <2> QED
    BY <1>3, <2>1
<1> QED
  BY <1>6, <1>7, <1>8, <1>9, <1>10 DEF HistInv, FlushTyped, FlushRight, EndingRight

LEMMA KilledStays == HistInv /\ Killed => HistInv'
<1> SUFFICES ASSUME HistInv, Killed PROVE HistInv'
  OBVIOUS
<1>1. /\ UNCHANGED <<clock, noted>> /\ flush' = NoFlush /\ spells' = <<>> /\ unsaved' = FALSE
      /\ rows' \in {rows, IF flush = NoFlush THEN rows ELSE Updated(rows, flush.rows)}
      /\ dropped' = dropped \union {RowOf(k) : k \in DOMAIN spells} /\ broken' = [broken EXCEPT !.last = FALSE]
  BY DEF Killed
<1>2. HistTyped /\ FlushTyped /\ OverWritten
  BY DEF HistInv
<1>3. /\ DOMAIN rows' \subseteq Row /\ rows' \in [DOMAIN rows' -> Entry] /\ DOMAIN rows \subseteq DOMAIN rows'
      /\ \A r \in DOMAIN rows : (Flushing => r \notin DOMAIN flush.rows) => rows'[r] = rows[r]
  <2>1. CASE rows' = rows
    BY <1>2, <2>1 DEF HistTyped
  <2>2. CASE Flushing /\ rows' = Updated(rows, flush.rows)
    BY <1>2, <2>2, UpdatedTyped
  <2> QED
    BY <1>1, <2>1, <2>2 DEF Flushing
<1>4. DOMAIN spells' = {} /\ spells' \in [DOMAIN spells' -> [first : Nat, last : Nat, msgs : Nat]]
  BY <1>1
<1>5. HistTyped'
  <2>1. broken' \in [n : Nat, last : BOOLEAN]
    BY <1>1, <1>2 DEF HistTyped
  <2> QED
    BY <1>1, <1>2, <1>3, <1>4, <2>1 DEF HistTyped
<1>6. OverWritten'
  <2> SUFFICES ASSUME NEW r \in DOMAIN noted \ (dropped \union {RowOf(k) : k \in DOMAIN spells})
               PROVE r \in DOMAIN rows' /\ rows'[r] = [active |-> FALSE, msgs |-> noted[r]] /\ r[2] < clock
    BY <1>1 DEF OverWritten, Flushing
  <2>1. ~IsOpen(r)
    BY DEF IsOpen
  <2>2. r \in DOMAIN rows /\ rows[r] = [active |-> FALSE, msgs |-> noted[r]] /\ r[2] < clock /\ (Flushing => r \notin DOMAIN flush.rows)
    BY <1>2, <2>1 DEF OverWritten
  <2> QED
    BY <1>3, <2>2
<1> QED
  BY <1>1, <1>4, <1>5, <1>6 DEF HistInv, SpellsAge, FlushTyped, Flushing, Counted, FlushRight, EndingRight, OpenWritten

\* What a frame of contact k does.
NotedOf(k, fresh, s, r) ==
  /\ k \in HeardKey /\ fresh = (k \notin DOMAIN spells \/ IsOver(k))
  /\ s = (IF fresh THEN [first |-> clock, last |-> clock, msgs |-> 1]
          ELSE [spells[k] EXCEPT !.last = clock, !.msgs = @ + 1])
  /\ r = <<k, s.first>>
  /\ spells' = Updated(spells, [x \in {k} |-> s])
  /\ noted' = Updated(noted, [x \in {r} |-> IF r \in DOMAIN noted THEN noted[r] + 1 ELSE 1])
  /\ dropped' = (IF fresh /\ k \in DOMAIN spells THEN dropped \union {RowOf(k)} ELSE dropped)

\* A frame is noted: a new spell has a new record, and the one whose place it
\* takes is among the dropped.
LEMMA NoteStays == HistInv /\ Note => HistInv'
<1> SUFFICES ASSUME HistInv, Note PROVE HistInv'
  OBVIOUS
<1>1. UNCHANGED <<flush, lastFlush, rows, clock, broken>> /\ unsaved' = TRUE
  BY DEF Note
<1>2. PICK k : \E fresh, s, r : NotedOf(k, fresh, s, r)
  <2> DEFINE fresh(k) == k \notin DOMAIN spells \/ IsOver(k)
             s(k) == IF fresh(k) THEN [first |-> clock, last |-> clock, msgs |-> 1]
                     ELSE [spells[k] EXCEPT !.last = clock, !.msgs = @ + 1]
             r(k) == <<k, s(k).first>>
  <2>1. PICK k \in HeardKey :
          /\ spells' = Updated(spells, [x \in {k} |-> s(k)])
          /\ noted' = Updated(noted, [x \in {r(k)} |-> IF r(k) \in DOMAIN noted THEN noted[r(k)] + 1 ELSE 1])
          /\ dropped' = IF fresh(k) /\ k \in DOMAIN spells THEN dropped \union {RowOf(k)} ELSE dropped
    BY Zenon DEF Note
  <2>2. NotedOf(k, fresh(k), s(k), r(k))
    BY <2>1 DEF NotedOf
  <2> QED
    BY <2>2
<1>3. PICK fresh, s, r : NotedOf(k, fresh, s, r)
  BY <1>2
<1>4. HistTyped /\ SpellsAge /\ FlushTyped /\ Counted /\ OverWritten /\ EndingRight
  BY DEF HistInv
<1>5. /\ k \in HeardKey /\ (fresh <=> (k \notin DOMAIN spells \/ IsOver(k)))
      /\ (fresh => s = [first |-> clock, last |-> clock, msgs |-> 1])
      /\ (~fresh => s = [spells[k] EXCEPT !.last = clock, !.msgs = @ + 1])
      /\ r = <<k, s.first>>
  BY <1>3 DEF NotedOf
<1>6. s \in [first : Nat, last : Nat, msgs : Nat] /\ s.first <= s.last /\ s.last = clock /\ clock \in Nat
  <2>1. CASE fresh
    BY <1>4, <1>5, <2>1 DEF HistTyped
  <2>2. CASE ~fresh
    <3>1. spells[k] \in [first : Nat, last : Nat, msgs : Nat] /\ spells[k].first <= spells[k].last /\ spells[k].last <= clock /\ clock \in Nat
      BY <1>4, <1>5, <2>2 DEF HistTyped, SpellsAge
    <3>2. s = [first |-> spells[k].first, last |-> clock, msgs |-> spells[k].msgs + 1]
      BY <1>5, <2>2, <3>1
    <3>3. s.first = spells[k].first /\ s.last = clock /\ spells[k].first <= clock
      BY <3>1, <3>2
    <3> QED
      BY <3>1, <3>2, <3>3
  <2> QED
    BY <2>1, <2>2
<1>7. DOMAIN spells' = DOMAIN spells \union {k} /\ spells'[k] = s /\ \A x \in DOMAIN spells \ {k} : spells'[x] = spells[x]
  BY <1>3 DEF NotedOf, Updated
<1>8. /\ DOMAIN noted' = DOMAIN noted \union {r} /\ noted'[r] = (IF r \in DOMAIN noted THEN noted[r] + 1 ELSE 1)
      /\ \A x \in DOMAIN noted \ {r} : noted'[x] = noted[x]
  BY <1>3 DEF NotedOf, Updated
<1>9. dropped \subseteq dropped' /\ (fresh /\ k \in DOMAIN spells => RowOf(k) \in dropped')
  BY <1>3 DEF NotedOf
<1>10. r \in Row
  BY <1>5, <1>6 DEF Row
<1>11. HistTyped'
  <2>1. spells' \in [DOMAIN spells' -> [first : Nat, last : Nat, msgs : Nat]]
    <3>1. \A x \in DOMAIN spells' : spells'[x] \in [first : Nat, last : Nat, msgs : Nat]
      BY <1>4, <1>6, <1>7 DEF HistTyped
    <3>2. spells' = [x \in DOMAIN spells' |-> spells'[x]]
      BY <1>3 DEF NotedOf, Updated
    <3> QED
      BY <3>1, <3>2
  <2>2. noted' \in [DOMAIN noted' -> Nat]
    <3>1. \A x \in DOMAIN noted' : noted'[x] \in Nat
      BY <1>4, <1>8 DEF HistTyped
    <3>2. noted' = [x \in DOMAIN noted' |-> noted'[x]]
      BY <1>3 DEF NotedOf, Updated
    <3> QED
      BY <3>1, <3>2
  <2> QED
    BY <1>1, <1>4, <1>5, <1>7, <1>8, <1>10, <2>1, <2>2 DEF HistTyped
<1>12. SpellsAge' /\ FlushTyped'
  BY <1>1, <1>4, <1>6, <1>7 DEF SpellsAge, FlushTyped, Flushing
\* The record of a new spell is new.
<1>13. ASSUME fresh, r \in DOMAIN noted PROVE r \in dropped
  <2>1. r = <<k, clock>> /\ r[1] = k /\ r[2] = clock
    BY <1>5, <1>13
  <2>2. ~IsOpen(r)
    <3> SUFFICES ASSUME k \in DOMAIN spells, RowOf(k) = r PROVE FALSE
      BY <2>1 DEF IsOpen
    <3>1. spells[k].first = clock
      BY <2>1 DEF RowOf
    <3>2. clock - spells[k].last > EndAfter
      BY <1>5, <1>13 DEF IsOver
    <3>3. spells[k].first <= spells[k].last /\ spells[k].last \in Nat /\ EndAfter \in Nat
      BY <1>4, PhoneHistoryAssumption DEF SpellsAge, HistTyped
    <3> QED
      BY <1>6, <3>1, <3>2, <3>3
  <2>3. r \notin dropped => r[2] < clock
    BY <1>4, <1>13, <2>2 DEF OverWritten
  <2> QED
    BY <1>6, <2>1, <2>3
<1>14. ASSUME NEW x \in DOMAIN spells, x # k PROVE RowOf(x)' = RowOf(x) /\ RowOf(x) # r
  BY <1>5, <1>7, <1>14 DEF RowOf
<1>15. RowOf(k)' = r
  BY <1>5, <1>7 DEF RowOf
<1>16. ~fresh => k \in DOMAIN spells /\ RowOf(k) = r /\ s.msgs = spells[k].msgs + 1
  <2> SUFFICES ASSUME ~fresh PROVE RowOf(k) = r /\ s.msgs = spells[k].msgs + 1
    BY <1>5
  <2>1. spells[k] \in [first : Nat, last : Nat, msgs : Nat]
    BY <1>4, <1>5 DEF HistTyped
  <2>2. s.first = spells[k].first /\ s.msgs = spells[k].msgs + 1
    BY <1>5, <2>1
  <2> QED
    BY <1>5, <2>2 DEF RowOf
<1>17. Counted'
  <2> SUFFICES ASSUME NEW x \in DOMAIN spells', RowOf(x)' \notin dropped'
               PROVE RowOf(x)' \in DOMAIN noted' /\ noted'[RowOf(x)'] = spells'[x].msgs
    BY DEF Counted
  <2>1. CASE x # k
    <3>1. x \in DOMAIN spells /\ RowOf(x)' = RowOf(x) /\ RowOf(x) # r /\ spells'[x] = spells[x]
      BY <1>7, <1>14, <2>1
    <3>2. RowOf(x) \in DOMAIN noted /\ noted[RowOf(x)] = spells[x].msgs
      BY <1>4, <1>9, <3>1 DEF Counted
    <3> QED
      BY <1>8, <3>1, <3>2
  <2>2. CASE x = k /\ fresh
    <3>1. r \notin DOMAIN noted
      BY <1>9, <1>13, <1>15, <2>2
    <3>2. s.msgs = 1
      BY <1>5, <2>2
    <3> QED
      BY <1>7, <1>8, <1>15, <2>2, <3>1, <3>2
  <2>3. CASE x = k /\ ~fresh
    <3>1. r \in DOMAIN noted /\ noted[r] = spells[k].msgs
      BY <1>4, <1>9, <1>15, <1>16, <2>3 DEF Counted
    <3> QED
      BY <1>7, <1>8, <1>15, <1>16, <2>3, <3>1
  <2> QED
    BY <2>1, <2>2, <2>3
<1>18. OverWritten'
  <2> SUFFICES ASSUME NEW y \in DOMAIN noted' \ dropped', ~IsOpen(y)'
               PROVE /\ y \in DOMAIN rows /\ rows[y] = [active |-> FALSE, msgs |-> noted'[y]] /\ y[2] < clock
                     /\ Flushing => y \notin DOMAIN flush.rows
    BY <1>1 DEF OverWritten, Flushing
  <2>1. y # r
    BY <1>5, <1>7, <1>15 DEF IsOpen
  <2>2. y \in DOMAIN noted \ dropped /\ noted'[y] = noted[y]
    BY <1>8, <1>9, <2>1
  <2>3. ~IsOpen(y)
    <3> SUFFICES ASSUME y[1] \in DOMAIN spells, RowOf(y[1]) = y PROVE FALSE
      BY DEF IsOpen
    <3>1. CASE y[1] = k
      BY <1>9, <1>16, <2>1, <3>1
    <3>2. CASE y[1] # k
      BY <1>7, <1>14, <3>2 DEF IsOpen
    <3> QED
      BY <3>1, <3>2
  <2> QED
    BY <1>4, <2>2, <2>3 DEF OverWritten
<1>19. EndingRight'
  <2> SUFFICES ASSUME Flushing, NEW y \in DOMAIN flush.rows, y[1] \in flush.ending
               PROVE /\ y[2] < clock
                     /\ IsOpen(y)' => IsOver(y[1])' /\ flush.rows[y] = [active |-> FALSE, msgs |-> spells'[y[1]].msgs]
    BY <1>1 DEF EndingRight, Flushing
  <2>1. y[2] < clock /\ (IsOpen(y) => IsOver(y[1]) /\ flush.rows[y] = [active |-> FALSE, msgs |-> spells[y[1]].msgs])
    BY <1>4 DEF EndingRight
  <2>2. ASSUME IsOpen(y)' PROVE y[1] # k
    <3> SUFFICES ASSUME y[1] = k PROVE FALSE
      OBVIOUS
    <3>1. y = r
      BY <1>15, <2>2 DEF IsOpen
    <3>2. CASE fresh
      BY <1>5, <1>6, <2>1, <3>1, <3>2
    <3>3. CASE ~fresh
      BY <1>5, <1>16, <2>1, <3>1, <3>3 DEF IsOpen
    <3> QED
      BY <3>2, <3>3
  <2>3. ASSUME IsOpen(y)' PROVE IsOpen(y) /\ spells'[y[1]] = spells[y[1]] /\ IsOver(y[1])' = IsOver(y[1])
    <3>1. y[1] # k /\ y[1] \in DOMAIN spells
      BY <1>7, <2>2, <2>3 DEF IsOpen
    <3>2. spells'[y[1]] = spells[y[1]]
      BY <1>7, <3>1
    <3> QED
      BY <1>1, <2>3, <3>1, <3>2 DEF IsOpen, RowOf, IsOver
  <2> QED
    BY <2>1, <2>3
<1> QED
  BY <1>1, <1>11, <1>12, <1>17, <1>18, <1>19 DEF HistInv, FlushRight, OpenWritten, Settled

LEMMA HistStays == HistInv /\ [HistNext]_histVars => HistInv'
<1> SUFFICES ASSUME HistInv, [HistNext]_histVars PROVE HistInv'
  OBVIOUS
<1>1. CASE UNCHANGED histVars
  BY <1>1 DEF HistInv, HistTyped, SpellsAge, FlushTyped, Flushing, Counted, OverWritten, FlushRight, EndingRight, OpenWritten,
     Settled, IsOpen, IsOver, RowOf, histVars
<1>2. CASE HistNext
  BY <1>2, NoteStays, BeginStays, EndStays, BreakStays, ClearStays, KilledStays, TimeStays DEF HistNext
<1> QED
  BY <1>1, <1>2

\* Once written a record has every frame of its spell and is live if and only if
\* the spell goes on (HistoryTrue): for every set of contacts, every period and
\* delay, and however often a write fails, the history is cleared or the app dies.
THEOREM HistoryIsTrue == HistSpec => []HistoryTrue
<1>1. HistInit => HistInv
  BY HistInitially
<1>2. HistInv /\ [HistNext]_histVars => HistInv'
  BY HistStays
<1>3. HistInv => HistoryTrue
  BY HistoryFollows
<1> QED
  BY <1>1, <1>2, <1>3, PTL DEF HistSpec

\* What was dropped was noted, and a flush ends spells of contacts.
DroppedNoted ==
  /\ clock \in 0 .. LastTime /\ dropped \subseteq DOMAIN noted
  /\ Flushing => flush.ending \subseteq HeardKey

LEMMA DroppedStay == HistInv /\ DroppedNoted /\ [HistNext]_histVars => DroppedNoted'
<1> SUFFICES ASSUME HistInv, DroppedNoted, [HistNext]_histVars PROVE DroppedNoted'
  OBVIOUS
<1>1. \A k \in DOMAIN spells : RowOf(k) \in DOMAIN noted
  BY DEF HistInv, Counted, DroppedNoted
<1>2. DOMAIN spells \subseteq HeardKey /\ LastTime \in Nat
  BY PhoneHistoryAssumption DEF HistInv, HistTyped
<1>3. clock' \in 0 .. LastTime
  <2>1. clock' = clock \/ Second
    BY Zenon DEF HistNext, Note, BeginFlush, EndFlush, FlushBreaks, ClearHistory, Killed, histVars
  <2> QED
    BY <1>2, <2>1 DEF Second, DroppedNoted
<1>4. dropped' \subseteq DOMAIN noted'
  <2>1. CASE Note
    <3> DEFINE fresh(k) == k \notin DOMAIN spells \/ IsOver(k)
               s(k) == IF fresh(k) THEN [first |-> clock, last |-> clock, msgs |-> 1]
                       ELSE [spells[k] EXCEPT !.last = clock, !.msgs = @ + 1]
               r(k) == <<k, s(k).first>>
    <3>1. PICK k \in HeardKey :
            /\ noted' = Updated(noted, [x \in {r(k)} |-> IF r(k) \in DOMAIN noted THEN noted[r(k)] + 1 ELSE 1])
            /\ dropped' = IF fresh(k) /\ k \in DOMAIN spells THEN dropped \union {RowOf(k)} ELSE dropped
      BY <2>1, Zenon DEF Note
    <3>2. DOMAIN noted \subseteq DOMAIN noted'
      BY <3>1 DEF Updated
    <3>3. dropped' \subseteq dropped \union {RowOf(x) : x \in DOMAIN spells}
      BY <3>1
    <3> QED
      BY <1>1, <3>2, <3>3 DEF DroppedNoted
  <2>2. CASE EndFlush \/ Killed
    <3>1. dropped' \subseteq dropped \union {RowOf(k) : k \in DOMAIN spells} /\ noted' = noted
      BY <2>2 DEF EndFlush, Killed
    <3> QED
      BY <1>1, <3>1 DEF DroppedNoted
  <2>3. CASE BeginFlush \/ FlushBreaks \/ ClearHistory \/ Second \/ UNCHANGED histVars
    BY <2>3 DEF BeginFlush, FlushBreaks, ClearHistory, Second, histVars, DroppedNoted
  <2> QED
    BY <2>1, <2>2, <2>3 DEF HistNext
<1>5. Flushing' => flush'.ending \subseteq HeardKey
  <2>1. CASE BeginFlush
    <3>1. flush' = flush \/ flush'.ending = {k \in DOMAIN spells : IsOver(k)}
      BY <2>1 DEF BeginFlush
    <3> QED
      BY <1>2, <2>1, <3>1 DEF BeginFlush, Flushing
  <2>2. CASE ClearHistory
    <3>1. Flushing => flush' = [flush EXCEPT !.rows = <<>>] /\ flush = [ending |-> flush.ending, rows |-> flush.rows]
      BY <2>2 DEF ClearHistory, HistInv, FlushTyped, Flushing
    <3>2. Flushing => flush'.ending = flush.ending
      BY <3>1
    <3>3. ~Flushing => ~Flushing'
      BY <2>2 DEF ClearHistory, Flushing
    <3> QED
      BY <3>2, <3>3 DEF DroppedNoted
  <2>3. CASE Note \/ EndFlush \/ FlushBreaks \/ Killed \/ Second \/ UNCHANGED histVars
    <3>1. flush' \in {flush, NoFlush}
      BY <2>3, Zenon DEF Note, EndFlush, FlushBreaks, Killed, Second, histVars
    <3> QED
      BY <3>1 DEF DroppedNoted, Flushing
  <2> QED
    BY <2>1, <2>2, <2>3 DEF HistNext
<1> QED
  BY <1>3, <1>4, <1>5 DEF DroppedNoted

\* The types of the phone's records.
THEOREM HistoryTyped == HistSpec => []HistTypeOK
<1>1. HistInit => DroppedNoted
  BY PhoneHistoryAssumption DEF HistInit, DroppedNoted, Flushing
<1>2. HistInv /\ DroppedNoted => HistTypeOK
  BY DEF HistInv, HistTyped, SpellsAge, DroppedNoted, Flushing, HistTypeOK
<1> QED
  BY HistInitially, HistStays, DroppedStay, <1>1, <1>2, PTL DEF HistSpec
=============================================================================
