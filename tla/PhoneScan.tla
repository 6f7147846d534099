----------------------------- MODULE PhoneScan -----------------------------
(***************************************************************************)
(* One Bluetooth scan of the phone for everyone who needs one               *)
(* (mobile/lib/core/native_rx/ble_scan_coordinator.dart). Clients hold      *)
(* leases; the scan is brought in line with them one change at a time       *)
(* (_reconcile's chain), no oftener than Android allows, and started again   *)
(* when the platform stops it.                                             *)
(*                                                                         *)
(* The app is single-threaded: what runs between two awaits is one step.    *)
(* Times are ages and countdowns, so that a behaviour has no end.          *)
(***************************************************************************)
EXTENDS Integers, Sequences, SequencesExt, FiniteSets

CONSTANTS
  Client,      \* the picker, the phone's own receiver
  FilterOf,    \* client -> what its lease asks for
  Duty,        \* ScanDuty
  MaxStarts, StartWindow, \* at most so many starts within so long
  RestartEvery, RetryMin, RetryMax,
  NoScan,      \* null
  Unarmed,     \* a timer that is not
  MaxActs,     \* bound of the model: what people and the adapter do
  MaxDown,     \* bound of the model: starts that fail, scans the platform stops
  MaxEvents    \* bound of the model: both together

ASSUME PhoneScanAssumption ==
  /\ MaxStarts \in Nat \ {0} /\ {StartWindow, RetryMin, RetryMax, RestartEvery} \subseteq Nat \ {0} /\ RetryMin <= RetryMax
  /\ {MaxActs, MaxDown, MaxEvents} \subseteq Nat /\ Unarmed \notin Nat
  /\ \A f \in SUBSET UNION {FilterOf[c] : c \in Client} : f # NoScan

VARIABLES
  lease,       \* client -> none, asked for, held, or about to be released since its start failed
  chain,       \* the changes that wait: forced, and for whom
  at,          \* where the first of them is: not begun, throttled, starting
  plan,        \* the filter and the duty it starts with
  wake,        \* _throttle's sleep
  runningFilter, runningDuty, duty, \* _running, _runningDuty, _duty
  starts,      \* _starts: ages
  backoff, retry, refresh, \* _backoff, and the two timers
  adapter,     \* Bluetooth is on
  scan,        \* the platform's scan: off, starting, on; its filter and duty
  asked,       \* history: ages of the starts the platform was asked for
  missed,      \* history: the duty changed while a first start was under way
  swallowed,   \* history: the retry timer took a start for a scan, of a scan that was known to be down
  acts, downs

leaseVars == <<lease, chain>>
jobVars == <<at, plan, wake, starts, asked>>
runVars == <<runningFilter, runningDuty>>
timerVars == <<backoff, retry, refresh>>
scanVars == <<leaseVars, jobVars, runVars, duty, timerVars, adapter, scan, missed, swallowed, acts, downs>>

Off == [is |-> "off", filter |-> {}, duty |-> NoScan]
NoPlan == [filter |-> {}, duty |-> NoScan]

ScanInit ==
  /\ lease = [c \in Client |-> "none"] /\ chain = <<>>
  /\ at = "ready" /\ plan = NoPlan /\ wake = Unarmed /\ starts = <<>> /\ asked = <<>>
  /\ runningFilter = NoScan /\ runningDuty = NoScan /\ duty \in Duty
  /\ backoff = 0 /\ retry = Unarmed /\ refresh = Unarmed
  /\ adapter \in BOOLEAN /\ scan = Off /\ missed = FALSE /\ swallowed = FALSE /\ acts = 0 /\ downs = 0

-----------------------------------------------------------------------------
Leases(of) == {c \in Client : of[c] # "none"}
Union(of) == UNION {FilterOf[c] : c \in Leases(of)}
\* A bug to compare with: any scan will do.
CoversAny(f) == runningFilter # NoScan

Covers(f) == runningFilter # NoScan /\ f \subseteq runningFilter

Job(force, by, of) == [force |-> force, by |-> by, of |-> of]

\* A bug to compare with: a timer that is armed only when there was no back-off.
NoticedOnce(r) ==
  IF r = NoScan \/ Leases(lease) = {} \/ backoff # 0 THEN UNCHANGED <<backoff, retry>>
  ELSE backoff' = RetryMin /\ retry' = RetryMin

\* _onScanning(false), with r the running filter at that moment.
Noticed(r) ==
  IF r = NoScan \/ Leases(lease) = {} THEN UNCHANGED <<backoff, retry>>
  ELSE LET next == IF backoff = 0 THEN RetryMin ELSE 2 * backoff
           b == IF next > RetryMax THEN RetryMax ELSE next
       IN backoff' = b /\ retry' = b

\* The first change is done.
Finish == chain' = Tail(chain) /\ at' = "ready" /\ plan' = NoPlan

-----------------------------------------------------------------------------
\* acquire
Acquire(c) ==
  /\ lease[c] = "none" /\ lease' = [lease EXCEPT ![c] = "asked"]
  /\ chain' = Append(chain, Job(FALSE, "acquire", c))

\* release, of a lease that was given; and of one that failed.
Release(c) ==
  /\ lease[c] = "held" /\ lease' = [lease EXCEPT ![c] = "none"]
  /\ chain' = Append(chain, Job(FALSE, "release", c))

ReleaseFailed(c) ==
  /\ lease[c] = "failing" /\ lease' = [lease EXCEPT ![c] = "none"]
  /\ chain' = Append(chain, Job(FALSE, "release", c))
  /\ UNCHANGED <<jobVars, runVars, duty, timerVars, adapter, scan, missed, swallowed, acts, downs>>

\* setDuty
SetDuty(d) ==
  /\ d # duty /\ duty' = d
  /\ chain' = IF runningFilter # NoScan THEN Append(chain, Job(TRUE, "duty", NoScan)) ELSE chain
  /\ missed' = (missed \/ (runningFilter = NoScan /\ at = "starting"))

\* _onAdapter; a scan that ran or was starting is down with Bluetooth.
AdapterTurns ==
  /\ adapter' = ~adapter
  /\ IF adapter
     THEN /\ scan' = Off /\ (IF scan # Off THEN Noticed(runningFilter) ELSE UNCHANGED <<backoff, retry>>)
          /\ UNCHANGED <<chain, runVars>>
     ELSE IF Leases(lease) = {} \/ (runningFilter # NoScan /\ scan # Off)
     THEN UNCHANGED <<scan, backoff, retry, chain, runVars>>
     ELSE /\ retry' = Unarmed /\ backoff' = 0 /\ runningFilter' = NoScan
          /\ chain' = Append(chain, Job(TRUE, "retry", NoScan))
          /\ UNCHANGED <<scan, runningDuty>>

\* The picker, the power policy, the adapter.
Act ==
  /\ acts < MaxActs /\ acts + downs < MaxEvents /\ acts' = acts + 1
  /\ \/ /\ \E c \in Client : Acquire(c) \/ Release(c)
        /\ UNCHANGED <<duty, missed, runVars, backoff, retry, adapter, scan>>
     \/ \E d \in Duty : SetDuty(d) /\ UNCHANGED <<lease, runVars, backoff, retry, adapter, scan>>
     \/ AdapterTurns /\ UNCHANGED <<lease, duty, missed>>
  /\ UNCHANGED <<jobVars, refresh, swallowed, downs>>

\* The platform stops the scan by itself.
StopsByItself ==
  /\ downs < MaxDown /\ acts + downs < MaxEvents /\ downs' = downs + 1 /\ scan.is = "on" /\ scan' = Off /\ Noticed(runningFilter)
  /\ UNCHANGED <<leaseVars, jobVars, runVars, duty, refresh, adapter, missed, swallowed, acts>>

-----------------------------------------------------------------------------
\* Starts are kept in their order: those of the window are the last ones.
FirstFresh(ages) == CHOOSE n \in 1 .. Len(ages) + 1 : \A i \in DOMAIN ages : (ages[i] < StartWindow) <=> n <= i
Fresh(ages) == SubSeq(ages, FirstFresh(ages), Len(ages))

\* _apply, after the throttle: the start is noted and the platform asked; it
\* stops the scan that runs.
Call(f) ==
  /\ starts' = Append(Fresh(starts), 0) /\ asked' = Append(Fresh(asked), 0)
  /\ at' = (IF adapter THEN "starting" ELSE "refused") /\ wake' = Unarmed /\ plan' = [filter |-> f, duty |-> duty]
  /\ IF adapter
     THEN scan' = [is |-> "starting", filter |-> f, duty |-> duty] /\ (IF scan # Off THEN Noticed(runningFilter) ELSE UNCHANGED <<backoff, retry>>)
     ELSE UNCHANGED <<scan, backoff, retry>>

Served(job) == lease' = IF job.by = "acquire" THEN [lease EXCEPT ![job.of] = "held"] ELSE lease

\* _apply: nobody wants it, it runs as wanted, or it is to be started.
Apply ==
  /\ at = "ready" /\ chain # <<>>
  /\ LET job == Head(chain)
         want == Union(lease)
         f == IF runningFilter = NoScan THEN want ELSE want \union runningFilter
     IN IF Leases(lease) = {}
        THEN /\ retry' = Unarmed /\ refresh' = Unarmed /\ runningFilter' = NoScan
             /\ scan' = IF runningFilter # NoScan THEN Off ELSE scan
             /\ Finish /\ UNCHANGED <<lease, wake, starts, asked, runningDuty, backoff>>
        ELSE IF ~job.force /\ Covers(want) /\ runningDuty = duty
        THEN Finish /\ Served(job) /\ UNCHANGED <<wake, starts, asked, runVars, timerVars, scan>>
        ELSE /\ IF Len(Fresh(starts)) < MaxStarts THEN Call(f)
                ELSE /\ at' = "throttled" /\ plan' = [NoPlan EXCEPT !.filter = f] /\ starts' = Fresh(starts)
                     /\ wake' = StartWindow - starts'[1] /\ UNCHANGED <<asked, scan, backoff, retry>>
             /\ UNCHANGED <<leaseVars, runVars, refresh>>
  /\ UNCHANGED <<duty, adapter, missed, swallowed, acts, downs>>

Throttled ==
  /\ at = "throttled" /\ wake = 0 /\ Call(plan.filter)
  /\ UNCHANGED <<leaseVars, runVars, refresh, duty, adapter, missed, swallowed, acts, downs>>

\* The platform's answer; Bluetooth may have gone off meanwhile.
Started ==
  /\ at = "starting"
  /\ scan' = IF scan.is = "starting" THEN [scan EXCEPT !.is = "on"] ELSE scan
  /\ runningFilter' = plan.filter /\ runningDuty' = plan.duty /\ backoff' = 0 /\ refresh' = RestartEvery
  /\ Served(Head(chain)) /\ Finish
  /\ UNCHANGED <<wake, starts, asked, duty, retry, adapter, missed, swallowed, acts, downs>>

\* A start that fails: without Bluetooth, or at the platform, which then says
\* that it does not scan. The lease it was for is released; a retry is tried
\* again (_onScanningFailed).
StartFailed ==
  /\ at \in {"starting", "refused"}
  /\ (IF scan.is = "starting" THEN downs < MaxDown /\ acts + downs < MaxEvents /\ downs' = downs + 1 ELSE UNCHANGED downs)
  /\ scan' = Off /\ Finish
  /\ LET job == Head(chain)
         again == job.by = "retry" /\ Leases(lease) # {}
     IN /\ lease' = IF job.by = "acquire" THEN [lease EXCEPT ![job.of] = "failing"] ELSE lease
        /\ runningFilter' = IF again THEN {} ELSE NoScan
        /\ IF again THEN Noticed({}) ELSE IF scan # Off THEN Noticed(runningFilter) ELSE UNCHANGED <<backoff, retry>>
  /\ UNCHANGED <<wake, starts, asked, runningDuty, duty, refresh, adapter, missed, swallowed, acts>>

-----------------------------------------------------------------------------
\* The timer of a scan that was seen to stop.
RetryFires ==
  /\ retry = 0 /\ retry' = Unarmed
  /\ IF Leases(lease) = {} THEN UNCHANGED <<backoff, runningFilter, chain>>
     ELSE IF scan # Off THEN backoff' = 0 /\ UNCHANGED <<runningFilter, chain>>
     ELSE runningFilter' = NoScan /\ chain' = Append(chain, Job(TRUE, "retry", NoScan)) /\ UNCHANGED backoff
  /\ swallowed' = (swallowed \/ (runningFilter = NoScan /\ scan.is = "starting"))
  /\ UNCHANGED <<lease, jobVars, runningDuty, duty, refresh, adapter, scan, missed, acts, downs>>

\* The timer of a scan that has run for long.
RefreshFires ==
  /\ refresh = 0 /\ refresh' = Unarmed /\ chain' = Append(chain, Job(TRUE, "refresh", NoScan))
  /\ UNCHANGED <<lease, jobVars, runVars, duty, backoff, retry, adapter, scan, missed, swallowed, acts, downs>>

Less(n) == IF n = Unarmed THEN Unarmed ELSE n - 1
Older(ages) == [i \in DOMAIN ages |-> IF ages[i] < StartWindow THEN ages[i] + 1 ELSE StartWindow]

\* Time passes when nothing is due: the chain waits only for the throttle and
\* the platform.
ScanTick ==
  /\ 0 \notin {wake, retry, refresh} /\ (chain = <<>> \/ at \in {"throttled", "starting"}) /\ \A c \in Client : lease[c] # "failing"
  /\ wake' = Less(wake) /\ retry' = Less(retry) /\ refresh' = Less(refresh)
  /\ starts' = Older(starts) /\ asked' = Fresh(Older(asked))
  /\ UNCHANGED <<leaseVars, at, plan, runVars, duty, backoff, adapter, scan, missed, swallowed, acts, downs>>

Works ==
  Apply \/ Throttled \/ Started \/ StartFailed \/ RetryFires \/ RefreshFires \/ \E c \in Client : ReleaseFailed(c)

ScanNext == Act \/ StopsByItself \/ Works \/ ScanTick

\* The event loop runs, the platform answers, time passes.
ScanFair == WF_scanVars(Works) /\ WF_scanVars(ScanTick)
ScanSpec == ScanInit /\ [][ScanNext]_scanVars /\ ScanFair

-----------------------------------------------------------------------------
ScanTypeOK ==
  /\ \A c \in Client : lease[c] \in {"none", "asked", "held", "failing"}
  /\ at \in {"ready", "throttled", "starting", "refused"} /\ (at # "ready" => chain # <<>>)
  /\ \A c \in Client : lease[c] = "asked" => \E i \in DOMAIN chain : chain[i] = Job(FALSE, "acquire", c)
  /\ (scan # Off => adapter)

\* With every change made, what scans is what the leases ask for: nothing
\* scans for nobody, and a scan covers every lease, at the duty of the power
\* policy unless that changed during a first start (setDuty's running check). And
\* Android never sees more than MaxStarts starts within the window.
ScanAsHeld ==
  /\ chain = <<>> /\ (\A c \in Client : lease[c] # "failing") =>
       IF Leases(lease) = {} THEN scan = Off
       ELSE scan.is = "on" => Union(lease) \subseteq scan.filter /\ (scan.duty = duty \/ missed)
  /\ Len(Fresh(asked)) <= MaxStarts

HeldScans == Leases(lease) = {} \/ ~adapter \/ (scan.is = "on" /\ Union(lease) \subseteq scan.filter)

\* While leases are held and Bluetooth is on it comes to scan for them again and
\* again, whatever stopped it; unless the retry timer fired while a start was
\* under way and took it for a scan.
ScansOn == []<>(HeldScans \/ swallowed)
=============================================================================
