------------------------------ MODULE Session ------------------------------
(***************************************************************************)
(* internal/transport/bp35a1: how the PANA session with the smart meter is *)
(* set up, watched and restored.                                           *)
(*                                                                         *)
(*   - the reader goroutine (reader.go) turns the module's lines into the  *)
(*     session flags, the reconnect signal and the events and epans        *)
(*     channels;                                                           *)
(*   - the manager (session.go) is Open's setup() until Open returns and   *)
(*     the goroutine manage() afterwards;                                  *)
(*   - the client's watchdog calls Reconnect (bp35a1.go) at any moment.    *)
(*                                                                         *)
(* The module and the meter are the environment. The three commands        *)
(* before SKJOIN, and the commands of initModule, change nothing that is   *)
(* modelled, so each group is one step that succeeds or fails.             *)
(***************************************************************************)
EXTENDS Naturals, Sequences, SequencesExt

CONSTANTS Epans,         \* the networks a meter can be found on
          NoEpan,        \* no network: an empty cache, nothing found
          RescanAfter,   \* rescanAfterFailures = 5
          ResetAfter,    \* resetAfterFailures = 20
          EventBuffer,   \* capacity of events, 16
          EpanBuffer,    \* capacity of epans, 4
          MaxReports,    \* bound: EPANDESCs the module sends for one scan
          MaxJoins,      \* bound: SKJOINs the module has not answered
          MaxFaults,     \* bound: faults of the environment in a behaviour
          LateJoins      \* may a join result come after its 30 s wait?

ASSUME SessionAssumption ==
  /\ NoEpan \notin Epans
  /\ RescanAfter \in Nat \ {0} /\ ResetAfter \in Nat \ {0}
  /\ ResetAfter % RescanAfter = 0      \* failures wrap at ResetAfter, see below
  /\ EventBuffer \in Nat \ {0} /\ EpanBuffer \in Nat \ {0}
  /\ MaxReports \in Nat /\ MaxJoins \in Nat \ {0} /\ MaxFaults \in Nat
  /\ LateJoins \in BOOLEAN

(* EVENT codes, as far as the code tells them apart: PANA connected (25),  *)
(* failed (24), session lost (26-29), transmit limit on and off (32, 33),  *)
(* active scan over (22), any other (20, 21, ...).                         *)
Events == {"joined", "refused", "lost", "limitOn", "limitOff", "scanned", "other"}
Nothing == "nothing"

(* The module has no session, has one that the meter knows, or one that    *)
(* the meter has forgotten: SKSENDTO is then accepted and nobody answers.  *)
Sessions == {"none", "up", "dead"}

VARIABLES
  est, txAllowed,        \* sessionEst and txAllowed
  token,                 \* is reconnectCh full (capacity 1)?
  events, epans,         \* the two channels
  rd, item,              \* reader: control, the EVENT or Epan in its hands
  pc, mode,              \* manager: control; Open from cache or scan, or running
  epan, found,           \* the network to join; the one scan found
  failures, duration,    \* reestablish's counter; scan's duration, 6 or 7
  cache,                 \* what the EPAN cache file holds
  wd,                    \* Reconnect: idle, or between its two statements
  closed,                \* closed channel, cancelled context and closed port
  configured,            \* module: initialised
  pana,                  \* module: its PANA session, see Sessions
  limit,                 \* module: it may not transmit for now (ARIB)
  joins, scanning,       \* module: joins to answer; reports left, 0 if idle
  meterEpan,             \* the network the meter is on
  faults,                \* faults left
  owed,                  \* history: a loss cleared est and manage has not
                         \* started on it yet
  abandoned              \* history: scans the module ran with nobody to take
                         \* their Epans, since the channel was last drained

flags == <<est, txAllowed, token>>
queues == <<events, epans>>
reader == <<rd, item>>
manager == <<pc, mode, epan, found, failures, duration>>
module == <<configured, pana, limit, joins, scanning, meterEpan>>
history == <<owed, abandoned>>
vars == <<flags, queues, reader, manager, cache, wd, closed, module, faults, history>>

(* A fresh Device, before initModule, with whatever is cached. *)
Init ==
  /\ est = FALSE /\ txAllowed = TRUE /\ token = FALSE
  /\ events = <<>> /\ epans = <<>>
  /\ rd = "ready" /\ item = Nothing
  /\ pc = "init" /\ mode = "fresh"
  /\ epan = NoEpan /\ found = NoEpan /\ failures = 0 /\ duration = 6
  /\ wd = "idle" /\ closed = FALSE /\ owed = FALSE /\ abandoned = 0
  /\ cache \in Epans \cup {NoEpan}
  /\ configured = FALSE /\ pana = "none" /\ limit = FALSE /\ joins = <<>> /\ scanning = 0
  /\ meterEpan \in Epans
  /\ faults = MaxFaults

Fault == faults > 0 /\ faults' = faults - 1

-----------------------------------------------------------------------------
(* The reader. A line reaches it when the module sends it and the reader   *)
(* is ready for it; until then it waits in the serial port.                *)

(* handleEvent, first part: the flags. *)
ReadEvent(e) ==
  /\ rd = "ready"
  /\ rd' = IF e = "lost" THEN "signal" ELSE "push"
  /\ item' = e
  /\ est' = (e = "joined" \/ (est /\ e # "lost"))
  /\ txAllowed' = (e = "limitOff" \/ (txAllowed /\ e # "limitOn"))
  /\ owed' = (owed \/ e = "lost")
  /\ UNCHANGED <<token, queues>>

(* A mutant: the signal goes the way of the events, dropped when full.     *)
BugSignalDropped ==
  /\ rd = "signal"
  /\ token' = (token \/ Len(events) < EventBuffer)
  /\ rd' = "push"
  /\ UNCHANGED <<est, txAllowed, queues, item, manager, cache, wd, closed, module,
                 faults, history>>

(* signalReconnect: a token that is already there stands for this one too. *)
SignalLoss ==
  /\ rd = "signal"
  /\ token' = TRUE
  /\ rd' = "push"
  /\ UNCHANGED <<est, txAllowed, queues, item, manager, cache, wd, closed, module,
                 faults, history>>

(* handleEvent, last part: dropped when events is full. *)
PushEvent ==
  /\ rd = "push"
  /\ events' = IF Len(events) < EventBuffer THEN Append(events, item) ELSE events
  /\ rd' = "ready" /\ item' = Nothing
  /\ UNCHANGED <<flags, epans, manager, cache, wd, closed, module, faults, history>>

(* processEpandesc: the sixth field completes an Epan ... *)
ReadEpan(e) ==
  /\ rd = "ready"
  /\ rd' = "epan" /\ item' = e
  /\ UNCHANGED <<flags, queues, owed>>

(* ... and the reader waits for room in epans. *)
PushEpan ==
  /\ rd = "epan" /\ Len(epans) < EpanBuffer
  /\ epans' = Append(epans, item)
  /\ rd' = "ready" /\ item' = Nothing
  /\ UNCHANGED <<flags, events, manager, cache, wd, closed, module, faults, history>>

(* A mutant: the wait for room in epans does not look at closed.           *)
BugReaderDeaf ==
  /\ closed /\ rd = "ready"
  /\ rd' = "stopped" /\ item' = Nothing
  /\ UNCHANGED <<flags, queues, manager, cache, wd, closed, module, faults, history>>

(* readLoop sees the context done, or the closed channel while it waits.   *)
ReaderStops ==
  /\ closed /\ rd \in {"ready", "epan"}
  /\ rd' = "stopped" /\ item' = Nothing
  /\ UNCHANGED <<flags, queues, manager, cache, wd, closed, module, faults, history>>

(* Ten read errors in a row: readLoop returns and its defer closes all.    *)
PortDies ==
  /\ ~closed /\ rd = "ready" /\ Fault
  /\ rd' = "stopped" /\ closed' = TRUE
  /\ UNCHANGED <<flags, queues, item, manager, cache, wd, module, history>>

-----------------------------------------------------------------------------
(* The manager. A command gets its result through the reader, which has to *)
(* be done with the lines before it: a reader that waits for room in epans *)
(* makes every command time out.                                           *)
Answering == ~closed /\ rd # "epan"
Stuck == rd = "epan" /\ Len(epans) = EpanBuffer
Opening == mode \in {"cached", "fresh"}
Elsewhere == UNCHANGED <<est, txAllowed, reader, wd, owed>>
Kept == UNCHANGED abandoned

(* setup and establish give up: Open closes the device. *)
OpenFails ==
  /\ Opening
  /\ pc' = "failed" /\ closed' = TRUE
  /\ UNCHANGED <<mode, epan, found, failures, duration>>

(* SKRESET ends what the module was at. The transmit limit may outlive it  *)
(* or not; no EVENT tells.                                                 *)
Reset == /\ pana' = "none" /\ joins' = <<>> /\ scanning' = 0
         /\ limit' \in {limit, FALSE}

(* initModule, from Open or from the ladder: SKRESET and the settings.     *)
InitModule ==
  /\ pc = "init" /\ Answering
  /\ Reset /\ configured' = TRUE
  /\ IF mode = "running"
       THEN pc' = "scan" /\ UNCHANGED <<mode, epan>>
       ELSE IF cache # NoEpan
         THEN pc' = "join" /\ mode' = "cached" /\ epan' = cache
         ELSE pc' = "scan" /\ UNCHANGED <<mode, epan>>
  /\ duration' = 6
  /\ UNCHANGED <<token, queues, found, failures, cache, closed, meterEpan, faults>>
  /\ Elsewhere /\ Kept

(* A command of initModule, or getVersions, fails: before SKRESET took     *)
(* effect or after it, with the settings made or not. The ladder logs it.  *)
InitModuleFails ==
  /\ pc = "init" /\ ((Stuck /\ UNCHANGED faults) \/ Fault)
  /\ \/ UNCHANGED module
     \/ Reset /\ configured' \in BOOLEAN /\ UNCHANGED meterEpan
  /\ \/ OpenFails
     \/ /\ mode = "running"
        /\ pc' = "scan" /\ duration' = 6
        /\ UNCHANGED <<mode, epan, found, failures, closed>>
  /\ UNCHANGED <<token, queues, cache>>
  /\ Elsewhere /\ Kept

(* scan gives up: Open fails, the ladder goes on with the network it had. *)
ScanGivesUp ==
  \/ OpenFails
  \/ /\ mode = "running"
     /\ pc' = "join"
     /\ UNCHANGED <<mode, epan, found, failures, duration, closed>>

(* SKSCAN is accepted. *)
StartScan ==
  /\ pc = "scan" /\ Answering /\ scanning = 0
  /\ scanning' = MaxReports + 1
  /\ pc' = "scanWait" /\ found' = NoEpan
  /\ UNCHANGED <<token, queues, mode, epan, failures, duration, cache, closed,
                 configured, pana, limit, joins, meterEpan, faults>>
  /\ Elsewhere /\ Kept

(* SKSCAN gets no OK: refused while a scan is on, lost before the module   *)
(* or after it, or behind a reader that is stuck.                          *)
StartScanFails ==
  /\ pc = "scan"
  /\ \/ ((scanning > 0 \/ Stuck) /\ UNCHANGED <<faults, scanning, abandoned>>)
     \/ (Fault /\ UNCHANGED <<scanning, abandoned>>)
     \/ /\ Fault /\ scanning = 0 /\ scanning' = MaxReports + 1
        /\ abandoned' = abandoned + 1
  /\ ScanGivesUp
  /\ UNCHANGED <<token, queues, cache, configured, pana, limit, joins, meterEpan>>
  /\ Elsewhere

TakeEpan ==
  /\ pc = "scanWait" /\ epans # <<>>
  /\ found' = Head(epans) /\ epans' = Tail(epans)
  /\ UNCHANGED <<token, events, pc, mode, epan, failures, duration, cache, closed,
                 module, faults>>
  /\ Elsewhere /\ Kept

(* A mutant: one pass too many.                                            *)
BugOnePassMore(e) ==
  \/ /\ e # NoEpan
     /\ epan' = e /\ pc' = "join"
     /\ cache' \in {e, cache, NoEpan}
     /\ UNCHANGED <<mode, found, failures, duration, closed>>
  \/ /\ e = NoEpan /\ duration <= 7
     /\ duration' = duration + 1 /\ pc' = "scan"
     /\ UNCHANGED <<mode, epan, found, failures, cache, closed>>

(* A pass of scan ends with network e or NoEpan; scanAndCache writes the   *)
(* file, which a failed write leaves as it was or cut short.               *)
EndPass(e) ==
  \/ /\ e # NoEpan
     /\ epan' = e /\ pc' = "join"
     /\ cache' \in {e, cache, NoEpan}
     /\ UNCHANGED <<mode, found, failures, duration, closed>>
  \/ /\ e = NoEpan /\ duration < 7
     /\ duration' = duration + 1 /\ pc' = "scan"
     /\ UNCHANGED <<mode, epan, found, failures, cache, closed>>
  \/ /\ e = NoEpan /\ duration = 7
     /\ ScanGivesUp
     /\ UNCHANGED cache

(* A mutant: what is in epans when EVENT 22 is taken stays there.          *)
BugNoDrain ==
  /\ pc = "scanWait" /\ events # <<>> /\ Head(events) = "scanned"
  /\ events' = Tail(events)
  /\ abandoned' = IF scanning > 0 \/ rd = "epan" THEN 1 ELSE 0
  /\ EndPass(found)
  /\ UNCHANGED <<token, epans, module, faults>>
  /\ Elsewhere

(* drainEpan *)
TakeScanned ==
  /\ pc = "scanWait" /\ events # <<>> /\ Head(events) = "scanned"
  /\ events' = Tail(events) /\ epans' = <<>>
  /\ abandoned' = IF scanning > 0 \/ rd = "epan" THEN 1 ELSE 0    \* an earlier 22
  /\ EndPass(IF epans = <<>> THEN found ELSE Last(epans))
  /\ UNCHANGED <<token, module, faults>>
  /\ Elsewhere

(* 30 s without an event or an Epan: the EVENT 22 was lost, or it is late  *)
(* and the scan goes on.                                                   *)
ScanTimeout ==
  /\ pc = "scanWait" /\ events = <<>> /\ epans = <<>>
  /\ IF scanning = 0 /\ rd = "ready"
       THEN UNCHANGED <<faults, abandoned>>
       ELSE Fault /\ abandoned' = abandoned + 1
  /\ EndPass(found)
  /\ UNCHANGED <<token, queues, module>>
  /\ Elsewhere

(* manage, scan and connect pass over the events they do not wait for.     *)
Waited == IF pc = "scanWait" THEN {"scanned"}
          ELSE IF pc = "joinWait" THEN {"joined", "refused"} ELSE {}

SkipEvent ==
  /\ pc \in {"scanWait", "joinWait", "manage"} /\ events # <<>>
  /\ Head(events) \notin Waited
  /\ events' = Tail(events)
  /\ UNCHANGED <<token, epans, manager, cache, closed, module, faults>>
  /\ Elsewhere /\ Kept

(* connect fails: Open scans once if it used the cache, else gives up; the *)
(* ladder waits.                                                           *)
ConnectFails ==
  \/ /\ mode = "cached"
     /\ mode' = "fresh" /\ pc' = "scan" /\ duration' = 6
     /\ UNCHANGED <<epan, found, failures, closed>>
  \/ (mode = "fresh" /\ OpenFails)
  \/ /\ mode = "running"
     /\ pc' = "backoff"
     /\ UNCHANGED <<mode, epan, found, failures, duration, closed>>

(* SKSREG, SKSREG, SKLL64 and SKJOIN all answer OK. *)
StartJoin ==
  /\ pc = "join" /\ Answering /\ Len(joins) < MaxJoins
  /\ joins' = Append(joins, epan)
  /\ pc' = "joinWait"
  /\ UNCHANGED <<token, queues, mode, epan, found, failures, duration, cache, closed,
                 configured, pana, limit, scanning, meterEpan, faults>>
  /\ Elsewhere /\ Kept

(* One of them fails; if it is the OK of SKJOIN that is lost, the module   *)
(* joins all the same and its result comes when nobody waits for it.       *)
StartJoinFails ==
  /\ pc = "join"
  /\ \/ (Stuck /\ UNCHANGED <<faults, joins>>)
     \/ (Fault /\ UNCHANGED joins)
     \/ (Fault /\ LateJoins /\ Len(joins) < MaxJoins /\ joins' = Append(joins, epan))
  /\ ConnectFails
  /\ UNCHANGED <<token, queues, cache, configured, pana, limit, scanning, meterEpan>>
  /\ Elsewhere /\ Kept

(* A mutant: a fresh session discards the signals of the time before it.   *)
BugDropsSignal ==
  /\ pc = "joinWait" /\ events # <<>> /\ Head(events) = "joined"
  /\ events' = Tail(events) /\ token' = FALSE
  /\ pc' = "manage" /\ mode' = "running"
  /\ UNCHANGED <<epans, epan, found, failures, duration, cache, closed, module,
                 faults>>
  /\ Elsewhere /\ Kept

(* EVENT 25: connect returns the address, establish or reestablish returns *)
(* and the manager goes to manage().                                       *)
TakeJoined ==
  /\ pc = "joinWait" /\ events # <<>> /\ Head(events) = "joined"
  /\ events' = Tail(events)
  /\ pc' = "manage" /\ mode' = "running"
  /\ UNCHANGED <<token, epans, epan, found, failures, duration, cache, closed, module,
                 faults>>
  /\ Elsewhere /\ Kept

(* EVENT 24. *)
TakeRefused ==
  /\ pc = "joinWait" /\ events # <<>> /\ Head(events) = "refused"
  /\ events' = Tail(events)
  /\ ConnectFails
  /\ UNCHANGED <<token, epans, cache, module, faults>>
  /\ Elsewhere /\ Kept

(* 30 s without an event. Unless LateJoins, that happens only when the     *)
(* result is not coming: lost by a full events channel or a module reset.  *)
JoinTimeout ==
  /\ pc = "joinWait" /\ events = <<>>
  /\ LateJoins \/ (joins = <<>> /\ item \notin {"joined", "refused"})
  /\ ConnectFails
  /\ UNCHANGED <<token, queues, cache, module, faults>>
  /\ Elsewhere /\ Kept

(* A mutant: the rescan is tried first, and shadows the reset.             *)
BugRescanFirst(n) == IF n > 0 /\ n % RescanAfter = 0 THEN "scan"
                     ELSE IF n > 0 /\ n % ResetAfter = 0 THEN "init"
                     ELSE "join"

(* recoveryFor: what the ladder does before attempt number n (from 0).     *)
RecoveryFor(n) == IF n > 0 /\ n % ResetAfter = 0 THEN "init"
                  ELSE IF n > 0 /\ n % RescanAfter = 0 THEN "scan"
                  ELSE "join"

(* The backoff is over and reestablish loops. Only failures modulo         *)
(* ResetAfter matters, and whether it is 0 the first time: after           *)
(* ResetAfter it goes on from 1.                                           *)
NextAttempt ==
  /\ pc = "backoff" /\ ~closed
  /\ failures' = IF failures = ResetAfter THEN 1 ELSE failures + 1
  /\ pc' = RecoveryFor(failures')
  /\ duration' = 6
  /\ UNCHANGED <<token, queues, mode, epan, found, cache, closed, module, faults>>
  /\ Elsewhere /\ Kept

(* manage takes the reconnect token ... *)
TakeToken ==
  /\ pc = "manage" /\ token
  /\ token' = FALSE
  /\ pc' = "clear"
  /\ UNCHANGED <<queues, mode, epan, found, failures, duration, cache, closed, module,
                 faults>>
  /\ Elsewhere /\ Kept

(* ... clears the session flag and calls reestablish.                      *)
StartReestablish ==
  /\ pc = "clear"
  /\ est' = FALSE /\ owed' = FALSE /\ Kept
  /\ failures' = 0 /\ pc' = "join"
  /\ UNCHANGED <<txAllowed, token, queues, reader, mode, epan, found, duration, cache,
                 wd, closed, module, faults>>

(* Every wait and every command of the manager ends when the device is     *)
(* closed, and so does the manager.                                        *)
ManagerStops ==
  /\ closed /\ pc \notin {"clear", "failed", "stopped"}
  /\ pc' = IF mode = "running" THEN "stopped" ELSE "failed"
  /\ UNCHANGED <<flags, queues, reader, mode, epan, found, failures, duration, cache,
                 wd, closed, module, faults, history>>

-----------------------------------------------------------------------------
(* Device.Reconnect, called by the client's watchdog once Open returned:   *)
(* the session flag first, then the signal. The client calls it after      *)
(* misses, which it may have while the flag says there is a session and    *)
(* there is none; at other times it has them when the meter just does not  *)
(* answer, which is a fault.                                               *)
Reconnect ==
  /\ mode = "running" /\ wd = "idle" /\ ~closed
  /\ \/ (est /\ pana # "up" /\ UNCHANGED faults)
     \/ Fault
  /\ est' = FALSE /\ wd' = "signal" /\ owed' = TRUE /\ Kept
  /\ UNCHANGED <<txAllowed, token, queues, reader, manager, cache, closed, module>>

(* What makes misses certain. A request whose Send fails is none: Send     *)
(* must pass the two flags and the module accept SKSENDTO, as it does in a *)
(* session that only the meter has forgotten.                              *)
RequestsMissed ==
  /\ pc = "manage" /\ est /\ txAllowed
  /\ pana = "dead" /\ ~limit /\ ~Stuck

ReconnectSignals ==
  /\ wd = "signal"
  /\ token' = TRUE /\ wd' = "idle"
  /\ UNCHANGED <<est, txAllowed, queues, reader, manager, cache, closed, module, faults,
                 history>>

(* main closes the device; during Open the signal context makes Open fail. *)
Close ==
  /\ ~closed
  /\ closed' = TRUE
  /\ UNCHANGED <<flags, queues, reader, manager, cache, wd, module, faults, history>>

(* The process ends or is killed and is started again: only the cache file *)
(* and the module survive. Left out: a restart while a join is under way.  *)
Restart ==
  /\ Fault
  /\ joins = <<>>
  /\ est' = FALSE /\ txAllowed' = TRUE /\ token' = FALSE
  /\ events' = <<>> /\ epans' = <<>>
  /\ rd' = "ready" /\ item' = Nothing
  /\ pc' = "init" /\ mode' = "fresh"
  /\ epan' = NoEpan /\ found' = NoEpan /\ failures' = 0 /\ duration' = 6
  /\ wd' = "idle" /\ closed' = FALSE /\ owed' = FALSE
  /\ abandoned' = IF scanning > 0 THEN 1 ELSE 0
  /\ UNCHANGED <<cache, module>>

-----------------------------------------------------------------------------
(* The module and the meter. *)
Outside == UNCHANGED <<manager, cache, wd, closed, abandoned>>

(* The module answers its oldest join: with a session if it is set up and  *)
(* the meter is there; a good join may also fail.                          *)
JoinSucceeds ==
  /\ joins # <<>> /\ configured /\ Head(joins) = meterEpan
  /\ joins' = Tail(joins) /\ pana' = "up"
  /\ ReadEvent("joined")
  /\ UNCHANGED <<configured, limit, scanning, meterEpan, faults>>
  /\ Outside

JoinRefused ==
  /\ joins # <<>>
  /\ joins' = Tail(joins) /\ pana' \in {pana, "none"}
  /\ IF configured /\ Head(joins) = meterEpan THEN Fault ELSE UNCHANGED faults
  /\ ReadEvent("refused")
  /\ UNCHANGED <<configured, limit, scanning, meterEpan>>
  /\ Outside

(* A scan reports the meter's network, perhaps more than once, then ends;  *)
(* ending it without a report is a fault.                                  *)
ReportEpan ==
  /\ scanning > 1
  /\ scanning' = scanning - 1
  /\ ReadEpan(meterEpan)
  /\ UNCHANGED <<configured, pana, limit, joins, meterEpan, faults>>
  /\ Outside

EndScan ==
  /\ scanning > 0
  /\ scanning' = 0
  /\ IF scanning = MaxReports + 1 THEN Fault ELSE UNCHANGED faults
  /\ ReadEvent("scanned")
  /\ UNCHANGED <<configured, pana, limit, joins, meterEpan>>
  /\ Outside

(* The module ends the session and says so (EVENT 26 to 29).              *)
SessionLost ==
  /\ pana # "none" /\ Fault
  /\ pana' = "none"
  /\ ReadEvent("lost")
  /\ UNCHANGED <<configured, limit, joins, scanning, meterEpan>>
  /\ Outside

(* The meter restarts, on its network or another, and forgets the session. *)
MeterMoves ==
  /\ Fault
  /\ meterEpan' \in Epans
  /\ pana' = IF pana = "up" THEN "dead" ELSE pana
  /\ UNCHANGED <<flags, queues, reader, configured, limit, joins, scanning, owed>>
  /\ Outside

(* The module restarts, with its default settings and without a word.      *)
ModuleRestarts ==
  /\ Fault
  /\ configured' = FALSE /\ pana' = "none" /\ limit' = FALSE
  /\ joins' = <<>> /\ scanning' = 0
  /\ UNCHANGED <<flags, queues, reader, meterEpan, owed>>
  /\ Outside

(* The module has transmitted too much, for now.                           *)
LimitBegins ==
  /\ ~limit /\ Fault
  /\ limit' = TRUE
  /\ ReadEvent("limitOn")
  /\ UNCHANGED <<configured, pana, joins, scanning, meterEpan>>
  /\ Outside

LimitEnds ==
  /\ limit
  /\ limit' = FALSE
  /\ ReadEvent("limitOff")
  /\ UNCHANGED <<configured, pana, joins, scanning, meterEpan, faults>>
  /\ Outside

(* An event nobody waits for. *)
OtherEvent ==
  /\ Fault
  /\ ReadEvent("other")
  /\ UNCHANGED module
  /\ Outside

-----------------------------------------------------------------------------
ReaderStep == SignalLoss \/ PushEvent \/ PushEpan \/ ReaderStops

ManagerStep ==
  \/ InitModule  \/ InitModuleFails \/ StartScan   \/ StartScanFails \/ TakeEpan
  \/ TakeScanned \/ ScanTimeout     \/ SkipEvent   \/ StartJoin      \/ StartJoinFails
  \/ TakeJoined  \/ TakeRefused     \/ JoinTimeout \/ NextAttempt    \/ TakeToken
  \/ StartReestablish \/ ManagerStops

ModuleStep ==
  \/ JoinSucceeds \/ JoinRefused \/ ReportEpan \/ EndScan \/ SessionLost \/ MeterMoves
  \/ ModuleRestarts \/ LimitBegins \/ LimitEnds \/ OtherEvent

Next == ReaderStep \/ PortDies \/ ManagerStep \/ Reconnect \/ ReconnectSignals
        \/ Close \/ Restart \/ ModuleStep

Spec == Init /\ [][Next]_vars

(* Goroutines run, timers fire, the module answers a join or a scan and    *)
(* lifts its limit in the end, and a client that keeps sending and missing *)
(* has its watchdog fire: only while RequestsMissed. Faults, Close and     *)
(* Restart need not happen.                                                *)
Fairness ==
  /\ WF_vars(ReaderStep) /\ WF_vars(ManagerStep)
  /\ WF_vars(Reconnect /\ RequestsMissed /\ UNCHANGED faults) /\ WF_vars(ReconnectSignals)
  /\ WF_vars(JoinSucceeds \/ JoinRefused)
  /\ WF_vars(ReportEpan) /\ WF_vars(EndScan) /\ WF_vars(LimitEnds)

FairSpec == Spec /\ Fairness

-----------------------------------------------------------------------------
(* Properties *)

TypeOK ==
  /\ est \in BOOLEAN /\ txAllowed \in BOOLEAN /\ token \in BOOLEAN
  /\ events \in Seq(Events) /\ Len(events) <= EventBuffer
  /\ epans \in Seq(Epans) /\ Len(epans) <= EpanBuffer
  /\ rd \in {"ready", "signal", "push", "epan", "stopped"}
  /\ item \in Events \cup Epans \cup {Nothing}
  /\ pc \in {"init", "scan", "scanWait", "join", "joinWait", "backoff", "manage",
             "clear", "failed", "stopped"}
  /\ mode \in {"cached", "fresh", "running"}
  /\ epan \in Epans \cup {NoEpan} /\ found \in Epans \cup {NoEpan}
  /\ failures \in 0..ResetAfter /\ duration \in {6, 7}
  /\ cache \in Epans \cup {NoEpan}
  /\ wd \in {"idle", "signal"} /\ closed \in BOOLEAN
  /\ configured \in BOOLEAN /\ pana \in Sessions /\ limit \in BOOLEAN
  /\ joins \in Seq(Epans) /\ Len(joins) <= MaxJoins
  /\ scanning \in 0..(MaxReports + 1)
  /\ meterEpan \in Epans /\ faults \in 0..MaxFaults /\ owed \in BOOLEAN
  /\ abandoned \in 0..(MaxFaults + 1)

SignalComing == token \/ rd = "signal" \/ wd = "signal"

(* However losses coalesce in the one-place reconnect channel, whatever    *)
(* the manager is doing when they come and even with events full, a loss   *)
(* that cleared the session flag leads to a reconnect that starts after    *)
(* it (or the device is closed): the signal is on its way until manage()   *)
(* acts on it.                                                             *)
LossNeverForgotten == owed => SignalComing \/ pc = "clear" \/ closed

(* An idle manager with the session flag down has a signal coming. If not, *)
(* Send is refused from then on, no request times out, the watchdog never  *)
(* fires and nothing restores the session.                                 *)
NoSilentOutage == pc = "manage" /\ ~est => SignalComing

(* session_test.go:229-237 - when reestablish has succeeded the session    *)
(* flag is up, unless a new loss has already been noted.                   *)
SuccessMeansSession ==
  [][pc = "joinWait" /\ pc' = "manage" => est \/ SignalComing]_vars

(* Outside of a pass nobody takes Epans out, and when they fill the        *)
(* channel the reader stops for good, with every command behind it. What   *)
(* is left there, or in the reader's hands, was reported by abandoned      *)
(* scans: ones whose OK was lost, that a dead process had started, or that *)
(* were cut short by the EVENT 22 of such a scan. A pass that ran to its   *)
(* own end leaves nothing behind.                                          *)
OnlyAbandonedScansLeaveEpans ==
  ~closed /\ pc # "scanWait" =>
    Len(epans) + (IF rd = "epan" THEN 1 ELSE 0) <= MaxReports * abandoned

(* What that can end in: the reader waits and no pass is there to help.    *)
Wedged == Stuck /\ pc # "scanWait"

(* The two ways in which the client neither gets an answer nor misses one, *)
(* with the flag up: the module has ended the session without a word, and  *)
(* SKSENDTO may fail; or EVENT 33 never came, and Send refuses everything. *)
Unnoticed == est /\ pana = "none"
Muted == est /\ ~txAllowed /\ ~limit

(* Once the faults stop, the session comes back and stays: after EVENTs    *)
(* that report its loss, in whatever state of the manager and with any of  *)
(* them dropped from events; through the rescans and resets of the ladder  *)
(* where the network moved or the module lost its settings; by the         *)
(* watchdog where the meter alone forgot it. Unless the device is closed,  *)
(* by main or by a failed Open, the Epans of abandoned scans have wedged   *)
(* the reader, or the flag is up and no request can be missed.             *)
Recovers ==
  <>[](closed \/ Wedged \/ Unnoticed \/ Muted \/ (pc = "manage" /\ est /\ pana = "up"))

(* Close, or the death of the port, ends both goroutines wherever they     *)
(* wait.                                                                   *)
CloseStopsAll ==
  closed ~> (~closed \/ (rd = "stopped" /\ pc \in {"failed", "stopped"}))
=============================================================================
