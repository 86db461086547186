--------------------------- MODULE SessionProofs ---------------------------
(***************************************************************************)
(* What is proved of the session: for every set of networks, the capacity  *)
(* of the channels, the ladder's periods and any number of faults.         *)
(***************************************************************************)
EXTENDS Session, SequenceTheorems, TLAPS

-----------------------------------------------------------------------------
(* Type correctness. TypeOK does not say what the reader has in its hands  *)
(* when it pushes it, nor that a join has a network to join.               *)
ItemOK == /\ rd \in {"signal", "push"} => item \in Events
          /\ rd = "epan" => item \in Epans

EpanKnown ==
  mode # "fresh" \/ pc \in {"join", "joinWait", "backoff", "manage", "clear"} => epan \in Epans

(* An abandoned scan is paid for with a fault, or is the only one.         *)
AbandonedPaid == abandoned + faults <= MaxFaults + 1

QueuesOK == /\ events \in Seq(Events) /\ Len(events) <= EventBuffer
            /\ epans \in Seq(Epans) /\ Len(epans) <= EpanBuffer
            /\ joins \in Seq(Epans) /\ Len(joins) <= MaxJoins

(* TypeOK without the queues: the flags and the reader; the manager; the   *)
(* module and the bounds.                                                  *)
FlagsOK ==
  /\ est \in BOOLEAN /\ txAllowed \in BOOLEAN /\ token \in BOOLEAN
  /\ rd \in {"ready", "signal", "push", "epan", "stopped"}
  /\ item \in Events \cup Epans \cup {Nothing}
  /\ wd \in {"idle", "signal"} /\ closed \in BOOLEAN /\ owed \in BOOLEAN
ManagerOK ==
  /\ pc \in {"init", "scan", "scanWait", "join", "joinWait", "backoff", "manage",
             "clear", "failed", "stopped"}
  /\ mode \in {"cached", "fresh", "running"}
  /\ epan \in Epans \cup {NoEpan} /\ found \in Epans \cup {NoEpan}
  /\ failures \in 0..ResetAfter /\ duration \in {6, 7}
  /\ cache \in Epans \cup {NoEpan}
ModuleOK ==
  /\ configured \in BOOLEAN /\ pana \in Sessions /\ limit \in BOOLEAN
  /\ scanning \in 0..(MaxReports + 1)
  /\ meterEpan \in Epans
CountsOK == faults \in 0..MaxFaults /\ abandoned \in Nat /\ AbandonedPaid

TypeInv == QueuesOK /\ FlagsOK /\ ManagerOK /\ ModuleOK /\ CountsOK /\ ItemOK /\ EpanKnown

LEMMA Bounds ==
  /\ ResetAfter \in Nat \ {0} /\ MaxReports \in Nat /\ MaxFaults \in Nat
  /\ 0 \in 0..(MaxReports + 1) /\ NoEpan \notin Epans
BY SessionAssumption

LEMMA TypesImply == TypeInv => TypeOK
<1> SUFFICES ASSUME TypeInv PROVE TypeOK
  OBVIOUS
<1>1. abandoned \in 0..(MaxFaults + 1)
  BY Bounds DEF TypeInv, CountsOK, AbandonedPaid
<1> QED  BY <1>1 DEF TypeInv, QueuesOK, FlagsOK, ManagerOK, ModuleOK, CountsOK, TypeOK

(* A channel of capacity n after a receive or a send that finds room.      *)
LEMMA Channel ==
  ASSUME NEW S, NEW n \in Nat, NEW s \in Seq(S), Len(s) <= n
  PROVE  /\ Len(s) < n => \A x \in S : Append(s, x) \in Seq(S) /\ Len(Append(s, x)) <= n
         /\ s # <<>> => Tail(s) \in Seq(S) /\ Len(Tail(s)) <= n /\ Head(s) \in S
<1>1. CASE Len(s) < n
  BY <1>1, AppendProperties
<1>2. CASE s # <<>>
  BY <1>2, HeadTailProperties
<1> QED  BY <1>1, <1>2

LEMMA Channels == ASSUME QueuesOK PROVE
  /\ events # <<>> => /\ Tail(events) \in Seq(Events) /\ Len(Tail(events)) <= EventBuffer
                      /\ Head(events) \in Events
  /\ epans # <<>> => /\ Tail(epans) \in Seq(Epans) /\ Len(Tail(epans)) <= EpanBuffer
                     /\ Head(epans) \in Epans
  /\ joins # <<>> => /\ Tail(joins) \in Seq(Epans) /\ Len(Tail(joins)) <= MaxJoins
                     /\ Head(joins) \in Epans
  /\ Len(events) < EventBuffer => \A x \in Events : /\ Append(events, x) \in Seq(Events)
                                                    /\ Len(Append(events, x)) <= EventBuffer
  /\ Len(epans) < EpanBuffer => \A x \in Epans : /\ Append(epans, x) \in Seq(Epans)
                                                 /\ Len(Append(epans, x)) <= EpanBuffer
  /\ Len(joins) < MaxJoins => \A x \in Epans : /\ Append(joins, x) \in Seq(Epans)
                                               /\ Len(Append(joins, x)) <= MaxJoins
  /\ <<>> \in Seq(Events) /\ <<>> \in Seq(Epans) /\ Len(<<>>) = 0
<1>1. EventBuffer \in Nat /\ EpanBuffer \in Nat /\ MaxJoins \in Nat
  BY SessionAssumption
<1>2. /\ events \in Seq(Events) /\ Len(events) <= EventBuffer
      /\ epans \in Seq(Epans) /\ Len(epans) <= EpanBuffer
      /\ joins \in Seq(Epans) /\ Len(joins) <= MaxJoins
  BY DEF QueuesOK
<1>3. /\ events # <<>> => /\ Tail(events) \in Seq(Events) /\ Len(Tail(events)) <= EventBuffer
                          /\ Head(events) \in Events
      /\ Len(events) < EventBuffer => \A x \in Events : /\ Append(events, x) \in Seq(Events)
                                                        /\ Len(Append(events, x)) <= EventBuffer
  BY <1>1, <1>2, Channel
<1>4. /\ epans # <<>> => /\ Tail(epans) \in Seq(Epans) /\ Len(Tail(epans)) <= EpanBuffer
                         /\ Head(epans) \in Epans
      /\ Len(epans) < EpanBuffer => \A x \in Epans : /\ Append(epans, x) \in Seq(Epans)
                                                     /\ Len(Append(epans, x)) <= EpanBuffer
  BY <1>1, <1>2, Channel
<1>5. /\ joins # <<>> => /\ Tail(joins) \in Seq(Epans) /\ Len(Tail(joins)) <= MaxJoins
                         /\ Head(joins) \in Epans
      /\ Len(joins) < MaxJoins => \A x \in Epans : /\ Append(joins, x) \in Seq(Epans)
                                                   /\ Len(Append(joins, x)) <= MaxJoins
  BY <1>1, <1>2, Channel
<1> QED  BY <1>3, <1>4, <1>5, EmptySeq

LEMMA TypeInit == Init => TypeInv
<1> SUFFICES ASSUME Init PROVE TypeInv
  OBVIOUS
<1>1. QueuesOK
  BY SessionAssumption, EmptySeq DEF Init, QueuesOK
<1>2. FlagsOK /\ ModuleOK
  <2>1. FlagsOK
    BY DEF Init, FlagsOK
  <2> QED  BY <2>1, Bounds DEF Init, ModuleOK, Sessions
<1>3. ManagerOK
  BY Bounds DEF Init, ManagerOK
<1>4. CountsOK /\ ItemOK /\ EpanKnown
  BY Bounds DEF Init, CountsOK, ItemOK, EpanKnown, AbandonedPaid
<1> QED  BY <1>1, <1>2, <1>3, <1>4 DEF TypeInv

(* The queues: what a step may do to each of them.                         *)
LEMMA QueuesStep == TypeInv /\ [Next]_vars => QueuesOK'
<1> SUFFICES ASSUME TypeInv, [Next]_vars PROVE QueuesOK'
  OBVIOUS
<1> USE DEF flags, queues, reader, manager, module, history
<1>0. QueuesOK /\ ItemOK /\ EpanKnown
  BY DEF TypeInv
<1>a. ASSUME UNCHANGED <<events, epans, joins>> PROVE QueuesOK'
  BY <1>0, <1>a DEF QueuesOK
<1>b. ASSUME events # <<>>, events' = Tail(events), UNCHANGED <<epans, joins>> PROVE QueuesOK'
  BY <1>0, <1>b, Channels DEF QueuesOK
<1>1. CASE SignalLoss \/ ReaderStops \/ PortDies \/ Reconnect \/ ReconnectSignals \/ Close
  BY <1>1, <1>a DEF SignalLoss, ReaderStops, PortDies, Reconnect, ReconnectSignals, Close
<1>2. CASE PushEvent
  <2>1. item \in Events /\ UNCHANGED <<epans, joins>>
    BY <1>2, <1>0 DEF PushEvent, ItemOK
  <2> QED  BY <1>2, <2>1, <1>0, Channels DEF PushEvent, QueuesOK
<1>3. CASE PushEpan
  <2>1. item \in Epans /\ UNCHANGED <<events, joins>>
    BY <1>3, <1>0 DEF PushEpan, ItemOK
  <2> QED  BY <1>3, <2>1, <1>0, Channels DEF PushEpan, QueuesOK
<1>4. CASE Restart
  BY <1>4, <1>0, Channels, SessionAssumption DEF Restart, QueuesOK
<1>5. CASE InitModule \/ InitModuleFails
  <2>1. UNCHANGED <<events, epans>> /\ joins' \in {joins, <<>>}
    BY <1>5 DEF InitModule, InitModuleFails, Reset
  <2>2. CASE joins' = <<>>
    BY <2>1, <2>2, <1>0, Channels, SessionAssumption DEF QueuesOK
  <2>3. CASE joins' = joins
    BY <2>1, <2>3, <1>a
  <2> QED  BY <2>1, <2>2, <2>3
<1>6. CASE StartScan \/ StartScanFails \/ ScanTimeout \/ JoinTimeout \/ NextAttempt
           \/ TakeToken \/ StartReestablish \/ ManagerStops
  BY <1>6, <1>a DEF StartScan, StartScanFails, ScanTimeout, JoinTimeout, NextAttempt,
     TakeToken, StartReestablish, ManagerStops
<1>7. CASE TakeEpan
  BY <1>7, <1>0, Channels DEF TakeEpan, QueuesOK
<1>8. CASE TakeScanned
  BY <1>8, <1>0, Channels, SessionAssumption DEF TakeScanned, QueuesOK
<1>9. CASE SkipEvent \/ TakeJoined \/ TakeRefused
  BY <1>9, <1>b DEF SkipEvent, TakeJoined, TakeRefused
<1>10. CASE StartJoin \/ StartJoinFails
  <2>1. /\ UNCHANGED <<events, epans>> /\ epan \in Epans
        /\ joins' = joins \/ (Len(joins) < MaxJoins /\ joins' = Append(joins, epan))
    BY <1>10, <1>0 DEF StartJoin, StartJoinFails, EpanKnown
  <2> QED  BY <2>1, <1>0, Channels DEF QueuesOK
<1>11. CASE JoinSucceeds \/ JoinRefused
  <2>1. UNCHANGED <<events, epans>> /\ joins # <<>> /\ joins' = Tail(joins)
    BY <1>11 DEF JoinSucceeds, JoinRefused, ReadEvent
  <2> QED  BY <2>1, <1>0, Channels DEF QueuesOK
<1>12. CASE \/ ReportEpan \/ EndScan \/ SessionLost \/ MeterMoves \/ LimitBegins
            \/ LimitEnds \/ OtherEvent
  BY <1>12, <1>a DEF ReportEpan, EndScan, SessionLost, MeterMoves, LimitBegins, LimitEnds,
     OtherEvent, ReadEvent, ReadEpan
<1>13. CASE ModuleRestarts
  BY <1>13, <1>0, Channels, SessionAssumption DEF ModuleRestarts, QueuesOK
<1>14. CASE UNCHANGED vars
  BY <1>14, <1>a DEF vars
<1> QED
  BY <1>1, <1>2, <1>3, <1>4, <1>5, <1>6, <1>7, <1>8, <1>9, <1>10, <1>11, <1>12, <1>13, <1>14
  DEF Next, ReaderStep, ManagerStep, ModuleStep

(* The flags, the reader and the watchdog.                                 *)
LEMMA FlagsStep == TypeInv /\ [Next]_vars => FlagsOK' /\ ItemOK'
<1> SUFFICES ASSUME TypeInv, [Next]_vars PROVE FlagsOK' /\ ItemOK'
  OBVIOUS
<1>0. FlagsOK /\ ItemOK /\ QueuesOK
  BY DEF TypeInv
<1> USE DEF flags, queues, reader, manager, module, history
<1>1. CASE SignalLoss \/ PushEvent \/ PushEpan
  BY <1>0, <1>1 DEF SignalLoss, PushEvent, PushEpan, FlagsOK, ItemOK
<1>2. CASE ReaderStops \/ PortDies
  BY <1>0, <1>2 DEF ReaderStops, PortDies, FlagsOK, ItemOK
<1>3. ASSUME Elsewhere, token' \in {token, FALSE}, closed' \in BOOLEAN PROVE FlagsOK' /\ ItemOK'
  BY <1>0, <1>3 DEF Elsewhere, FlagsOK, ItemOK
<1>4. CASE \/ InitModule \/ InitModuleFails \/ StartScan \/ StartScanFails \/ TakeEpan
           \/ TakeScanned \/ ScanTimeout
  <2>1. Elsewhere /\ token' = token
    BY <1>4 DEF InitModule, InitModuleFails, StartScan, StartScanFails, TakeEpan, TakeScanned,
       ScanTimeout
  <2>2. closed' \in {closed, TRUE}
    BY <1>4 DEF InitModule, InitModuleFails, StartScan, StartScanFails, TakeEpan, TakeScanned,
       ScanTimeout, EndPass, ScanGivesUp, OpenFails
  <2> QED  BY <2>1, <2>2, <1>0, <1>3 DEF FlagsOK
<1>5. CASE \/ SkipEvent \/ StartJoin \/ StartJoinFails \/ TakeJoined \/ TakeRefused
           \/ JoinTimeout \/ NextAttempt \/ TakeToken
  <2>1. Elsewhere /\ token' \in {token, FALSE}
    BY <1>5 DEF SkipEvent, StartJoin, StartJoinFails, TakeJoined, TakeRefused, JoinTimeout,
       NextAttempt, TakeToken
  <2>2. closed' \in {closed, TRUE}
    BY <1>5 DEF SkipEvent, StartJoin, StartJoinFails, TakeJoined, TakeRefused, JoinTimeout,
       NextAttempt, TakeToken, ConnectFails, OpenFails
  <2> QED  BY <2>1, <2>2, <1>0, <1>3 DEF FlagsOK
<1>6. CASE StartReestablish \/ ManagerStops
  BY <1>0, <1>6 DEF StartReestablish, ManagerStops, FlagsOK, ItemOK
<1>7. CASE Reconnect \/ ReconnectSignals \/ Close
  BY <1>0, <1>7 DEF Reconnect, ReconnectSignals, Close, FlagsOK, ItemOK
<1>8. CASE Restart
  BY <1>0, <1>8 DEF Restart, FlagsOK, ItemOK
<1>9. ASSUME NEW e \in Events, ReadEvent(e), Outside PROVE FlagsOK' /\ ItemOK'
  BY <1>0, <1>9 DEF ReadEvent, Outside, FlagsOK, ItemOK
<1>10. CASE \/ JoinSucceeds \/ JoinRefused \/ EndScan \/ SessionLost \/ LimitBegins
            \/ LimitEnds \/ OtherEvent
  BY <1>9, <1>10 DEF JoinSucceeds, JoinRefused, EndScan, SessionLost, LimitBegins, LimitEnds,
     OtherEvent, Events
<1>11. CASE ReportEpan
  <2>1. meterEpan \in Epans
    BY DEF TypeInv, ModuleOK
  <2> QED  BY <1>0, <1>11, <2>1 DEF ReportEpan, ReadEpan, Outside, FlagsOK, ItemOK
<1>12. CASE MeterMoves \/ ModuleRestarts
  BY <1>0, <1>12 DEF MeterMoves, ModuleRestarts, Outside, FlagsOK, ItemOK
<1>13. CASE UNCHANGED vars
  BY <1>0, <1>13 DEF vars, FlagsOK, ItemOK
<1> QED
  BY <1>1, <1>2, <1>4, <1>5, <1>6, <1>7, <1>8, <1>10, <1>11, <1>12, <1>13
  DEF Next, ReaderStep, ManagerStep, ModuleStep

(* The manager: the network it joins, the pass of the scan, the ladder.    *)
LEMMA ManagerTypes == TypeInv /\ [Next]_vars => ManagerOK' /\ EpanKnown'
<1> SUFFICES ASSUME TypeInv, [Next]_vars PROVE ManagerOK' /\ EpanKnown'
  OBVIOUS
<1>0. ManagerOK /\ EpanKnown /\ QueuesOK
  BY DEF TypeInv
<1> USE Bounds DEF manager
<1>1. ASSUME UNCHANGED <<manager, cache>> PROVE ManagerOK' /\ EpanKnown'
  BY <1>0, <1>1 DEF ManagerOK, EpanKnown
<1>2. CASE ReaderStep \/ PortDies \/ Reconnect \/ ReconnectSignals \/ Close \/ SkipEvent
  BY <1>1, <1>2 DEF ReaderStep, SignalLoss, PushEvent, PushEpan, ReaderStops, PortDies,
     Reconnect, ReconnectSignals, Close, SkipEvent
<1>3. CASE ModuleStep
  BY <1>1, <1>3 DEF ModuleStep, JoinSucceeds, JoinRefused, ReportEpan, EndScan, SessionLost,
     MeterMoves, ModuleRestarts, LimitBegins, LimitEnds, OtherEvent, Outside
<1>4. CASE Restart
  BY <1>0, <1>4 DEF Restart, ManagerOK, EpanKnown
<1>5. CASE InitModule
  BY <1>0, <1>5 DEF InitModule, ManagerOK, EpanKnown
<1>6. CASE InitModuleFails
  BY <1>0, <1>6 DEF InitModuleFails, OpenFails, ManagerOK, EpanKnown
<1>7. CASE StartScan
  BY <1>0, <1>7 DEF StartScan, ManagerOK, EpanKnown
<1>8. CASE StartScanFails
  BY <1>0, <1>8 DEF StartScanFails, ScanGivesUp, OpenFails, ManagerOK, EpanKnown
<1>9. CASE TakeEpan
  BY <1>0, <1>9, Channels DEF TakeEpan, ManagerOK, EpanKnown
<1>10. ASSUME NEW e \in Epans \cup {NoEpan}, EndPass(e), pc = "scanWait"
       PROVE  ManagerOK' /\ EpanKnown'
  <2>1. CASE e # NoEpan /\ epan' = e /\ pc' = "join" /\ cache' \in {e, cache, NoEpan}
             /\ UNCHANGED <<mode, found, failures, duration, closed>>
    BY <1>0, <2>1 DEF ManagerOK, EpanKnown
  <2>2. CASE e = NoEpan /\ duration < 7 /\ duration' = duration + 1 /\ pc' = "scan"
             /\ UNCHANGED <<mode, epan, found, failures, cache, closed>>
    BY <1>0, <2>2 DEF ManagerOK, EpanKnown
  <2>3. CASE ScanGivesUp /\ UNCHANGED cache
    BY <1>0, <2>3 DEF ScanGivesUp, OpenFails, ManagerOK, EpanKnown
  <2> QED  BY <1>10, <2>1, <2>2, <2>3 DEF EndPass
<1>11. CASE TakeScanned
  <2>1. (IF epans = <<>> THEN found ELSE Last(epans)) \in Epans \cup {NoEpan}
    <3>1. ASSUME epans # <<>> PROVE Last(epans) \in Epans
      <4>1. epans \in Seq(Epans) /\ Len(epans) \in 1..Len(epans)
        BY <1>0, <3>1, EmptySeq DEF QueuesOK
      <4> QED  BY <4>1, ElementOfSeq DEF Last
    <3> QED  BY <1>0, <3>1 DEF ManagerOK
  <2> QED  BY <1>10, <1>11, <2>1 DEF TakeScanned
<1>12. CASE ScanTimeout
  BY <1>0, <1>10, <1>12 DEF ScanTimeout, ManagerOK
<1>13. CASE StartJoin
  BY <1>0, <1>13 DEF StartJoin, ManagerOK, EpanKnown
<1>14. CASE TakeJoined
  BY <1>0, <1>14 DEF TakeJoined, ManagerOK, EpanKnown
<1>15. CASE StartJoinFails \/ TakeRefused \/ JoinTimeout
  <2>1. ConnectFails /\ cache' = cache /\ pc \in {"join", "joinWait"}
    BY <1>15 DEF StartJoinFails, TakeRefused, JoinTimeout
  <2>2. CASE mode' = "fresh" /\ pc' = "scan" /\ duration' = 6
             /\ UNCHANGED <<epan, found, failures, closed>>
    BY <1>0, <2>1, <2>2 DEF ManagerOK, EpanKnown
  <2>3. CASE OpenFails \/ (pc' = "backoff" /\ UNCHANGED <<mode, epan, found, failures, duration>>)
    BY <1>0, <2>1, <2>3 DEF OpenFails, ManagerOK, EpanKnown
  <2> QED  BY <2>1, <2>2, <2>3 DEF ConnectFails
<1>16. CASE NextAttempt
  <2>1. pc' \in {"init", "scan", "join"} /\ pc = "backoff"
    BY <1>16 DEF NextAttempt, RecoveryFor
  <2>2. pc = "backoff" => epan \in Epans
    BY <1>0 DEF EpanKnown
  <2> QED  BY <1>0, <1>16, <2>1, <2>2 DEF NextAttempt, ManagerOK, EpanKnown
<1>17. CASE TakeToken \/ StartReestablish \/ ManagerStops
  BY <1>0, <1>17 DEF TakeToken, StartReestablish, ManagerStops, ManagerOK, EpanKnown
<1>18. CASE UNCHANGED vars
  BY <1>1, <1>18 DEF vars
<1> QED
  BY <1>2, <1>3, <1>4, <1>5, <1>6, <1>7, <1>8, <1>9, <1>11, <1>12, <1>13, <1>14, <1>15, <1>16,
     <1>17, <1>18 DEF Next, ManagerStep

(* The module and the counts.                                              *)
LEMMA ModuleTypes == TypeInv /\ [Next]_vars => ModuleOK' /\ CountsOK'
<1> SUFFICES ASSUME TypeInv, [Next]_vars PROVE ModuleOK' /\ CountsOK'
  OBVIOUS
<1>0. ModuleOK /\ CountsOK
  BY DEF TypeInv
<1> USE Bounds DEF module, history, Kept, Outside
<1>1. ASSUME UNCHANGED <<module, faults, abandoned>> PROVE ModuleOK' /\ CountsOK'
  BY <1>0, <1>1 DEF ModuleOK, CountsOK, AbandonedPaid
<1>2. ASSUME UNCHANGED <<configured, pana, limit, scanning, meterEpan, abandoned>>,
             Fault \/ UNCHANGED faults
      PROVE  ModuleOK' /\ CountsOK'
  BY <1>0, <1>2 DEF Fault, ModuleOK, CountsOK, AbandonedPaid
<1>c. ASSUME UNCHANGED abandoned, Fault \/ UNCHANGED faults PROVE CountsOK'
  BY <1>0, <1>c DEF Fault, CountsOK, AbandonedPaid
<1>m. ASSUME configured' \in BOOLEAN, pana' \in Sessions, limit' \in BOOLEAN,
             scanning' \in 0..(MaxReports + 1), UNCHANGED meterEpan
      PROVE  ModuleOK'
  BY <1>0, <1>m DEF ModuleOK
<1>3. CASE ReaderStep \/ ReconnectSignals \/ Close
  BY <1>1, <1>3 DEF ReaderStep, SignalLoss, PushEvent, PushEpan, ReaderStops, ReconnectSignals,
     Close
<1>4. CASE PortDies \/ Reconnect
  BY <1>2, <1>4 DEF PortDies, Reconnect
<1>5. CASE Restart
  BY <1>0, <1>5 DEF Restart, Fault, ModuleOK, CountsOK, AbandonedPaid
<1>6. CASE InitModule \/ InitModuleFails
  <2>1. /\ configured' \in {configured, TRUE, FALSE} /\ pana' \in {pana, "none"}
        /\ limit' \in {limit, FALSE}
        /\ scanning' \in {scanning, 0} /\ UNCHANGED <<meterEpan, abandoned>>
    BY <1>6 DEF InitModule, InitModuleFails, Reset
  <2>2. Fault \/ UNCHANGED faults
    BY <1>6 DEF InitModule, InitModuleFails
  <2>3. configured' \in BOOLEAN /\ pana' \in Sessions /\ limit' \in BOOLEAN
    BY <1>0, <2>1 DEF ModuleOK, Sessions
  <2>4. scanning' \in 0..(MaxReports + 1)
    BY <1>0, <2>1 DEF ModuleOK
  <2> QED  BY <2>1, <2>2, <2>3, <2>4, <1>c, <1>m
<1>7. CASE StartScan
  BY <1>0, <1>7 DEF StartScan, ModuleOK, CountsOK, AbandonedPaid
<1>8. CASE StartScanFails
  <2>1. UNCHANGED <<configured, pana, limit, meterEpan>>
    BY <1>8 DEF StartScanFails
  <2>2. \/ UNCHANGED <<scanning, abandoned>> /\ (Fault \/ UNCHANGED faults)
        \/ Fault /\ scanning' = MaxReports + 1 /\ abandoned' = abandoned + 1
    BY <1>8 DEF StartScanFails
  <2> QED  BY <1>0, <2>1, <2>2 DEF Fault, ModuleOK, CountsOK, AbandonedPaid
<1>9. CASE TakeEpan \/ SkipEvent \/ TakeJoined \/ TakeRefused \/ JoinTimeout \/ NextAttempt
           \/ TakeToken \/ StartReestablish \/ ManagerStops
  BY <1>1, <1>9 DEF TakeEpan, SkipEvent, TakeJoined, TakeRefused, JoinTimeout, NextAttempt,
     TakeToken, StartReestablish, ManagerStops
<1>10. CASE TakeScanned
  BY <1>0, <1>10 DEF TakeScanned, ModuleOK, CountsOK, AbandonedPaid
<1>11. CASE ScanTimeout
  BY <1>0, <1>11 DEF ScanTimeout, Fault, ModuleOK, CountsOK, AbandonedPaid
<1>12. CASE StartJoin \/ StartJoinFails
  BY <1>2, <1>12 DEF StartJoin, StartJoinFails
<1>13. CASE JoinSucceeds \/ JoinRefused \/ SessionLost
  <2>1. /\ UNCHANGED <<configured, limit, scanning, meterEpan, abandoned>>
        /\ pana' \in {pana, "up", "none"}
    BY <1>13 DEF JoinSucceeds, JoinRefused, SessionLost
  <2>2. Fault \/ UNCHANGED faults
    BY <1>13 DEF JoinSucceeds, JoinRefused, SessionLost
  <2>3. pana' \in Sessions
    BY <1>0, <2>1 DEF ModuleOK, Sessions
  <2> QED  BY <1>0, <2>1, <2>2, <2>3, <1>c, <1>m DEF ModuleOK
<1>14. CASE ReportEpan \/ EndScan
  <2>1. UNCHANGED <<configured, pana, limit, meterEpan, abandoned>>
    BY <1>14 DEF ReportEpan, EndScan
  <2>2. scanning > 0 /\ scanning' \in {scanning - 1, 0}
    BY <1>0, <1>14 DEF ReportEpan, EndScan, ModuleOK
  <2>3. Fault \/ UNCHANGED faults
    BY <1>14 DEF ReportEpan, EndScan
  <2>4. scanning' \in 0..(MaxReports + 1)
    BY <1>0, <2>2 DEF ModuleOK
  <2> QED  BY <1>0, <2>1, <2>3, <2>4, <1>c, <1>m DEF ModuleOK
<1>15. CASE MeterMoves
  <2>1. ModuleOK'
    BY <1>0, <1>15 DEF MeterMoves, ModuleOK, Sessions
  <2> QED  BY <2>1, <1>15, <1>c DEF MeterMoves
<1>16. CASE ModuleRestarts
  BY <1>16, <1>c, <1>m DEF ModuleRestarts, Sessions
<1>17. CASE OtherEvent
  BY <1>2, <1>17 DEF OtherEvent
<1>18. CASE LimitBegins \/ LimitEnds
  <2>1. UNCHANGED <<configured, pana, scanning, meterEpan, abandoned>> /\ limit' \in BOOLEAN
    BY <1>18 DEF LimitBegins, LimitEnds
  <2>2. Fault \/ UNCHANGED faults
    BY <1>18 DEF LimitBegins, LimitEnds
  <2> QED  BY <1>0, <2>1, <2>2, <1>c, <1>m DEF ModuleOK
<1>19. CASE UNCHANGED vars
  BY <1>1, <1>19 DEF vars
<1> QED
  BY <1>3, <1>4, <1>5, <1>6, <1>7, <1>8, <1>9, <1>10, <1>11, <1>12, <1>13, <1>14, <1>15, <1>16,
     <1>17, <1>18, <1>19 DEF Next, ManagerStep, ModuleStep

LEMMA TypeStep == TypeInv /\ [Next]_vars => TypeInv'
BY QueuesStep, FlagsStep, ManagerTypes, ModuleTypes DEF TypeInv

(* Every variable of the session keeps its type; the number of abandoned   *)
(* scans stays within the faults that can pay for them, and one.           *)
THEOREM SessionTypeCorrect == Spec => []TypeOK
BY TypesImply, TypeInit, TypeStep, PTL DEF Spec

-----------------------------------------------------------------------------
(* No loss is forgotten.                                                   *)

LEMMA LossStep == TypeInv /\ LossNeverForgotten /\ [Next]_vars => LossNeverForgotten'
<1> SUFFICES ASSUME TypeInv, LossNeverForgotten, [Next]_vars PROVE LossNeverForgotten'
  OBVIOUS
<1> USE DEF LossNeverForgotten, SignalComing, flags, reader, manager, history
<1>0. closed \in BOOLEAN
  BY DEF TypeInv, FlagsOK
(* Steps that leave the loss and its signal where they are.                *)
<1>a. ASSUME UNCHANGED <<token, rd, wd, owed>>, pc # "clear", closed => closed'
      PROVE  LossNeverForgotten'
  BY <1>0, <1>a
<1>1. CASE SignalLoss \/ PushEvent \/ PushEpan
  BY <1>1 DEF SignalLoss, PushEvent, PushEpan
<1>2. CASE ReaderStops \/ PortDies
  BY <1>2 DEF ReaderStops, PortDies
<1>3. CASE \/ InitModule \/ InitModuleFails \/ StartScan \/ StartScanFails \/ TakeEpan
           \/ TakeScanned \/ ScanTimeout
  BY <1>3, <1>a DEF InitModule, InitModuleFails, StartScan, StartScanFails, TakeEpan,
     TakeScanned, ScanTimeout, EndPass, ScanGivesUp, OpenFails, Elsewhere
<1>4. CASE \/ SkipEvent \/ StartJoin \/ StartJoinFails \/ TakeJoined \/ TakeRefused
           \/ JoinTimeout \/ NextAttempt
  BY <1>4, <1>a DEF SkipEvent, StartJoin, StartJoinFails, TakeJoined, TakeRefused,
     JoinTimeout, NextAttempt, ConnectFails, OpenFails, Elsewhere
<1>5. CASE TakeToken \/ StartReestablish \/ ManagerStops
  BY <1>5 DEF TakeToken, StartReestablish, ManagerStops
<1>6. CASE Reconnect \/ ReconnectSignals \/ Close \/ Restart
  BY <1>6 DEF Reconnect, ReconnectSignals, Close, Restart
<1>7. ASSUME NEW e, ReadEvent(e), Outside PROVE LossNeverForgotten'
  BY <1>7 DEF ReadEvent, Outside
<1>8. CASE \/ JoinSucceeds \/ JoinRefused \/ EndScan \/ SessionLost \/ LimitBegins
           \/ LimitEnds \/ OtherEvent
  BY <1>7, <1>8 DEF JoinSucceeds, JoinRefused, EndScan, SessionLost, LimitBegins, LimitEnds,
     OtherEvent
<1>9. CASE ReportEpan \/ MeterMoves \/ ModuleRestarts
  BY <1>9 DEF ReportEpan, ReadEpan, MeterMoves, ModuleRestarts, Outside
<1>10. CASE UNCHANGED vars
  BY <1>10 DEF vars
<1> QED
  BY <1>1, <1>2, <1>3, <1>4, <1>5, <1>6, <1>8, <1>9, <1>10
  DEF Next, ReaderStep, ManagerStep, ModuleStep

(* A loss that cleared the session flag has its reconnect coming, whatever *)
(* the manager does meanwhile and however full events is, in any           *)
(* interleaving of the reader, the watchdog and the manager, with join     *)
(* results in time or late.                                                *)
THEOREM SessionForgetsNoLoss == Spec => []LossNeverForgotten
<1>1. Init => LossNeverForgotten
  BY DEF Init, LossNeverForgotten
<1> QED  BY <1>1, LossStep, TypeInit, TypeStep, PTL DEF Spec

-----------------------------------------------------------------------------
(* Abandoned scans. In numbers: the Epans in the channel, the one in the   *)
(* reader's hands and those a running scan may still report.               *)
Hand == IF rd = "epan" THEN 1 ELSE 0
Left == IF scanning > 0 THEN scanning - 1 ELSE 0

(* Outside of a pass all of them come from abandoned scans. In a pass, one *)
(* in hand means that the running scan has one less to report.             *)
ScanInv ==
  /\ rd = "epan" => MaxReports >= 1
  /\ pc = "scanWait" /\ rd = "epan" => scanning <= MaxReports
  /\ ~closed /\ pc # "scanWait" => Len(epans) + Hand + Left <= MaxReports * abandoned

LEMMA Times ==
  ASSUME NEW m \in Nat, NEW a \in Nat
  PROVE  /\ m * a \in Nat /\ m * (a + 1) = m * a + m /\ m * 1 = m /\ m * 0 = 0
OBVIOUS

LEMMA ScanInit == Init => ScanInv
<1> SUFFICES ASSUME Init PROVE ScanInv
  OBVIOUS
<1>1. MaxReports * 0 = 0 /\ Len(epans) = 0
  BY Times, Bounds, EmptySeq DEF Init
<1> QED  BY <1>1 DEF Init, ScanInv, Hand, Left

LEMMA ScanInvStep == TypeInv /\ ScanInv /\ [Next]_vars => ScanInv'
<1> SUFFICES ASSUME TypeInv, ScanInv, [Next]_vars PROVE ScanInv'
  OBVIOUS
<1>0. /\ scanning \in 0..(MaxReports + 1) /\ abandoned \in Nat /\ MaxReports \in Nat
      /\ epans \in Seq(Epans) /\ Len(epans) \in Nat /\ closed \in BOOLEAN
      /\ MaxReports * abandoned \in Nat /\ MaxReports * 1 = MaxReports /\ MaxReports * 0 = 0
      /\ MaxReports * (abandoned + 1) = MaxReports * abandoned + MaxReports
  BY Times, Bounds, LenProperties DEF TypeInv, QueuesOK, ModuleOK, CountsOK, FlagsOK
<1> USE <1>0 DEF flags, queues, reader, manager, module, history
(* Steps that report nothing, take nothing and end no pass.                *)
<1>a. ASSUME epans' = epans, abandoned' = abandoned, closed => closed',
             rd' = "epan" => rd = "epan", scanning' \in {scanning, 0},
             pc' = "scanWait" => pc = "scanWait",
             pc = "scanWait" => pc' = "scanWait" \/ closed'
      PROVE  ScanInv'
  <2>1. Hand' <= Hand /\ Hand \in Nat /\ Hand' \in Nat
    BY <1>a DEF Hand
  <2>2. Left' <= Left /\ Left \in Nat /\ Left' \in Nat
    <3>1. scanning \in Nat /\ (scanning' = scanning \/ scanning' = 0)
      BY <1>a
    <3>2. CASE scanning' = scanning
      BY <3>1, <3>2 DEF Left
    <3>3. CASE scanning' = 0
      BY <3>1, <3>3 DEF Left
    <3> QED  BY <3>1, <3>2, <3>3
  <2>3. ScanInv!1' /\ ScanInv!2'
    BY <1>a DEF ScanInv
  <2>4. ASSUME ~closed', pc' # "scanWait"
        PROVE  Len(epans') + Hand' + Left' <= MaxReports * abandoned'
    <3>1. Len(epans) + Hand + Left <= MaxReports * abandoned
      BY <1>a, <2>4 DEF ScanInv
    <3> QED  BY <1>a, <2>1, <2>2, <3>1
  <2> QED  BY <2>3, <2>4 DEF ScanInv
<1>1. CASE SignalLoss \/ PushEvent \/ ReaderStops \/ PortDies
  BY <1>1, <1>a DEF SignalLoss, PushEvent, ReaderStops, PortDies
<1>2. CASE PushEpan
  <2>1. item \in Epans
    BY <1>2 DEF PushEpan, TypeInv, ItemOK
  <2>2. Len(epans') = Len(epans) + 1
    BY <1>2, <2>1, AppendProperties DEF PushEpan
  <2> QED  BY <1>2, <2>2 DEF PushEpan, ScanInv, Hand, Left
<1>3. CASE InitModule \/ InitModuleFails
  BY <1>3, <1>a DEF InitModule, InitModuleFails, Reset, OpenFails, Elsewhere, Kept
<1>4. CASE StartScan
  BY <1>4 DEF StartScan, Answering, Elsewhere, ScanInv
<1>5. CASE StartScanFails
  <2>1. UNCHANGED <<rd, epans>> /\ pc = "scan" /\ pc' \in {"join", "failed"} /\ (closed => closed')
    BY <1>5 DEF StartScanFails, ScanGivesUp, OpenFails, Elsewhere
  <2>2. CASE UNCHANGED <<scanning, abandoned>>
    BY <2>1, <2>2, <1>a
  <2>3. CASE scanning = 0 /\ scanning' = MaxReports + 1 /\ abandoned' = abandoned + 1
    <3>1. Left = 0 /\ Left' = MaxReports /\ Hand' = Hand /\ Hand \in Nat
      BY <2>1, <2>3 DEF Left, Hand
    <3>2. ~closed => Len(epans) + Hand <= MaxReports * abandoned
      BY <2>1, <3>1 DEF ScanInv
    <3>3. pc' # "scanWait" /\ (rd' = "epan" => MaxReports >= 1)
      BY <2>1 DEF ScanInv
    <3>4. ~closed' => Len(epans') + Hand' + Left' <= MaxReports * abandoned'
      <4>1. MaxReports * abandoned' = MaxReports * abandoned + MaxReports
        BY <2>3
      <4> QED  BY <2>1, <3>1, <3>2, <4>1
    <3> QED  BY <3>3, <3>4 DEF ScanInv
  <2> QED  BY <1>5, <2>2, <2>3 DEF StartScanFails
<1>6. CASE TakeEpan
  BY <1>6 DEF TakeEpan, Elsewhere, Kept, ScanInv
(* The end of a pass: what is in hand and what the scan may still report.  *)
<1>7. ASSUME NEW e, EndPass(e), UNCHANGED <<rd, scanning>>, pc = "scanWait",
             epans' = <<>>,
             \/ abandoned' = 0 /\ scanning = 0 /\ rd # "epan"
             \/ abandoned' = 1
             \/ abandoned' = abandoned /\ scanning = 0 /\ rd # "epan"
             \/ abandoned' = abandoned + 1
      PROVE  ScanInv'
  <2>1. pc' # "scanWait"
    BY <1>7 DEF EndPass, ScanGivesUp, OpenFails
  <2>2. Len(epans') = 0
    BY <1>7, EmptySeq
  <2>3. Hand + Left <= MaxReports
    BY <1>7 DEF ScanInv, Hand, Left
  <2>4. MaxReports * abandoned' \in Nat
    BY <1>7, Times
  <2>5. CASE abandoned' = 0 /\ scanning = 0 /\ rd # "epan"
    BY <1>7, <2>1, <2>2, <2>5 DEF ScanInv, Hand, Left
  <2>6. CASE abandoned' = 1
    BY <1>7, <2>1, <2>2, <2>3, <2>6 DEF ScanInv, Hand, Left
  <2>7. CASE abandoned' = abandoned /\ scanning = 0 /\ rd # "epan"
    BY <1>7, <2>1, <2>2, <2>4, <2>7 DEF ScanInv, Hand, Left
  <2>8. CASE abandoned' = abandoned + 1
    BY <1>7, <2>1, <2>2, <2>3, <2>8 DEF ScanInv, Hand, Left
  <2> QED  BY <1>7, <2>5, <2>6, <2>7, <2>8
<1>8. CASE TakeScanned
  BY <1>7, <1>8 DEF TakeScanned, Elsewhere
<1>9. CASE ScanTimeout
  BY <1>7, <1>9 DEF ScanTimeout, Elsewhere
<1>10. CASE SkipEvent \/ StartJoin \/ StartJoinFails \/ TakeJoined \/ TakeRefused \/ JoinTimeout
  BY <1>10, <1>a DEF SkipEvent, StartJoin, StartJoinFails, TakeJoined, TakeRefused,
     JoinTimeout, ConnectFails, OpenFails, Elsewhere, Kept
<1>11. CASE NextAttempt \/ TakeToken \/ StartReestablish \/ ManagerStops
  BY <1>11, <1>a DEF NextAttempt, RecoveryFor, TakeToken, StartReestablish, ManagerStops,
     Elsewhere, Kept
<1>12. CASE Reconnect \/ ReconnectSignals \/ Close
  BY <1>12, <1>a DEF Reconnect, ReconnectSignals, Close, Kept
<1>13. CASE Restart
  <2>1. Len(epans') = 0
    BY <1>13, EmptySeq DEF Restart
  <2> QED  BY <1>13, <2>1 DEF Restart, ScanInv, Hand, Left
<1>14. CASE \/ JoinSucceeds \/ JoinRefused \/ SessionLost \/ EndScan \/ LimitBegins
            \/ LimitEnds \/ OtherEvent
  BY <1>14, <1>a DEF JoinSucceeds, JoinRefused, SessionLost, EndScan, LimitBegins, LimitEnds,
     OtherEvent, ReadEvent, Outside
<1>15. CASE ReportEpan
  BY <1>15 DEF ReportEpan, ReadEpan, Outside, ScanInv, Hand, Left
<1>16. CASE MeterMoves \/ ModuleRestarts
  BY <1>16, <1>a DEF MeterMoves, ModuleRestarts, Outside
<1>17. CASE UNCHANGED vars
  BY <1>17, <1>a DEF vars
<1> QED
  BY <1>1, <1>2, <1>3, <1>4, <1>5, <1>6, <1>8, <1>9, <1>10, <1>11, <1>12, <1>13, <1>14, <1>15,
     <1>16, <1>17 DEF Next, ReaderStep, ManagerStep, ModuleStep

(* Outside of a pass, what is in epans or in the reader's hands was        *)
(* reported by abandoned scans, for any number of reports and faults: a    *)
(* pass that ran to its own end cannot stop the reader.                    *)
THEOREM SessionLeavesNoEpans == Spec => []OnlyAbandonedScansLeaveEpans
<1>1. TypeInv /\ ScanInv => OnlyAbandonedScansLeaveEpans
  <2> SUFFICES ASSUME TypeInv, ScanInv, ~closed, pc # "scanWait"
               PROVE  Len(epans) + Hand <= MaxReports * abandoned
    BY DEF OnlyAbandonedScansLeaveEpans, Hand
  <2>1. Left \in Nat /\ Len(epans) \in Nat /\ Hand \in Nat /\ MaxReports * abandoned \in Nat
    BY Times, Bounds, LenProperties DEF TypeInv, ModuleOK, CountsOK, QueuesOK, Left, Hand
  <2>2. Len(epans) + Hand + Left <= MaxReports * abandoned
    BY DEF ScanInv
  <2> QED  BY <2>1, <2>2
<1> QED  BY <1>1, ScanInit, ScanInvStep, TypeInit, TypeStep, PTL DEF Spec

-----------------------------------------------------------------------------
(* Sessions without silence. A result of a join is asked for, in the       *)
(* reader's hands or in events.                                            *)
Results == {"joined", "refused"}
Held == rd = "push" /\ item \in Results
Has(s) == \E i \in 1..Len(s) : s[i] \in Results
HasGood(s) == \E i \in 1..Len(s) : s[i] = "joined"
AtMostOne(s) == \A i, j \in 1..Len(s) : s[i] \in Results /\ s[j] \in Results => i = j

(* When no result is late there is one at most, and while there is one the *)
(* manager waits for it or has stopped.                                    *)
OneResult ==
  /\ Len(joins) <= 1 /\ AtMostOne(events)
  /\ joins # <<>> => ~Held
  /\ joins # <<>> \/ Held => ~Has(events)
  /\ joins # <<>> \/ Held \/ Has(events) => pc \in {"joinWait", "failed", "stopped"}

(* A good result on its way to the manager still tells the truth, or the   *)
(* signal of the loss that undid it is coming too.                         *)
GoodResultTrue == (Held /\ item = "joined") \/ HasGood(events) => est \/ SignalComing

LossSignalled == rd = "signal" => item = "lost"

ResultInv == OneResult /\ GoodResultTrue /\ LossSignalled /\ NoSilentOutage

(* What a receive from events and a send to it do to the results in it.    *)
LEMMA ReceiveResult ==
  ASSUME NEW s \in Seq(Events), s # <<>>, AtMostOne(s)
  PROVE  /\ AtMostOne(Tail(s)) /\ (Has(Tail(s)) => Has(s)) /\ (HasGood(Tail(s)) => HasGood(s))
         /\ Head(s) \in Results => Has(s) /\ ~Has(Tail(s))
         /\ Head(s) = "joined" => HasGood(s)
<1>1. /\ Tail(s) \in Seq(Events) /\ Len(s) \in Nat \ {0} /\ Len(Tail(s)) = Len(s) - 1
      /\ Head(s) = s[1] /\ \A i \in 1..Len(Tail(s)) : Tail(s)[i] = s[i + 1]
  BY HeadTailProperties, LenProperties, EmptySeq
<1>2. \A i \in 1..Len(Tail(s)) : i + 1 \in 1..Len(s) /\ i + 1 # 1
  BY <1>1
<1>3. AtMostOne(Tail(s))
  BY <1>1, <1>2 DEF AtMostOne
<1>4. (Has(Tail(s)) => Has(s)) /\ (HasGood(Tail(s)) => HasGood(s))
  BY <1>1, <1>2 DEF Has, HasGood
<1>5. 1 \in 1..Len(s)
  BY <1>1
<1>6. Head(s) \in Results => Has(s) /\ ~Has(Tail(s))
  BY <1>1, <1>2, <1>5 DEF AtMostOne, Has
<1>7. Head(s) = "joined" => HasGood(s)
  BY <1>1, <1>5 DEF HasGood
<1> QED  BY <1>3, <1>4, <1>6, <1>7

LEMMA SendResult ==
  ASSUME NEW s \in Seq(Events), NEW x \in Events, AtMostOne(s)
  PROVE  /\ x \notin Results \/ ~Has(s) => AtMostOne(Append(s, x))
         /\ Has(Append(s, x)) => Has(s) \/ x \in Results
         /\ HasGood(Append(s, x)) => HasGood(s) \/ x = "joined"
<1>1. /\ Len(Append(s, x)) = Len(s) + 1 /\ Len(s) \in Nat
      /\ \A i \in 1..Len(s) : Append(s, x)[i] = s[i]
      /\ Append(s, x)[Len(s) + 1] = x
  BY AppendProperties, LenProperties
<1>2. \A i \in 1..Len(Append(s, x)) : i \in 1..Len(s) \/ i = Len(s) + 1
  BY <1>1
<1>3. x \notin Results \/ ~Has(s) => AtMostOne(Append(s, x))
  BY <1>1, <1>2 DEF AtMostOne, Has
<1> QED  BY <1>1, <1>2, <1>3 DEF Has, HasGood

LEMMA NoResultsYet == AtMostOne(<<>>) /\ ~Has(<<>>) /\ ~HasGood(<<>>)
BY EmptySeq DEF AtMostOne, Has, HasGood

LEMMA GoodIsResult == ASSUME NEW s, HasGood(s) PROVE Has(s)
BY DEF Has, HasGood, Results

LEMMA ResultInit == Init => ResultInv
<1> SUFFICES ASSUME Init PROVE ResultInv
  OBVIOUS
<1>1. Len(joins) = 0 /\ joins = <<>> /\ events = <<>> /\ ~Held
  BY EmptySeq DEF Init, Held
<1> QED
  BY <1>1, NoResultsYet DEF Init, ResultInv, OneResult, GoodResultTrue, LossSignalled,
     NoSilentOutage

(* The join that the manager ends up believing in: no result is late.      *)
LEMMA ResultStep ==
  ASSUME ~LateJoins, TypeInv, ResultInv, [Next]_vars PROVE ResultInv'
<1> USE DEF flags, queues, reader, manager, module, history
<1>0. /\ events \in Seq(Events) /\ joins \in Seq(Epans) /\ Len(joins) \in Nat
      /\ (rd = "push" => item \in Events)
  BY LenProperties DEF TypeInv, QueuesOK, ItemOK
<1>c. Results = {"joined", "refused"}
  BY DEF Results
<1>d. DEFINE W == {"joinWait", "failed", "stopped"}
(* Steps that bring no result and take no signal away.                     *)
<1>a. ASSUME AtMostOne(events'), Has(events') => Has(events),
             HasGood(events') => HasGood(events),
             joins' = joins \/ joins' = <<>>,
             Held' => Held /\ item' = item,
             rd' = "signal" => rd = "signal" /\ item' = item,
             SignalComing => SignalComing', est => est' \/ SignalComing',
             \/ pc' = pc
             \/ pc' \in {"failed", "stopped"}
             \/ pc \notin W /\ pc' # "manage"
      PROVE  ResultInv'
  <2>1. OneResult'
    BY <1>0, <1>a, EmptySeq DEF ResultInv, OneResult
  <2>2. GoodResultTrue' /\ LossSignalled'
    BY <1>a DEF ResultInv, GoodResultTrue, LossSignalled
  <2>3. NoSilentOutage'
    BY <1>a DEF ResultInv, NoSilentOutage
  <2> QED  BY <2>1, <2>2, <2>3 DEF ResultInv
<1>e. AtMostOne(events) /\ (pc \notin W => joins = <<>> /\ ~Held /\ ~Has(events))
  BY DEF ResultInv, OneResult
(* A step of the manager when no result is on its way.                     *)
<1>b. ASSUME joins' = <<>>, ~Held', ~Has(events'), AtMostOne(events'),
             UNCHANGED <<rd, item>>,
             pc' = "manage" /\ ~est' => SignalComing'
      PROVE  ResultInv'
  <2>1. OneResult' /\ GoodResultTrue'
    BY <1>b, GoodIsResult, EmptySeq DEF OneResult, GoodResultTrue
  <2> QED  BY <2>1, <1>b DEF ResultInv, LossSignalled, NoSilentOutage
<1>1. CASE SignalLoss \/ ReaderStops \/ PortDies \/ PushEpan
  <2>1. /\ UNCHANGED <<events, joins, est, pc>> /\ ~Held' /\ (SignalComing => SignalComing')
        /\ rd' # "signal"
    BY <1>1, <1>c DEF SignalLoss, ReaderStops, PortDies, PushEpan, Held, SignalComing,
       ResultInv, LossSignalled
  <2> QED  BY <1>a, <1>e, <2>1
<1>2. CASE PushEvent
  <2>1. /\ UNCHANGED <<joins, est, token, wd, pc>> /\ rd = "push" /\ rd' = "ready"
        /\ events' = events \/ events' = Append(events, item)
    BY <1>2 DEF PushEvent
  <2>2. ~Held' /\ (SignalComing' <=> SignalComing) /\ (Held <=> item \in Results)
    BY <2>1 DEF Held, SignalComing
  <2>3. item \in Results => joins = <<>> /\ ~Has(events) /\ pc \in W
    BY <2>2 DEF ResultInv, OneResult
  <2>4. /\ AtMostOne(events') /\ (Has(events') => Has(events) \/ item \in Results)
        /\ HasGood(events') => HasGood(events) \/ item = "joined"
    BY <1>0, <1>e, <2>1, <2>3, SendResult
  <2>5. OneResult'
    BY <2>1, <2>2, <2>3, <2>4 DEF ResultInv, OneResult
  <2>6. GoodResultTrue'
    BY <1>c, <2>1, <2>2, <2>4 DEF ResultInv, GoodResultTrue
  <2> QED  BY <2>1, <2>2, <2>5, <2>6 DEF ResultInv, LossSignalled, NoSilentOutage
<1>3. ASSUME UNCHANGED <<events, joins, rd, item, est, token, wd>>,
             \/ pc' = pc
             \/ pc' \in {"failed", "stopped"}
             \/ pc \notin W /\ pc' # "manage"
      PROVE  ResultInv'
  BY <1>a, <1>e, <1>3 DEF Held, SignalComing
<1>4. CASE StartScan \/ StartScanFails \/ TakeEpan
  BY <1>3, <1>4 DEF StartScan, StartScanFails, TakeEpan, ScanGivesUp, OpenFails, Elsewhere
<1>5. CASE NextAttempt \/ ScanTimeout
  <2>1. CASE NextAttempt
    BY <1>3, <2>1 DEF NextAttempt, RecoveryFor, Elsewhere
  <2>2. CASE ScanTimeout
    <3>1. pc' \in {"join", "scan", "failed"}
      BY <2>2 DEF ScanTimeout, EndPass, ScanGivesUp, OpenFails
    <3> QED  BY <1>3, <2>2, <3>1 DEF ScanTimeout, Elsewhere
  <2> QED  BY <1>5, <2>1, <2>2
<1>6. CASE ManagerStops \/ Close \/ MeterMoves \/ UNCHANGED vars
  BY <1>3, <1>6 DEF ManagerStops, Close, MeterMoves, Outside, vars
<1>7. CASE InitModule \/ InitModuleFails
  <2>1. UNCHANGED <<events, rd, item, est, token, wd>> /\ pc = "init" /\ pc' # "manage"
    BY <1>7 DEF InitModule, InitModuleFails, OpenFails, Elsewhere
  <2>2. joins' = joins \/ joins' = <<>>
    BY <1>7 DEF InitModule, InitModuleFails, Reset
  <2> QED  BY <1>b, <1>e, <2>1, <2>2 DEF Held
<1>8. CASE TakeScanned \/ SkipEvent
  <2>1. /\ UNCHANGED <<joins, rd, item, est, token, wd>> /\ events # <<>>
        /\ events' = Tail(events)
        /\ pc' = pc \/ (pc \notin W /\ pc' # "manage")
    <3>1. CASE TakeScanned
      <4>1. pc' \in {"join", "scan", "failed"}
        BY <3>1 DEF TakeScanned, EndPass, ScanGivesUp, OpenFails
      <4> QED  BY <3>1, <4>1 DEF TakeScanned, Elsewhere
    <3>2. CASE SkipEvent
      BY <3>2 DEF SkipEvent, Elsewhere
    <3> QED  BY <1>8, <3>1, <3>2
  <2>2. /\ AtMostOne(events') /\ (Has(events') => Has(events))
        /\ HasGood(events') => HasGood(events)
    BY <1>0, <1>e, <2>1, ReceiveResult
  <2> QED  BY <1>a, <2>1, <2>2 DEF Held, SignalComing
(* The join is asked for when no result is on its way: the one to come is  *)
(* its own.                                                                *)
<1>9. CASE StartJoin
  <2>1. /\ UNCHANGED <<events, rd, item, est, token, wd>> /\ pc = "join" /\ pc' = "joinWait"
        /\ joins' = Append(joins, epan) /\ epan \in Epans
    BY <1>9 DEF StartJoin, Elsewhere, TypeInv, EpanKnown
  <2>2. joins = <<>> /\ ~Held' /\ ~Has(events')
    BY <1>e, <2>1 DEF Held
  <2>3. Len(joins') = 1
    BY <1>0, <2>1, <2>2, AppendProperties, EmptySeq
  <2>4. ~HasGood(events')
    BY <2>2, GoodIsResult
  <2>5. OneResult' /\ GoodResultTrue'
    BY <1>e, <2>1, <2>2, <2>3, <2>4 DEF OneResult, GoodResultTrue
  <2> QED  BY <2>1, <2>5 DEF ResultInv, LossSignalled, NoSilentOutage
<1>10. CASE StartJoinFails
  <2>1. /\ UNCHANGED <<events, joins, rd, item, est, token, wd>> /\ pc = "join"
        /\ pc' # "manage"
    BY <1>10 DEF StartJoinFails, ConnectFails, OpenFails, Elsewhere
  <2> QED  BY <1>3, <2>1
(* The result is taken: it was the only one.                               *)
<1>11. CASE TakeJoined \/ TakeRefused
  <2>1. /\ UNCHANGED <<joins, rd, item, est, token, wd>> /\ events # <<>>
        /\ events' = Tail(events) /\ Head(events) \in Results
        /\ Head(events) = "joined" \/ pc' # "manage"
    BY <1>c, <1>11 DEF TakeJoined, TakeRefused, ConnectFails, OpenFails, Elsewhere
  <2>2. /\ AtMostOne(events') /\ Has(events) /\ ~Has(events')
        /\ Head(events) = "joined" => HasGood(events)
    BY <1>0, <1>e, <2>1, ReceiveResult
  <2>3. joins = <<>> /\ ~Held
    BY <2>2 DEF ResultInv, OneResult
  <2>4. pc' = "manage" => est \/ SignalComing
    BY <2>1, <2>2 DEF ResultInv, GoodResultTrue
  <2> QED  BY <1>b, <2>1, <2>2, <2>3, <2>4 DEF Held, SignalComing
(* The wait ends early only when its result is not coming.                 *)
<1>12. CASE JoinTimeout
  <2>1. /\ UNCHANGED <<events, joins, rd, item, est, token, wd>> /\ events = <<>>
        /\ joins = <<>> /\ item \notin Results /\ pc' # "manage"
    BY <1>c, <1>12 DEF JoinTimeout, ConnectFails, OpenFails, Elsewhere
  <2> QED  BY <1>b, <2>1, NoResultsYet DEF Held
<1>13. CASE TakeToken \/ StartReestablish
  <2>1. UNCHANGED <<events, joins, rd, item>> /\ pc \notin W /\ pc' # "manage"
    BY <1>13 DEF TakeToken, StartReestablish, Elsewhere
  <2> QED  BY <1>b, <1>e, <2>1 DEF Held
<1>14. CASE Reconnect \/ ReconnectSignals
  <2>1. UNCHANGED <<events, joins, rd, item, pc>> /\ SignalComing'
    BY <1>14 DEF Reconnect, ReconnectSignals, SignalComing
  <2> QED  BY <1>a, <1>e, <2>1 DEF Held
<1>15. CASE Restart
  <2>1. /\ joins' = <<>> /\ events' = <<>> /\ rd' = "ready" /\ pc' = "init"
    BY <1>15 DEF Restart
  <2>2. OneResult' /\ GoodResultTrue'
    BY <2>1, NoResultsYet, EmptySeq DEF OneResult, GoodResultTrue, Held
  <2> QED  BY <2>1, <2>2 DEF ResultInv, LossSignalled, NoSilentOutage
(* A result of the join is read: the only one there was to come.           *)
<1>16. CASE JoinSucceeds \/ JoinRefused
  <2>1. /\ joins # <<>> /\ joins' = Tail(joins) /\ UNCHANGED <<events, token, wd, pc>>
        /\ rd = "ready" /\ rd' = "push" /\ item' \in Results
        /\ (item' = "joined" => est') /\ (est => est')
    BY <1>c, <1>16 DEF JoinSucceeds, JoinRefused, ReadEvent, Outside
  <2>2. Len(joins) <= 1 /\ ~Has(events) /\ pc \in W
    BY <2>1 DEF ResultInv, OneResult
  <2>3. joins' = <<>>
    BY <1>0, <2>1, <2>2, HeadTailProperties, EmptySeq
  <2>4. ~HasGood(events')
    BY <2>1, <2>2, GoodIsResult
  <2>5. OneResult' /\ GoodResultTrue'
    BY <1>e, <2>1, <2>2, <2>3, <2>4, EmptySeq DEF OneResult, GoodResultTrue, Held
  <2>6. NoSilentOutage'
    BY <2>1, <2>2 DEF NoSilentOutage
  <2> QED  BY <2>1, <2>5, <2>6 DEF ResultInv, LossSignalled
<1>17. CASE EndScan \/ LimitBegins \/ LimitEnds \/ OtherEvent
  <2>1. /\ UNCHANGED <<events, joins, token, wd, pc>>
        /\ rd = "ready" /\ rd' = "push" /\ item' \notin Results /\ (est => est')
    BY <1>c, <1>17 DEF EndScan, LimitBegins, LimitEnds, OtherEvent, ReadEvent, Outside
  <2> QED  BY <1>a, <1>e, <2>1 DEF Held, SignalComing
<1>18. CASE SessionLost
  <2>1. /\ UNCHANGED <<events, joins, token, wd, pc>> /\ rd' = "signal" /\ item' = "lost"
    BY <1>18 DEF SessionLost, ReadEvent, Outside
  <2>2. SignalComing' /\ ~Held'
    BY <2>1 DEF SignalComing, Held
  <2>3. OneResult'
    BY <2>1, <2>2 DEF ResultInv, OneResult
  <2> QED  BY <2>1, <2>2, <2>3 DEF ResultInv, GoodResultTrue, LossSignalled, NoSilentOutage
<1>19. CASE ReportEpan \/ ModuleRestarts
  <2>1. /\ UNCHANGED <<events, est, token, wd, pc>>
        /\ joins' = joins \/ joins' = <<>>
        /\ UNCHANGED <<rd, item>> \/ (rd = "ready" /\ rd' = "epan")
    <3>1. CASE ReportEpan
      BY <3>1 DEF ReportEpan, ReadEpan, Outside
    <3>2. CASE ModuleRestarts
      BY <3>2 DEF ModuleRestarts, Outside
    <3> QED  BY <1>19, <3>1, <3>2
  <2> QED  BY <1>a, <1>e, <2>1 DEF Held, SignalComing
<1> QED
  BY <1>1, <1>2, <1>4, <1>5, <1>6, <1>7, <1>8, <1>9, <1>10, <1>11, <1>12, <1>13, <1>14, <1>15,
     <1>16, <1>17, <1>18, <1>19 DEF Next, ReaderStep, ManagerStep, ModuleStep

(* When the result of every join comes before the manager stops waiting    *)
(* for it, a manager that rests with the session flag down has a signal    *)
(* coming, for any number of faults and any size of the channels: no order *)
(* of losses, joins and calls of the watchdog leaves an outage unnoticed.  *)
THEOREM SessionNoSilentOutage == ASSUME ~LateJoins PROVE Spec => []NoSilentOutage
<1>1. TypeInv /\ ResultInv /\ [Next]_vars => TypeInv' /\ ResultInv'
  BY TypeStep, ResultStep
<1>2. ResultInv => NoSilentOutage
  BY DEF ResultInv
<1> QED  BY <1>1, <1>2, TypeInit, ResultInit, PTL DEF Spec

(* Under the same assumption a connect that succeeds has the session flag  *)
(* up, or the signal of a new loss on its way. With late results it does   *)
(* not hold: they are the only way to break it.                            *)
THEOREM SessionSuccessIsReal == ASSUME ~LateJoins PROVE Spec => SuccessMeansSession
<1>1. ASSUME TypeInv, ResultInv, Next, pc = "joinWait", pc' = "manage"
      PROVE  est \/ SignalComing
  <2> USE DEF manager
  <2>1. TakeJoined
    <3>1. ~(\/ ReaderStep \/ PortDies \/ Reconnect \/ ReconnectSignals \/ Close \/ Restart
            \/ ModuleStep)
      BY <1>1 DEF ReaderStep, SignalLoss, PushEvent, PushEpan, ReaderStops, PortDies, Reconnect,
         ReconnectSignals, Close, Restart, ModuleStep, JoinSucceeds, JoinRefused, ReportEpan,
         EndScan, SessionLost, MeterMoves, ModuleRestarts, LimitBegins, LimitEnds, OtherEvent,
         Outside
    <3>2. ~(\/ InitModule \/ InitModuleFails \/ StartScan \/ StartScanFails \/ TakeEpan
            \/ TakeScanned \/ ScanTimeout \/ SkipEvent \/ StartJoin \/ StartJoinFails)
      BY <1>1 DEF InitModule, InitModuleFails, StartScan, StartScanFails, TakeEpan, TakeScanned,
         ScanTimeout, SkipEvent, StartJoin, StartJoinFails
    <3>3. ~(\/ TakeRefused \/ JoinTimeout \/ NextAttempt \/ TakeToken \/ StartReestablish
            \/ ManagerStops)
      BY <1>1 DEF TakeRefused, JoinTimeout, NextAttempt, TakeToken, StartReestablish,
         ManagerStops, ConnectFails, OpenFails
    <3> QED  BY <1>1, <3>1, <3>2, <3>3 DEF Next, ManagerStep
  <2>2. events # <<>> /\ Head(events) = "joined" /\ events \in Seq(Events) /\ AtMostOne(events)
    BY <1>1, <2>1 DEF TakeJoined, TypeInv, QueuesOK, ResultInv, OneResult
  <2>3. HasGood(events)
    BY <2>2, ReceiveResult
  <2> QED  BY <1>1, <2>3 DEF ResultInv, GoodResultTrue
<1>2. TypeInv /\ ResultInv /\ [Next]_vars => TypeInv' /\ ResultInv'
  BY TypeStep, ResultStep
<1> QED
  BY <1>1, <1>2, TypeInit, ResultInit, PTL DEF Spec, SuccessMeansSession
=============================================================================
