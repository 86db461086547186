---------------------------- MODULE SystemProofs ----------------------------
(***************************************************************************)
(* What is proved of the whole program: for every number of lines, places  *)
(* in rxudp, notifications and faults.                                     *)
(***************************************************************************)
EXTENDS System, SequenceTheorems, FiniteSetTheorems, TLAPS

Procs == {"job", "loop", "mgr"}
Places == [job |-> {"idle", "lock", "cmd", "exec", "wait", "done"},
           loop |-> {"recv", "lock", "cmd", "exec", "done"},
           mgr |-> {"watch", "cmd", "exec", "join", "backoff", "done"}]

(* Where a goroutine is, and how far main is. *)
PlacesOK ==
  /\ pc \in [Procs -> {"idle", "lock", "cmd", "exec", "wait", "done",
                       "recv", "watch", "join", "backoff"}]
  /\ \A p \in Procs : pc[p] \in Places[p]
  /\ stage \in {"open", "run", "exit"}

(* sendMu: one sender at most between its checks and its result. cmdMu: one *)
(* caller at most in exec.                                                 *)
SendMu == ~(pc.job \in {"cmd", "exec"} /\ pc.loop \in {"cmd", "exec"})
CmdMu == \A p, q \in Procs : pc[p] = "exec" /\ pc[q] = "exec" => p = q

(* An error of the errgroup other than the context's end, while the port   *)
(* lives, is the collector's before it had the property map; it has        *)
(* returned then and will not read it any more.                            *)
ErrorInv ==
  /\ stage = "open" => map = "unread" /\ err = "none"
  /\ err = "other" /\ port => map # "read" /\ (pc.job = "done" \/ stage = "exit")

SystemInv == PlacesOK /\ SendMu /\ CmdMu /\ ErrorInv

LEMMA SystemInit == Init => SystemInv
BY DEF Init, SystemInv, PlacesOK, SendMu, CmdMu, ErrorInv, Procs, Places

(* Steps that move no goroutine and leave main, the map and the port.      *)
LEMMA StandStill ==
  ASSUME SystemInv, UNCHANGED <<stage, err, map, pc, port>>
  PROVE  SystemInv'
BY DEF SystemInv, PlacesOK, SendMu, CmdMu, ErrorInv

LEMMA MainStep ==
  ASSUME SystemInv, OpenOk \/ OpenFails \/ Signal \/ Exit PROVE SystemInv'
<1> USE DEF SystemInv, PlacesOK, SendMu, CmdMu, ErrorInv, Procs, Places,
            client, device, input, module, main
<1>1. CASE OpenOk
  BY <1>1 DEF OpenOk
<1>2. CASE OpenFails
  BY <1>2 DEF OpenFails
<1>3. CASE Signal
  BY <1>3 DEF Signal
<1>4. CASE Exit
  BY <1>4 DEF Exit, Go
<1> QED  BY <1>1, <1>2, <1>3, <1>4

LEMMA CollectorStep ==
  ASSUME SystemInv, JobStarts \/ CollectorReturns \/ GiveUp \/ TimesOut \/ DeadLinkAfterPasses
  PROVE  SystemInv'
<1> USE DEF SystemInv, PlacesOK, SendMu, CmdMu, ErrorInv, Procs, Places, Go,
            client, device, input, module, main
<1>1. CASE JobStarts
  BY <1>1 DEF JobStarts
<1>2. CASE CollectorReturns
  BY <1>2 DEF CollectorReturns, Returns, CollectorError
<1>3. CASE GiveUp
  BY <1>3 DEF GiveUp, Fails, AfterError
<1>4. CASE TimesOut
  BY <1>4 DEF TimesOut, Fails, AfterError, Reconnect, SignalReconnect
<1>5. CASE DeadLinkAfterPasses
  BY <1>5 DEF DeadLinkAfterPasses
<1> QED  BY <1>1, <1>2, <1>3, <1>4, <1>5

LEMMA LoopStep ==
  ASSUME SystemInv, LoopReturns \/ LoopTakes PROVE SystemInv'
<1> USE DEF SystemInv, PlacesOK, SendMu, CmdMu, ErrorInv, Procs, Places, Go,
            client, device, input, module, main
<1>1. CASE LoopReturns
  BY <1>1 DEF LoopReturns, Returns, Closed
<1>2. CASE LoopTakes
  BY <1>2 DEF LoopTakes
<1> QED  BY <1>1, <1>2

LEMMA SendStep ==
  ASSUME SystemInv, NEW p \in Procs,
         (p \in Senders /\ LockSend(p)) \/ Write(p) \/ ExecFails(p)
  PROVE  SystemInv'
<1> USE DEF SystemInv, PlacesOK, SendMu, CmdMu, ErrorInv, Procs, Places, Go,
            client, device, input, module, main, Holding, Fails, AfterError, Senders
<1>1. CASE p \in Senders /\ LockSend(p)
  BY <1>1 DEF LockSend
<1>2. CASE Write(p)
  BY <1>2 DEF Write
<1>3. CASE ExecFails(p)
  BY <1>3 DEF ExecFails
<1> QED  BY <1>1, <1>2, <1>3

LEMMA ManagerStep ==
  ASSUME SystemInv, Reestablish \/ JoinTimesOut \/ Backoff \/ ManagerReturns PROVE SystemInv'
<1> USE DEF SystemInv, PlacesOK, SendMu, CmdMu, ErrorInv, Procs, Places, Go,
            client, device, input, module, main
<1>1. CASE Reestablish
  BY <1>1 DEF Reestablish
<1>2. CASE JoinTimesOut
  BY <1>2 DEF JoinTimesOut
<1>3. CASE Backoff
  BY <1>3 DEF Backoff
<1>4. CASE ManagerReturns
  BY <1>4 DEF ManagerReturns
<1> QED  BY <1>1, <1>2, <1>3, <1>4

LEMMA LeavesExec ==
  ASSUME SystemInv, NEW p \in Procs, pc[p] = "exec",
         NEW where \in Places[p] \ {"cmd", "exec"}, Go(p, where),
         map' = map \/ map' = "failed", stage = "run", UNCHANGED <<stage, err, port>>
  PROVE  SystemInv'
<1> USE DEF SystemInv, Procs, Places
<1>1. pc' = [pc EXCEPT ![p] = where]
  BY DEF Go
<1>2. PlacesOK'
  BY <1>1 DEF PlacesOK
<1>3. SendMu' /\ CmdMu'
  BY <1>1 DEF PlacesOK, SendMu, CmdMu
<1>4. ErrorInv'
  BY <1>1 DEF PlacesOK, ErrorInv
<1> QED  BY <1>2, <1>3, <1>4

LEMMA ReaderStep ==
  ASSUME SystemInv, ReadResult \/ ReadDatagram \/ HandOver \/ ReadEvent PROVE SystemInv'
<1>1. CASE ReadResult
  <2> USE DEF Procs, Places, main
  <2>1. CASE Holding({"exec"}) = {}
    BY <1>1, <2>1, StandStill DEF ReadResult
  <2>2. CASE Holding({"exec"}) # {}
    <3>1. PICK p \in Procs : pc[p] = "exec" /\ IF Head(line) = "OK" THEN Go(p, AfterOK[p]) /\ UNCHANGED map ELSE Fails(p)
      BY <1>1, <2>2 DEF ReadResult, Holding, SystemInv, PlacesOK
    <3>2. stage = "run" /\ UNCHANGED <<stage, err, port>>
      BY <1>1 DEF ReadResult, Reads
    <3>3. CASE Fails(p)
      <4>1. /\ Go(p, AfterError[p])
            /\ map' = map \/ map' = "failed"
        BY <3>1, <3>3 DEF Fails
      <4>2. AfterError[p] \in Places[p] \ {"cmd", "exec"}
        BY DEF AfterError
      <4> QED  BY <4>1, <4>2, <3>1, <3>2, LeavesExec
    <3>4. CASE Go(p, AfterOK[p]) /\ UNCHANGED map
      <4>1. AfterOK[p] \in Places[p] \ {"cmd", "exec"}
        BY DEF AfterOK
      <4> QED  BY <4>1, <3>1, <3>2, <3>4, LeavesExec
    <3> QED  BY <3>1, <3>3, <3>4
  <2> QED  BY <2>1, <2>2
<1>2. CASE ReadDatagram \/ HandOver
  BY <1>2, StandStill DEF ReadDatagram, HandOver, main, client
<1>3. CASE ReadEvent
  <2>1. UNCHANGED <<stage, err, map, port>>
    BY <1>3 DEF ReadEvent, main
  <2>2. \/ UNCHANGED pc
        \/ pc.mgr = "join" /\ (Go("mgr", "watch") \/ Go("mgr", "backoff"))
    BY <1>3 DEF ReadEvent
  <2>3. CASE UNCHANGED pc
    BY <2>1, <2>3, StandStill
  <2>4. CASE pc.mgr = "join" /\ (Go("mgr", "watch") \/ Go("mgr", "backoff"))
    BY <2>1, <2>4 DEF SystemInv, PlacesOK, SendMu, CmdMu, ErrorInv, Procs, Places, Go
  <2> QED  BY <2>2, <2>3, <2>4
<1> QED  BY <1>1, <1>2, <1>3

LEMMA WorldStep ==
  ASSUME SystemInv,
         ModuleAnswers \/ MeterAnswers \/ MeterNotifies \/ JoinSucceeds \/ LimitEnds \/ Faults
  PROVE  SystemInv'
<1>1. CASE PortDies
  BY <1>1 DEF PortDies, SystemInv, PlacesOK, SendMu, CmdMu, ErrorInv, main, client
<1>2. CASE ModuleAnswers \/ MeterAnswers \/ MeterNotifies \/ JoinSucceeds \/ LimitEnds
  BY <1>2, StandStill
     DEF ModuleAnswers, MeterAnswers, MeterNotifies, JoinSucceeds, LimitEnds, main, client
<1>3. CASE SessionEnds \/ MeterForgets \/ DatagramLost \/ JoinRefused \/ LimitBegins \/ LineLost
  BY <1>3, StandStill
     DEF SessionEnds, MeterForgets, DatagramLost, JoinRefused, LimitBegins, LineLost, main, client
<1> QED  BY <1>1, <1>2, <1>3 DEF Faults

LEMMA SystemStep == SystemInv /\ [Next]_vars => SystemInv'
<1> SUFFICES ASSUME SystemInv, [Next]_vars PROVE SystemInv'
  OBVIOUS
<1>1. CASE UNCHANGED vars
  BY <1>1, StandStill DEF vars, main, client
<1>2. CASE Next
  BY <1>2, MainStep, CollectorStep, LoopStep, SendStep, ManagerStep, ReaderStep, WorldStep
     DEF Next, Senders, Procs
<1> QED  BY <1>1, <1>2

(* Once the property map is read, main ends with an error only when the    *)
(* port died: whatever a signal interrupts, whichever goroutine returns    *)
(* first.                                                                  *)
THEOREM SystemEndsClean == Spec => []CleanShutdown
<1>1. SystemInv => CleanShutdown
  BY DEF SystemInv, ErrorInv, CleanShutdown
<1> QED  BY <1>1, SystemInit, SystemStep, PTL DEF Spec
-----------------------------------------------------------------------------
(* Type correctness. *)

LEMMA BoundedSeqDef ==
  ASSUME NEW S, NEW n \in Nat
  PROVE  \A s : s \in BoundedSeq(S, n) <=> s \in Seq(S) /\ Len(s) <= n
<1>1. ASSUME NEW m \in 0..n, NEW s \in [1..m -> S] PROVE s \in Seq(S) /\ Len(s) <= n
  BY <1>1
<1>2. ASSUME NEW s \in Seq(S), Len(s) <= n PROVE Len(s) \in 0..n /\ s \in [1..Len(s) -> S]
  BY <1>2
<1> QED  BY <1>1, <1>2 DEF BoundedSeq, SeqOf

LEMMA OneExec ==
  ASSUME PlacesOK, CmdMu PROVE Cardinality(Holding({"exec"})) <= 1
<1>1. CASE Holding({"exec"}) = {}
  BY <1>1, FS_EmptySet
<1>2. ASSUME NEW p \in Holding({"exec"}) PROVE Cardinality(Holding({"exec"})) <= 1
  <2>1. Holding({"exec"}) = {p}
    BY <1>2 DEF Holding, PlacesOK, CmdMu
  <2> QED  BY <2>1, FS_Singleton
<1> QED  BY <1>1, <1>2

(* What TypeOK says of the rest: the flags, the client, the channels.      *)
Lines == Result \cup Datagrams \cup Events
Flags == {sig, est, tx, token, port, asked, limit, joining} \subseteq BOOLEAN
ValuesOK ==
  /\ err \in {"none", "canceled", "other"}
  /\ map \in {"unread", "failed", "read"} /\ silent \in {"no", "open", "old"}
  /\ hand \in Datagrams \cup {"none"} /\ datagram \in {"none", "answer", "late"}
  /\ session \in {"none", "up", "dead"}
  /\ infcs \in 0..MaxInfcs /\ faults \in 0..MaxFaults
ChannelsOK ==
  /\ rx \in Seq(Datagrams) /\ Len(rx) <= RxSize
  /\ line \in Seq(Lines) /\ Len(line) <= MaxLine

TypesInv == SystemInv /\ Flags /\ ValuesOK /\ ChannelsOK

LEMMA TypesImply == TypesInv => TypeOK
<1> SUFFICES ASSUME TypesInv PROVE TypeOK
  OBVIOUS
<1>1. rx \in BoundedSeq(Datagrams, RxSize) /\ line \in BoundedSeq(Lines, MaxLine)
  BY BoundedSeqDef, SystemAssumption DEF TypesInv, ChannelsOK
<1>2. Cardinality(Holding({"exec"})) <= 1
  BY OneExec DEF TypesInv, SystemInv
<1> QED
  BY <1>1, <1>2 DEF TypesInv, SystemInv, PlacesOK, Procs, Places, Flags, ValuesOK, Lines, TypeOK

LEMMA TypesInit == Init => TypesInv
<1> SUFFICES ASSUME Init PROVE TypesInv
  OBVIOUS
<1>1. SystemInv
  BY SystemInit
<1>2. Flags
  BY DEF Init, Flags
<1>3. ValuesOK
  BY SystemAssumption DEF Init, ValuesOK
<1>4. ChannelsOK
  BY SystemAssumption DEF Init, ChannelsOK
<1> QED  BY <1>1, <1>2, <1>3, <1>4 DEF TypesInv

(* The flags. *)
LEMMA FlagsStep == TypesInv /\ [Next]_vars => Flags'
<1> SUFFICES ASSUME TypesInv, [Next]_vars PROVE Flags'
  OBVIOUS
<1> USE DEF TypesInv, Flags, main, client, device, input, module
<1>1. CASE OpenOk \/ OpenFails \/ Signal \/ Exit
  BY <1>1 DEF OpenOk, OpenFails, Signal, Exit
<1>2. CASE JobStarts \/ CollectorReturns \/ GiveUp \/ TimesOut \/ DeadLinkAfterPasses
  BY <1>2 DEF JobStarts, CollectorReturns, GiveUp, TimesOut, DeadLinkAfterPasses,
              Reconnect, SignalReconnect
<1>3. CASE LoopReturns \/ LoopTakes
  BY <1>3 DEF LoopReturns, LoopTakes
<1>4. ASSUME NEW p \in Procs, LockSend(p) \/ Write(p) \/ ExecFails(p) PROVE Flags'
  BY <1>4 DEF LockSend, Write, ExecFails
<1>5. CASE Reestablish \/ JoinTimesOut \/ Backoff \/ ManagerReturns
  BY <1>5 DEF Reestablish, JoinTimesOut, Backoff, ManagerReturns
<1>6. CASE ReadResult \/ ReadDatagram \/ HandOver
  BY <1>6 DEF ReadResult, ReadDatagram, HandOver
<1>7. CASE ReadEvent
  <2>1. est' \in BOOLEAN /\ tx' \in BOOLEAN
    BY <1>7 DEF ReadEvent
  <2>2. token' \in BOOLEAN /\ UNCHANGED <<sig, port, asked, limit, joining>>
    BY <1>7 DEF ReadEvent, SignalReconnect
  <2> QED  BY <2>1, <2>2
<1>8. CASE ModuleAnswers \/ MeterAnswers \/ MeterNotifies \/ JoinSucceeds \/ LimitEnds
  BY <1>8 DEF ModuleAnswers, MeterAnswers, MeterNotifies, JoinSucceeds, LimitEnds
<1>9. CASE Faults
  BY <1>9 DEF Faults, SessionEnds, MeterForgets, DatagramLost, JoinRefused, LimitBegins,
              LineLost, PortDies
<1>10. CASE UNCHANGED vars
  BY <1>10 DEF vars
<1> QED
  BY <1>1, <1>2, <1>3, <1>4, <1>5, <1>6, <1>7, <1>8, <1>9, <1>10 DEF Next, Senders, Procs

(* The values. *)
LEMMA ValuesStep == TypesInv /\ [Next]_vars => ValuesOK'
<1> SUFFICES ASSUME TypesInv, [Next]_vars PROVE ValuesOK'
  OBVIOUS
<1> USE SystemAssumption DEF TypesInv, ValuesOK, main, client, device, input, module
<1>1. CASE OpenOk \/ OpenFails \/ Signal \/ Exit
  BY <1>1 DEF OpenOk, OpenFails, Signal, Exit
<1>2. CASE JobStarts \/ CollectorReturns \/ GiveUp \/ TimesOut \/ DeadLinkAfterPasses
  <2> USE DEF Returns, CollectorError, Fails
  <2>1. CASE JobStarts
    BY <2>1 DEF JobStarts, Aged, Datagrams
  <2>2. CASE CollectorReturns
    BY <2>2 DEF CollectorReturns
  <2>3. CASE GiveUp \/ TimesOut \/ DeadLinkAfterPasses
    BY <2>3 DEF GiveUp, TimesOut, DeadLinkAfterPasses
  <2> QED  BY <1>2, <2>1, <2>2, <2>3
<1>3. CASE LoopReturns \/ LoopTakes
  BY <1>3 DEF LoopReturns, LoopTakes, Returns
<1>4. ASSUME NEW p \in Procs, LockSend(p) \/ Write(p) \/ ExecFails(p) PROVE ValuesOK'
  BY <1>4 DEF LockSend, Write, ExecFails, Fails
<1>5. CASE Reestablish \/ JoinTimesOut \/ Backoff \/ ManagerReturns
  BY <1>5 DEF Reestablish, JoinTimesOut, Backoff, ManagerReturns
<1>6. CASE ReadResult \/ ReadDatagram \/ HandOver \/ ReadEvent
  <2>1. CASE ReadResult
    BY <2>1 DEF ReadResult, Fails
  <2>2. CASE ReadDatagram
    BY <2>2 DEF ReadDatagram, Reads
  <2>3. CASE HandOver
    BY <2>3 DEF HandOver
  <2>4. CASE ReadEvent
    BY <2>4 DEF ReadEvent, Reads
  <2> QED  BY <1>6, <2>1, <2>2, <2>3, <2>4
<1>7. CASE ModuleAnswers \/ MeterAnswers \/ MeterNotifies \/ JoinSucceeds \/ LimitEnds
  <2>1. CASE ModuleAnswers
    BY <2>1 DEF ModuleAnswers
  <2>2. CASE MeterAnswers \/ JoinSucceeds \/ LimitEnds
    BY <2>2 DEF MeterAnswers, JoinSucceeds, LimitEnds
  <2>3. CASE MeterNotifies
    BY <2>3 DEF MeterNotifies
  <2> QED  BY <1>7, <2>1, <2>2, <2>3
<1>8. CASE Faults
  <2>1. faults' \in 0..MaxFaults
    <3>1. Fault
      BY <1>8 DEF Faults, SessionEnds, MeterForgets, DatagramLost, JoinRefused, LimitBegins,
                  LineLost, PortDies
    <3> QED  BY <3>1 DEF Fault
  <2>2. UNCHANGED <<err, map, silent, hand, infcs>>
    BY <1>8 DEF Faults, SessionEnds, MeterForgets, DatagramLost, JoinRefused, LimitBegins,
                LineLost, PortDies
  <2>3. datagram' \in {datagram, "none"} /\ session' \in {session, "none", "dead"}
    BY <1>8 DEF Faults, SessionEnds, MeterForgets, DatagramLost, JoinRefused, LimitBegins,
                LineLost, PortDies
  <2> QED  BY <2>1, <2>2, <2>3
<1>9. CASE UNCHANGED vars
  BY <1>9 DEF vars
<1> QED
  BY <1>1, <1>2, <1>3, <1>4, <1>5, <1>6, <1>7, <1>8, <1>9 DEF Next, Senders, Procs

(* The channels. *)
LEMMA PutTake ==
  ASSUME NEW S, NEW n \in Nat, NEW s \in Seq(S), Len(s) <= n
  PROVE  /\ Len(s) < n => \A x \in S : Append(s, x) \in Seq(S) /\ Len(Append(s, x)) <= n
         /\ s # <<>> => Tail(s) \in Seq(S) /\ Len(Tail(s)) <= n /\ Head(s) \in S
<1>1. CASE Len(s) < n
  BY <1>1, AppendProperties
<1>2. CASE s # <<>>
  BY <1>2, HeadTailProperties
<1> QED  BY <1>1, <1>2

LEMMA Taken == ASSUME ChannelsOK PROVE
  /\ line # <<>> => Tail(line) \in Seq(Lines) /\ Len(Tail(line)) <= MaxLine
  /\ rx # <<>> => Tail(rx) \in Seq(Datagrams) /\ Len(Tail(rx)) <= RxSize
  /\ Len(rx) < RxSize =>
       \A x \in Datagrams : Append(rx, x) \in Seq(Datagrams) /\ Len(Append(rx, x)) <= RxSize
<1>1. ChannelsOK /\ MaxLine \in Nat /\ RxSize \in Nat
  BY SystemAssumption
<1> QED  BY <1>1, PutTake DEF ChannelsOK

LEMMA AgedAllType ==
  ASSUME NEW S \in {Datagrams, Lines}, NEW s \in Seq(S)
  PROVE  AgedAll(s) \in Seq(S) /\ Len(AgedAll(s)) = Len(s)
<1>1. \A x \in S : Aged(x) \in S
  BY DEF Aged, Lines, Datagrams, Result, Events
<1>2. AgedAll(s) = [i \in 1..Len(s) |-> Aged(s[i])]
  BY DEF AgedAll
<1> QED  BY <1>1, <1>2

LEMMA SaysType ==
  ASSUME ChannelsOK, NEW l \in Lines, Says(l), UNCHANGED rx PROVE ChannelsOK'
BY PutTake, SystemAssumption DEF ChannelsOK, Says

LEMMA ChannelsStep == TypesInv /\ [Next]_vars => ChannelsOK'
<1> SUFFICES ASSUME TypesInv, [Next]_vars PROVE ChannelsOK'
  OBVIOUS
<1> USE SystemAssumption DEF TypesInv, main, client, device, input, module
<1>1. ASSUME UNCHANGED <<rx, line>> PROVE ChannelsOK'
  BY <1>1 DEF ChannelsOK
<1>2. CASE OpenOk \/ OpenFails \/ Signal
  BY <1>1, <1>2 DEF OpenOk, OpenFails, Signal
<1>3. CASE Exit
  BY <1>3 DEF Exit, ChannelsOK
<1>4. CASE JobStarts
  BY <1>4, AgedAllType DEF JobStarts, ChannelsOK
<1>5. CASE CollectorReturns \/ GiveUp \/ TimesOut \/ DeadLinkAfterPasses \/ LoopReturns
  BY <1>1, <1>5 DEF CollectorReturns, GiveUp, TimesOut, DeadLinkAfterPasses, LoopReturns
<1>6. CASE LoopTakes
  BY <1>6, PutTake DEF LoopTakes, ChannelsOK
<1>7. ASSUME NEW p \in Procs, LockSend(p) \/ Write(p) \/ ExecFails(p) PROVE ChannelsOK'
  BY <1>1, <1>7 DEF LockSend, Write, ExecFails
<1>8. CASE Reestablish \/ JoinTimesOut \/ Backoff \/ ManagerReturns
  BY <1>1, <1>8 DEF Reestablish, JoinTimesOut, Backoff, ManagerReturns
<1>9. CASE ReadResult \/ ReadEvent
  <2>1. line' = Tail(line) /\ line # <<>> /\ UNCHANGED rx
    BY <1>9 DEF ReadResult, ReadEvent, Reads
  <2> QED  BY <2>1, Taken DEF ChannelsOK
<1>10. CASE ReadDatagram
  <2>1. line' = Tail(line) /\ line # <<>> /\ Head(line) \in Datagrams
    BY <1>10 DEF ReadDatagram, Reads
  <2>2. rx' = rx \/ (Len(rx) < RxSize /\ rx' = Append(rx, Head(line)))
    BY <1>10 DEF ReadDatagram, Room
  <2> QED  BY <2>1, <2>2, Taken DEF ChannelsOK
<1>11. CASE HandOver
  <2>1. line' = line /\ hand \in Datagrams
    BY <1>11 DEF HandOver, ValuesOK
  <2>2. rx' = rx \/ (Len(rx) < RxSize /\ rx' = Append(rx, hand))
    BY <1>11 DEF HandOver, Room
  <2> QED  BY <2>1, <2>2, Taken DEF ChannelsOK
<1>12. CASE ModuleAnswers \/ MeterAnswers \/ MeterNotifies \/ JoinSucceeds \/ LimitEnds
  <2>1. PICK l \in Lines : Says(l)
    BY <1>12 DEF ModuleAnswers, MeterAnswers, MeterNotifies, JoinSucceeds, LimitEnds,
                 ValuesOK, Lines, Result, Datagrams, Events
  <2>2. UNCHANGED rx
    BY <1>12 DEF ModuleAnswers, MeterAnswers, MeterNotifies, JoinSucceeds, LimitEnds
  <2> QED  BY <2>1, <2>2, SaysType
<1>13. CASE SessionEnds \/ JoinRefused \/ LimitBegins
  <2>1. PICK l \in Lines : Says(l)
    BY <1>13 DEF SessionEnds, JoinRefused, LimitBegins, Lines, Events
  <2>2. UNCHANGED rx
    BY <1>13 DEF SessionEnds, JoinRefused, LimitBegins
  <2> QED  BY <2>1, <2>2, SaysType
<1>14. CASE MeterForgets \/ DatagramLost \/ PortDies
  BY <1>1, <1>14 DEF MeterForgets, DatagramLost, PortDies
<1>15. CASE LineLost
  BY <1>15, PutTake DEF LineLost, ChannelsOK
<1>16. CASE UNCHANGED vars
  BY <1>1, <1>16 DEF vars
<1> QED
  BY <1>2, <1>3, <1>4, <1>5, <1>6, <1>7, <1>8, <1>9, <1>10, <1>11, <1>12, <1>13, <1>14, <1>15,
     <1>16 DEF Next, Faults, Senders, Procs

(* Every variable of the whole program keeps its type: rxudp and the line  *)
(* within their bounds, each goroutine at a place of its own, and one at   *)
(* most in exec.                                                           *)
THEOREM SystemTypeCorrect == Spec => []TypeOK
<1>1. TypesInv /\ [Next]_vars => TypesInv'
  BY SystemStep, FlagsStep, ValuesStep, ChannelsStep DEF TypesInv
<1> QED  BY <1>1, TypesInit, TypesImply, PTL DEF Spec
=============================================================================
