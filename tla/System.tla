------------------------------- MODULE System -------------------------------
(***************************************************************************)
(* The program as main puts it together: the goroutines that meet in the   *)
(* Device, from Open to the end of the process.                            *)
(*                                                                         *)
(*   job   the collector's request that holds reqSem                       *)
(*   loop  client.Run: takes datagrams from rxudp, replies to INFCs        *)
(*   mgr   the manager of the PANA session                                 *)
(* and the reader, which has no name here because it takes no lock. What   *)
(* each of them does alone is the subject of Client, Session, Command and  *)
(* Collector; here they stand in each other's way: sendMu is held while    *)
(* cmdMu is waited for, a command waits for the reader, the reader for     *)
(* room in rxudp, the room for the loop, the loop for sendMu.              *)
(*                                                                         *)
(* A command's results come in order and at most one is due (Command has   *)
(* the late ones); a join is one command, its EVENT comes while it is      *)
(* waited for (Session has the late ones, the scans and the ladder).       *)
(***************************************************************************)
EXTENDS Naturals, FiniteSets, Sequences, SequencesExt

CONSTANTS MaxLine,     \* bound: lines on their way from the module
          RxSize,      \* capacity of rxudp
          MaxInfcs,    \* bound: notifications of the meter
          MaxFaults    \* bound: faults in a behaviour

ASSUME SystemAssumption == MaxLine \in Nat \ {0} /\ RxSize \in Nat \ {0} /\ MaxInfcs \in Nat /\ MaxFaults \in Nat

VARIABLES
  stage,                   \* of run: "open", "run" or "exit"
  sig, err,                \* a signal came; the errgroup's first error
  pc, map,                 \* where each goroutine is; the property map:
                           \* "unread", "failed" or "read"
  silent,                  \* firstFailAt: "no", "open" or "old" (deadLinkAfter passed)
  est, tx, token,          \* sessionEst, txAllowed, reconnectCh
  port,                    \* FALSE when it died
  hand, rx,                \* the datagram the reader holds; rxudp
  line,                    \* lines on their way from the module
  asked, limit, session, joining, datagram, infcs,   \* the module and the meter
  faults
client == <<pc, map, silent>>
device == <<est, tx, token>>
input == <<hand, rx, line>>
module == <<asked, limit, session, joining, datagram, infcs>>
main == <<stage, sig, err>>
vars == <<main, client, device, port, input, module, faults>>

Senders == {"job", "loop"}
Result == {"OK", "FAIL"}
Datagrams == {"answer", "late", "INFC"}
Events == {"joined", "refused", "lost", "limit on", "limit off"}

Canceled == sig \/ err # "none"        \* the errgroup's context
Closed == ~port \/ stage = "exit"      \* Device.closed
Go(p, where) == pc' = [pc EXCEPT ![p] = where]

Init ==
  /\ stage = "open" /\ sig = FALSE /\ err = "none"
  /\ pc = [job |-> "idle", loop |-> "recv", mgr |-> "watch"]
  /\ map = "unread" /\ silent = "no"
  /\ est = FALSE /\ tx = TRUE /\ token = FALSE
  /\ port = TRUE /\ hand = "none" /\ rx = <<>> /\ line = <<>>
  /\ asked = FALSE /\ limit = FALSE /\ session = "none" /\ joining = FALSE
  /\ datagram = "none" /\ infcs = 0 /\ faults = 0

-----------------------------------------------------------------------------
(* main *)
OpenOk ==
  /\ stage = "open" /\ stage' = "run"
  /\ est' = TRUE /\ session' = "up"
  /\ UNCHANGED <<sig, err, client, tx, token, port, input, asked, limit, joining, datagram, infcs, faults>>

OpenFails ==
  /\ stage = "open" /\ stage' = "exit"
  /\ err' = "other"
  /\ UNCHANGED <<sig, client, device, port, input, module, faults>>

Signal ==
  /\ stage # "exit" /\ ~sig
  /\ sig' = TRUE
  /\ UNCHANGED <<stage, err, client, device, port, input, module, faults>>

(* A goroutine of the errgroup returns: its error counts if it is first.   *)
Returns(p, e) ==
  /\ Go(p, "done")
  /\ err' = IF err = "none" THEN e ELSE err

(* g.Wait and the deferred Close; with the process its memory is gone.     *)
Exit ==
  /\ stage = "run" /\ pc.job = "done" /\ pc.loop = "done"
  /\ stage' = "exit"
  /\ Go("mgr", "done") /\ silent' = "no"
  /\ est' = FALSE /\ tx' = TRUE /\ token' = FALSE
  /\ hand' = "none" /\ rx' = <<>> /\ line' = <<>>
  /\ asked' = FALSE /\ limit' = FALSE /\ session' = "none" /\ joining' = FALSE /\ datagram' = "none"
  /\ infcs' = 0
  /\ UNCHANGED <<sig, err, map, port, faults>>

-----------------------------------------------------------------------------
(* What a goroutine does after an error; the request for the property map  *)
(* is not made again.                                                      *)
AfterError == [job |-> "idle", loop |-> "recv", mgr |-> "backoff"]
Fails(p) == /\ Go(p, AfterError[p])
            /\ map' = IF p = "job" /\ map = "unread" THEN "failed" ELSE map

(* The collector. The first request is fetchPropertyMap's.                 *)

(* A mutant: every error of Run is wrapped.                                *)
BugWraps == "other"

(* fetchPropertyMap wraps the error it ends with, the jobs do not.         *)
CollectorError == IF map = "read" THEN "canceled" ELSE "other"

(* An answer to an earlier request finds its TID gone from pending.        *)
Aged(x) == IF x = "answer" THEN "late" ELSE x
AgedAll(s) == [i \in DOMAIN s |-> Aged(s[i])]

(* A select may prefer a timer to a context that has ended: such a job     *)
(* fares like one whose context ends right after its start.                *)
JobStarts ==
  /\ stage = "run" /\ pc.job = "idle" /\ ~Canceled
  /\ map # "failed"
  /\ Go("job", "lock")
  /\ hand' = Aged(hand) /\ rx' = AgedAll(rx) /\ line' = AgedAll(line)
  /\ datagram' = Aged(datagram)
  /\ UNCHANGED <<main, map, silent, device, port, asked, limit, session, joining, infcs, faults>>

CollectorReturns ==
  /\ stage = "run" /\ pc.job = "idle"
  /\ Canceled \/ map = "failed"
  /\ Returns("job", CollectorError)
  /\ silent' = "no"
  /\ UNCHANGED <<stage, sig, map, device, port, input, module, faults>>

(* request after Send: the time-out is a miss for the watchdog, the end of *)
(* the context is not. It is long: it passes when no answer will come.     *)
AnswerComing ==
  \/ "answer" \in ToSet(line) \cup ToSet(rx) \cup {hand}
  \/ datagram = "answer" /\ session = "up"

GiveUp ==
  /\ stage = "run" /\ pc.job = "wait" /\ Canceled
  /\ Fails("job")
  /\ UNCHANGED <<main, silent, device, port, input, module, faults>>

(* A mutant: signalReconnect finds nobody at the channel and drops it.     *)
BugSignalDropped == UNCHANGED token

SignalReconnect == token' = TRUE       \* one place, never waits

Reconnect == est' = FALSE /\ SignalReconnect

TimesOut ==
  /\ stage = "run" /\ pc.job = "wait" /\ ~AnswerComing
  /\ Fails("job")
  /\ silent' = "open"
  /\ IF silent = "old" THEN Reconnect ELSE UNCHANGED <<est, token>>
  /\ UNCHANGED <<main, tx, port, input, module, faults>>

(* deadLinkAfter (3 min) outlasts a request and a join that succeeds; it    *)
(* passes while nothing is reconnected, or while attempts fail.            *)
DeadLinkAfterPasses ==
  /\ stage = "run" /\ silent = "open"
  /\ (pc.mgr = "watch" /\ ~token) \/ pc.mgr \in {"backoff", "done"}
  /\ silent' = "old"
  /\ UNCHANGED <<main, pc, map, device, port, input, module, faults>>

-----------------------------------------------------------------------------
(* client.Run *)

(* A mutant: Recv does not look at d.closed.                               *)
BugRecvDeaf == Canceled

RecvEnds == Canceled \/ Closed

LoopReturns ==
  /\ stage = "run" /\ pc.loop = "recv" /\ RecvEnds
  /\ \/ Canceled /\ Returns("loop", "canceled")
     \/ Closed /\ Returns("loop", "other")
  /\ UNCHANGED <<stage, sig, map, silent, device, port, input, module, faults>>

(* dispatch: the answer goes to the request that waits for it.             *)
LoopTakes ==
  /\ stage = "run" /\ pc.loop = "recv" /\ rx # <<>>
  /\ rx' = Tail(rx)
  /\ \/ /\ Head(rx) = "answer" /\ pc.job = "wait"
        /\ Go("job", "idle") /\ silent' = "no" /\ map' = "read"
     \/ /\ Head(rx) = "late" \/ (Head(rx) = "answer" /\ pc.job # "wait")
        /\ UNCHANGED client
     \/ /\ Head(rx) = "INFC"
        /\ Go("loop", "lock") /\ UNCHANGED <<map, silent>>
  /\ UNCHANGED <<main, device, port, hand, line, module, faults>>

Answered == LoopTakes /\ Head(rx) = "answer" /\ pc.job = "wait"

-----------------------------------------------------------------------------
(* Device.Send and exec, for whoever calls.                                *)
Holding(where) == {p \in DOMAIN pc : pc[p] \in where}

(* sendMu, then Send's checks. *)
LockSend(p) ==
  /\ stage = "run" /\ pc[p] = "lock"
  /\ Senders \cap Holding({"cmd", "exec"}) = {}
  /\ IF est /\ tx THEN Go(p, "cmd") /\ UNCHANGED map ELSE Fails(p)
  /\ UNCHANGED <<main, silent, device, port, input, module, faults>>

(* cmdMu, then the write. *)
Write(p) ==
  /\ stage = "run" /\ pc[p] = "cmd" /\ Holding({"exec"}) = {}
  /\ IF Closed THEN Fails(p) /\ UNCHANGED asked
               ELSE Go(p, "exec") /\ asked' = TRUE /\ UNCHANGED map
  /\ UNCHANGED <<main, silent, device, port, input, limit, session, joining, datagram, infcs, faults>>

(* A mutant: one datagram more than there is room for.                     *)
BugRoom == Len(rx) <= RxSize

Room == Len(rx) < RxSize

(* A mutant: exec has no timer.                                            *)
BugNoTimer == FALSE

(* A second is long for a goroutine that may run: the timer fires when no  *)
(* result will come, or the reader waits for room the loop cannot make.    *)
TimerFires ==
  \/ ~asked /\ ToSet(line) \cap Result = {}
  \/ hand # "none" /\ ~Room /\ pc.loop # "recv"

ExecFails(p) ==
  /\ stage = "run" /\ pc[p] = "exec"
  /\ (p \in Senders /\ Canceled) \/ Closed \/ TimerFires
  /\ Fails(p) /\ asked' = FALSE
  /\ UNCHANGED <<main, silent, device, port, input, limit, session, joining, datagram, infcs, faults>>

AfterOK == [job |-> "wait", loop |-> "recv", mgr |-> "join"]

-----------------------------------------------------------------------------
(* The manager. *)
Reestablish ==
  /\ stage = "run" /\ pc.mgr = "watch" /\ token
  /\ token' = FALSE /\ est' = FALSE
  /\ Go("mgr", "cmd")
  /\ UNCHANGED <<main, map, silent, tx, port, input, module, faults>>

JoinTimesOut ==
  /\ stage = "run" /\ pc.mgr = "join"
  /\ ~joining /\ {"joined", "refused"} \cap ToSet(line) = {}
  /\ Go("mgr", "backoff")
  /\ UNCHANGED <<main, map, silent, device, port, input, module, faults>>

Backoff ==
  /\ stage = "run" /\ pc.mgr = "backoff" /\ ~Closed
  /\ Go("mgr", "cmd")
  /\ UNCHANGED <<main, map, silent, device, port, input, module, faults>>

ManagerReturns ==
  /\ stage = "run" /\ Closed /\ pc.mgr \in {"watch", "join", "backoff"}
  /\ Go("mgr", "done")
  /\ UNCHANGED <<main, map, silent, device, port, input, module, faults>>

-----------------------------------------------------------------------------
(* The reader. *)
Reads(kinds) == stage = "run" /\ port /\ hand = "none" /\ line # <<>> /\ Head(line) \in kinds

(* A result that nobody waits for is drained by the next command.          *)
ReadResult ==
  /\ Reads(Result)
  /\ line' = Tail(line)
  /\ IF Holding({"exec"}) = {} THEN UNCHANGED <<pc, map, asked>>
     ELSE \E p \in Holding({"exec"}) :
            /\ asked' = FALSE
            /\ IF Head(line) = "OK" THEN Go(p, AfterOK[p]) /\ UNCHANGED map ELSE Fails(p)
  /\ UNCHANGED <<main, silent, device, port, hand, rx, limit, session, joining, datagram, infcs, faults>>

ReadDatagram ==
  /\ Reads(Datagrams)
  /\ line' = Tail(line)
  /\ IF Room THEN rx' = Append(rx, Head(line)) /\ UNCHANGED hand
             ELSE hand' = Head(line) /\ UNCHANGED rx
  /\ UNCHANGED <<main, client, device, port, module, faults>>

HandOver ==
  /\ stage = "run" /\ hand # "none"
  /\ \/ Room /\ rx' = Append(rx, hand)
     \/ Closed /\ UNCHANGED rx
  /\ hand' = "none"
  /\ UNCHANGED <<main, client, device, port, line, module, faults>>

(* handleEvent; the manager that waits for its join takes the event.       *)
ReadEvent ==
  /\ Reads(Events)
  /\ line' = Tail(line)
  /\ est' = (Head(line) = "joined" \/ (est /\ Head(line) # "lost"))
  /\ tx' = (Head(line) = "limit off" \/ (tx /\ Head(line) # "limit on"))
  /\ IF Head(line) = "lost" THEN SignalReconnect ELSE UNCHANGED token
  /\ IF pc.mgr = "join" /\ Head(line) \in {"joined", "refused"}
       THEN Go("mgr", IF Head(line) = "joined" THEN "watch" ELSE "backoff")
       ELSE UNCHANGED pc
  /\ UNCHANGED <<main, map, silent, port, hand, rx, module, faults>>

-----------------------------------------------------------------------------
(* The module and the meter. *)
Says(l) == stage = "run" /\ Len(line) < MaxLine /\ line' = Append(line, l)

(* Without a session SKSENDTO fails, or is taken and nothing goes out.     *)
ModuleAnswers ==
  /\ asked /\ asked' = FALSE
  /\ \/ /\ pc.mgr = "exec" /\ Says("OK")
        /\ joining' = TRUE /\ session' = "none" /\ UNCHANGED datagram
     \/ /\ pc.mgr # "exec" /\ (session = "none" \/ limit)
        /\ Says("FAIL") /\ UNCHANGED <<joining, session, datagram>>
     \/ /\ pc.mgr # "exec" /\ ~limit /\ Says("OK")
        /\ datagram' = IF pc.job = "exec" THEN "answer" ELSE datagram
        /\ UNCHANGED <<joining, session>>
  /\ UNCHANGED <<main, client, device, port, hand, rx, limit, infcs, faults>>

MeterAnswers ==
  /\ datagram # "none" /\ session = "up"
  /\ Says(datagram) /\ datagram' = "none"
  /\ UNCHANGED <<main, client, device, port, hand, rx, asked, limit, session, joining, infcs, faults>>

MeterNotifies ==
  /\ session = "up" /\ infcs < MaxInfcs /\ Says("INFC")
  /\ infcs' = infcs + 1
  /\ UNCHANGED <<main, client, device, port, hand, rx, asked, limit, session, joining, datagram, faults>>

JoinSucceeds ==
  /\ joining /\ Says("joined")
  /\ joining' = FALSE /\ session' = "up"
  /\ UNCHANGED <<main, client, device, port, hand, rx, asked, limit, datagram, infcs, faults>>

LimitEnds ==
  /\ limit /\ Says("limit off")
  /\ limit' = FALSE
  /\ UNCHANGED <<main, client, device, port, hand, rx, asked, session, joining, datagram, infcs, faults>>

-----------------------------------------------------------------------------
(* Faults. *)
Fault == stage = "run" /\ faults < MaxFaults /\ faults' = faults + 1

(* The meter or the module ends the session and says so (EVENT 26 to 29).  *)
SessionEnds ==
  /\ Fault /\ session = "up" /\ Says("lost")
  /\ session' = "none"
  /\ UNCHANGED <<main, client, device, port, hand, rx, asked, limit, joining, datagram, infcs>>

(* The meter forgets the session, and nobody says so.                      *)
MeterForgets ==
  /\ Fault /\ session = "up"
  /\ session' = "dead"
  /\ UNCHANGED <<main, client, device, port, input, asked, limit, joining, datagram, infcs>>

DatagramLost ==
  /\ Fault /\ datagram # "none"
  /\ datagram' = "none"
  /\ UNCHANGED <<main, client, device, port, input, asked, limit, session, joining, infcs>>

JoinRefused ==
  /\ Fault /\ joining /\ Says("refused")
  /\ joining' = FALSE
  /\ UNCHANGED <<main, client, device, port, hand, rx, asked, limit, session, datagram, infcs>>

LimitBegins ==
  /\ Fault /\ ~limit /\ Says("limit on")
  /\ limit' = TRUE
  /\ UNCHANGED <<main, client, device, port, hand, rx, asked, session, joining, datagram, infcs>>

(* A line arrives spoilt, or where the parser expects an address.          *)
LineLost ==
  /\ Fault /\ line # <<>>
  /\ line' = Tail(line)
  /\ UNCHANGED <<main, client, device, port, hand, rx, module>>

PortDies ==
  /\ Fault /\ port
  /\ port' = FALSE
  /\ UNCHANGED <<main, client, device, input, module>>

Faults ==
  \/ SessionEnds \/ MeterForgets \/ DatagramLost \/ JoinRefused
  \/ LimitBegins \/ LineLost \/ PortDies

Next ==
  \/ OpenOk \/ OpenFails \/ Signal \/ Exit
  \/ JobStarts \/ CollectorReturns \/ GiveUp \/ TimesOut \/ DeadLinkAfterPasses
  \/ LoopReturns \/ LoopTakes
  \/ \E p \in Senders : LockSend(p)
  \/ \E p \in {"job", "loop", "mgr"} : Write(p) \/ ExecFails(p)
  \/ Reestablish \/ JoinTimesOut \/ Backoff \/ ManagerReturns
  \/ ReadResult \/ ReadDatagram \/ HandOver \/ ReadEvent
  \/ ModuleAnswers \/ MeterAnswers \/ MeterNotifies \/ JoinSucceeds \/ LimitEnds
  \/ Faults

Spec == Init /\ [][Next]_vars

(* Goroutines run, timers fire and the module answers. A mutex of Go hands *)
(* over to a waiter in the end (starvation mode), so that nobody is locked *)
(* out by requests or attempts without end; sendMu keeps the two senders   *)
(* from waiting for cmdMu at once. Nothing makes a signal or a fault       *)
(* happen.                                                                 *)
Fairness ==
  /\ WF_vars(OpenOk \/ OpenFails \/ Exit)
  /\ WF_vars(JobStarts \/ CollectorReturns \/ GiveUp \/ TimesOut \/ LockSend("job"))
  /\ WF_vars(LoopReturns \/ LoopTakes) /\ SF_vars(LockSend("loop"))
  /\ SF_vars(\E p \in Senders : Write(p)) /\ SF_vars(Write("mgr"))
  /\ WF_vars(\E p \in {"job", "loop", "mgr"} : ExecFails(p))
  /\ WF_vars(Reestablish \/ JoinTimesOut \/ Backoff \/ ManagerReturns)
  /\ WF_vars(ReadResult \/ ReadDatagram \/ HandOver \/ ReadEvent)
  /\ WF_vars(DeadLinkAfterPasses)
  /\ WF_vars(ModuleAnswers) /\ WF_vars(MeterAnswers) /\ WF_vars(JoinSucceeds) /\ SF_vars(LimitEnds)

FairSpec == Spec /\ Fairness

-----------------------------------------------------------------------------
TypeOK ==
  /\ stage \in {"open", "run", "exit"} /\ err \in {"none", "canceled", "other"}
  /\ pc.job \in {"idle", "lock", "cmd", "exec", "wait", "done"}
  /\ pc.loop \in {"recv", "lock", "cmd", "exec", "done"}
  /\ pc.mgr \in {"watch", "cmd", "exec", "join", "backoff", "done"}
  /\ {sig, est, tx, token, port, asked, limit, joining} \subseteq BOOLEAN
  /\ map \in {"unread", "failed", "read"} /\ silent \in {"no", "open", "old"}
  /\ hand \in Datagrams \cup {"none"} /\ datagram \in {"none", "answer", "late"}
  /\ session \in {"none", "up", "dead"}
  /\ rx \in BoundedSeq(Datagrams, RxSize)
  /\ line \in BoundedSeq(Result \cup Datagrams \cup Events, MaxLine)
  /\ Cardinality(Holding({"exec"})) <= 1
  /\ infcs \in 0..MaxInfcs /\ faults \in 0..MaxFaults

(* Once the property map is read the process ends with an error only when  *)
(* the port died: a signal, whatever it interrupts, is a clean shutdown.   *)
CleanShutdown == stage = "exit" /\ err = "other" => ~port \/ map # "read"

(* The process ends after a signal, and after the death of the port.       *)
ProcessEnds == (sig \/ ~port) ~> stage = "exit"

(* Whatever the reader waits for room with, it gets rid of it.             *)
ReaderComesBack == hand # "none" ~> hand = "none" \/ stage = "exit"

(* The two ways in which an event that is lost ends the service: nothing   *)
(* but EVENT 33 lifts the limit, and when the end of the session was not   *)
(* heard every SKSENDTO may fail, which is no miss for the watchdog.       *)
Muted == ~tx /\ ~limit
Unnoticed == est /\ session = "none"

(* Faults end, requests are answered again: the watchdog, the manager and  *)
(* the reader together bring the service back from everything else.        *)
ServiceGoesOn ==
  []<><<Answered>>_vars \/ <>(stage = "exit") \/ <>[]Muted \/ <>[]Unnoticed
=============================================================================
