------------------------------- MODULE Client -------------------------------
(***************************************************************************)
(* internal/client/client.go: the ECHONET Lite client.                     *)
(*                                                                         *)
(* Goroutines that call Get or SetC run request(); one more runs Run().    *)
(* They share the table of pending TIDs (c.mu), the semaphore that lets    *)
(* one request through at a time (c.reqSem), the send lock (c.sendMu), the *)
(* notification channel (c.infCh) and the dead-link watchdog (c.wdMu).     *)
(*                                                                         *)
(* Requests are numbered 1, 2, ... in the order they register, and         *)
(* tids[r], chans[r] are the TID and the channel that request r was given. *)
(* A response frame carries the number of the request it answers; the TID  *)
(* in it is tids[number], which is all the code can see of it.             *)
(***************************************************************************)
EXTENDS Integers, Sequences, FiniteSets

CONSTANTS Callers,        \* goroutines that call Get or SetC
          TIDSpace,       \* 2^16 in the code: number of uint16 values
          InfBuffer,      \* capacity of infCh (infBuffer = 32)
          RxBuffer,       \* capacity of the transport's channel behind Recv
          DeadLinkAfter,  \* defaultDeadLinkAfter, in clock ticks
          Unsolicited,    \* kinds of frames the meter sends on its own
          MaxReq,         \* bound: requests made in a behaviour
          MaxTime         \* bound: clock ticks in a behaviour

ASSUME ClientAssumption ==
  /\ TIDSpace \in Nat /\ TIDSpace >= 2
  /\ InfBuffer \in Nat
  /\ RxBuffer \in Nat
  /\ DeadLinkAfter \in Nat
  /\ Unsolicited \subseteq {"inf", "infc", "request", "ignored"}
  /\ MaxReq \in Nat /\ MaxTime \in Nat

TIDs == 1..(TIDSpace - 1)

Free == "free"             \* sendMu is not locked
Loop == "loop"             \* sendMu is locked by the Run goroutine
ASSUME LockAssumption == Free \notin Callers /\ Loop \notin Callers

Kinds == {"none", "response", "inf", "infc", "request", "ignored"}
Frame == [kind : Kinds, for : Nat]
NoFrame == [kind |-> "none", for |-> 0]
Unset == -1                \* time.Time{} in firstFailAt

Labels == {"idle", "sem", "register", "lock", "sending", "wait", "clear", "release"}

VARIABLES
  nextTID, pending,        \* c.nextTID; c.pending: TID -> request, 0 if absent
  tids, chans,             \* per request: its TID; its channel (0 if empty)
  reqSem, sendMu,          \* tokens in reqSem (0 or 1); owner of sendMu
  infCh,                   \* number of frames in infCh
  firstFailAt,
  pc, ctx, req, answer,    \* each caller's control, context, request, result
  rpc, cur, target,        \* Run: control, frame in hand, channel looked up
  inbox, atMeter,          \* frames behind Recv; requests the meter has got
  cancelled, now,          \* the group context is done; the clock
  lastOk, missed,          \* history: last recordSuccess; a recordTimeout since
  reconnects               \* the last success or Reconnect; Reconnect calls

table == <<nextTID, pending, tids, chans>>
locks == <<reqSem, sendMu>>
callers == <<pc, ctx, req, answer>>
loop == <<rpc, cur, target>>
net == <<inbox, atMeter>>
watchdog == <<firstFailAt, lastOk, missed, reconnects>>
env == <<cancelled, now>>
vars == <<table, locks, infCh, callers, loop, net, watchdog, env>>

Init ==
  /\ nextTID = 0 /\ pending = [t \in TIDs |-> 0]
  /\ tids = <<>> /\ chans = <<>>
  /\ reqSem = 0 /\ sendMu = Free
  /\ infCh = 0
  /\ pc = [c \in Callers |-> "idle"]
  /\ ctx = [c \in Callers |-> "live"]
  /\ req = [c \in Callers |-> 0]
  /\ answer = [c \in Callers |-> 0]
  /\ rpc = "recv" /\ cur = NoFrame /\ target = 0
  /\ inbox = <<>> /\ atMeter = {}
  /\ firstFailAt = Unset /\ lastOk = 0 /\ missed = FALSE /\ reconnects = 0
  /\ cancelled = FALSE /\ now = 0

issued == Len(tids)
Goto(c, label) == pc' = [pc EXCEPT ![c] = label]

(* Definitions named Bug... are plausible faults of the definition after    *)
(* them: they are used in no action, only to see that a property would     *)
(* notice the fault.                                                       *)

-----------------------------------------------------------------------------
(* request(): one action per step that another goroutine can come between. *)

(* Entry: a fresh deadline under the caller's context, which the group     *)
(* context cancels.                                                        *)
Start(c) ==
  /\ pc[c] = "idle"
  /\ issued + Cardinality({d \in Callers : pc[d] \in {"sem", "register"}}) < MaxReq
  /\ Goto(c, "sem")
  /\ ctx' = [ctx EXCEPT ![c] = IF cancelled THEN "canceled" ELSE "live"]
  /\ answer' = [answer EXCEPT ![c] = 0]
  /\ UNCHANGED <<table, locks, infCh, req, loop, net, watchdog, env>>

BugNoSemaphore(c) ==
  /\ pc[c] = "sem"
  /\ reqSem' = 1
  /\ Goto(c, "register")
  /\ UNCHANGED <<table, sendMu, infCh, ctx, req, answer, loop, net, watchdog, env>>

(* The first select takes the semaphore; it may even when ctx is done too. *)
Acquire(c) ==
  /\ pc[c] = "sem" /\ reqSem = 0
  /\ reqSem' = 1
  /\ Goto(c, "register")
  /\ UNCHANGED <<table, sendMu, infCh, ctx, req, answer, loop, net, watchdog, env>>

Abandon(c) ==
  /\ pc[c] = "sem" /\ ctx[c] # "live"
  /\ Goto(c, "idle")
  /\ ctx' = [ctx EXCEPT ![c] = "live"]
  /\ UNCHANGED <<table, locks, infCh, req, answer, loop, net, watchdog, env>>

BugZeroTID(t) == (t + 1) % TIDSpace

(* registerPending: the counter is 16 bits wide and skips 0. *)
IncTID(t) == IF (t + 1) % TIDSpace = 0 THEN 1 ELSE (t + 1) % TIDSpace

(* registerPending, then pendingChan. *)
Register(c) ==
  /\ pc[c] = "register"
  /\ nextTID' = IncTID(nextTID)
  /\ tids' = Append(tids, nextTID')
  /\ chans' = Append(chans, 0)
  /\ pending' = [pending EXCEPT ![nextTID'] = issued + 1]
  /\ req' = [req EXCEPT ![c] = issued + 1]
  /\ Goto(c, "lock")
  /\ UNCHANGED <<locks, infCh, ctx, answer, loop, net, watchdog, env>>

LockSend(c) ==
  /\ pc[c] = "lock" /\ sendMu = Free
  /\ sendMu' = c
  /\ Goto(c, "sending")
  /\ UNCHANGED <<table, reqSem, infCh, ctx, req, answer, loop, net, watchdog, env>>

(* Send returns nil, whether or not the datagram arrives. *)
SendOk(c) ==
  /\ pc[c] = "sending"
  /\ sendMu' = Free
  /\ Goto(c, "wait")
  /\ UNCHANGED <<table, reqSem, infCh, ctx, req, answer, loop, net, watchdog, env>>

BugKeepsSendLock(c) ==
  /\ pc[c] = "sending"
  /\ Goto(c, "clear")
  /\ UNCHANGED <<table, locks, infCh, ctx, req, answer, loop, net, watchdog, env>>

(* Send returns an error, perhaps after the datagram went out; it is not   *)
(* reported to the watchdog, whatever the error is.                        *)
SendError(c) ==
  /\ pc[c] = "sending"
  /\ sendMu' = Free
  /\ Goto(c, "clear")
  /\ UNCHANGED <<table, reqSem, infCh, ctx, req, answer, loop, net, watchdog, env>>

(* A mutant: firing leaves the window as it was.                            *)
BugWindowNotRestarted ==
  LET fire == firstFailAt # Unset /\ now - firstFailAt >= DeadLinkAfter
  IN  /\ firstFailAt' = IF firstFailAt = Unset THEN now ELSE firstFailAt
      /\ reconnects' = IF fire THEN reconnects + 1 ELSE reconnects
      /\ missed' = ~fire
      /\ UNCHANGED lastOk

(* recordTimeout: the first miss opens the window; a miss at least         *)
(* DeadLinkAfter later restarts it and forces a Reconnect.                 *)
RecordTimeout ==
  LET fire == firstFailAt # Unset /\ now - firstFailAt >= DeadLinkAfter
  IN  /\ firstFailAt' = IF firstFailAt = Unset \/ fire THEN now ELSE firstFailAt
      /\ reconnects' = IF fire THEN reconnects + 1 ELSE reconnects
      /\ missed' = ~fire
      /\ UNCHANGED lastOk

(* The second select: ctx is done (and may win over an answer in the       *)
(* channel); only an expired deadline is reported to the watchdog.         *)
GiveUp(c) ==
  /\ pc[c] = "wait" /\ ctx[c] # "live"
  /\ IF ctx[c] = "expired" THEN RecordTimeout ELSE UNCHANGED watchdog
  /\ Goto(c, "clear")
  /\ UNCHANGED <<table, locks, infCh, ctx, req, answer, loop, net, env>>

BugNoWindowReset ==
  /\ lastOk' = now
  /\ missed' = FALSE
  /\ UNCHANGED <<firstFailAt, reconnects>>

(* recordSuccess *)
RecordSuccess ==
  /\ firstFailAt' = Unset
  /\ lastOk' = now
  /\ missed' = FALSE
  /\ UNCHANGED reconnects

TakeAnswer(c) ==
  /\ pc[c] = "wait" /\ chans[req[c]] # 0
  /\ answer' = [answer EXCEPT ![c] = chans[req[c]]]
  /\ chans' = [chans EXCEPT ![req[c]] = 0]
  /\ RecordSuccess
  /\ Goto(c, "clear")
  /\ UNCHANGED <<nextTID, pending, tids, locks, infCh, ctx, req, loop, net, env>>

BugClearOnAnswerOnly(c) ==
  /\ pc[c] = "clear"
  /\ pending' = IF answer[c] = 0 THEN pending ELSE [pending EXCEPT ![tids[req[c]]] = 0]
  /\ Goto(c, "release")
  /\ UNCHANGED <<nextTID, tids, chans, locks, infCh, ctx, req, answer, loop, net,
                 watchdog, env>>

(* The deferred calls, last in first out: clearPending, the semaphore, then *)
(* the request's context (an idle caller has none and counts as "live").   *)
Clear(c) ==
  /\ pc[c] = "clear"
  /\ pending' = [pending EXCEPT ![tids[req[c]]] = 0]
  /\ Goto(c, "release")
  /\ UNCHANGED <<nextTID, tids, chans, locks, infCh, ctx, req, answer, loop, net,
                 watchdog, env>>

Release(c) ==
  /\ pc[c] = "release"
  /\ reqSem' = 0
  /\ Goto(c, "idle")
  /\ ctx' = [ctx EXCEPT ![c] = "live"]
  /\ UNCHANGED <<table, sendMu, infCh, req, answer, loop, net, watchdog, env>>

(* The deadline of c's request passes. *)
Expire(c) ==
  /\ pc[c] # "idle" /\ ctx[c] = "live"
  /\ ctx' = [ctx EXCEPT ![c] = "expired"]
  /\ UNCHANGED <<table, locks, infCh, pc, req, answer, loop, net, watchdog, env>>

-----------------------------------------------------------------------------
(* Run() and dispatch() *)

(* deliver's lookup in the pending table. *)
BugAnyTID(f) == IF f.kind = "response" /\ nextTID # 0 THEN pending[nextTID] ELSE 0
Lookup(f) == IF f.kind = "response" THEN pending[tids[f.for]] ELSE 0

Resume == rpc' = "recv" /\ cur' = NoFrame /\ target' = 0

(* Recv returns the oldest frame; dispatch looks at its service. deliver   *)
(* looks the channel up under c.mu and puts the frame in it afterwards.    *)
Dispatch(f, label, channel) == rpc' = label /\ cur' = f /\ target' = channel

Recv ==
  /\ rpc = "recv" /\ inbox # <<>>
  /\ inbox' = Tail(inbox)
  /\ LET f == Head(inbox)
         ch == Lookup(f)
     IN  \/ f.kind = "response" /\ ch # 0 /\ Dispatch(f, "deliver", ch)
         \/ f.kind = "response" /\ ch = 0 /\ Resume
         \/ f.kind = "inf" /\ Dispatch(f, "notify", 0)
         \/ f.kind \in {"infc", "request"} /\ Dispatch(f, "lock", 0)
         \/ f.kind = "ignored" /\ Resume
  /\ UNCHANGED <<table, locks, infCh, callers, atMeter, watchdog, env>>

(* deliver: a channel holds one frame; a second one is dropped. *)
Deliver ==
  /\ rpc = "deliver"
  /\ chans' = IF chans[target] = 0 THEN [chans EXCEPT ![target] = cur.for] ELSE chans
  /\ Resume
  /\ UNCHANGED <<nextTID, pending, tids, locks, infCh, callers, net, watchdog, env>>

(* sendINFCRes and sendSNA queue for the send lock like any request. *)
LoopLock ==
  /\ rpc = "lock" /\ sendMu = Free
  /\ sendMu' = Loop
  /\ rpc' = "sending"
  /\ UNCHANGED <<table, reqSem, infCh, callers, cur, target, net, watchdog, env>>

(* Send returns; an error is only logged. An INFC is notified afterwards. *)
LoopSent ==
  /\ rpc = "sending"
  /\ sendMu' = Free
  /\ IF cur.kind = "infc" THEN rpc' = "notify" /\ UNCHANGED <<cur, target>> ELSE Resume
  /\ UNCHANGED <<table, reqSem, infCh, callers, net, watchdog, env>>

BugNotifyBlocks ==
  /\ rpc = "notify" /\ infCh < InfBuffer
  /\ infCh' = infCh + 1
  /\ Resume
  /\ UNCHANGED <<table, locks, callers, net, watchdog, env>>

(* notify: dropped when infCh is full. *)
Notify ==
  /\ rpc = "notify"
  /\ infCh' = IF infCh < InfBuffer THEN infCh + 1 ELSE infCh
  /\ Resume
  /\ UNCHANGED <<table, locks, callers, net, watchdog, env>>

(* The group context ends: every request context that is not done yet      *)
(* reports Canceled from here on.                                          *)
Cancel == /\ cancelled' = TRUE
          /\ ctx' = [c \in Callers |-> IF pc[c] # "idle" /\ ctx[c] = "live"
                                         THEN "canceled" ELSE ctx[c]]

(* Recv fails: the context is done or the transport has closed; the error  *)
(* Run returns cancels the group context.                                  *)
RunStops ==
  /\ rpc = "recv"
  /\ rpc' = "stopped"
  /\ Cancel
  /\ UNCHANGED <<table, locks, infCh, pc, req, answer, cur, target, net, watchdog, now>>

-----------------------------------------------------------------------------
(* The environment: the meter, the consumer of INF(), signals, the clock. *)

(* The datagram of the Send in progress reaches the meter. *)
MeterReceives(c) ==
  /\ pc[c] = "sending" /\ req[c] \notin atMeter
  /\ atMeter' = atMeter \cup {req[c]}
  /\ UNCHANGED <<table, locks, infCh, callers, loop, inbox, watchdog, env>>

Arrive(f) ==
  /\ Len(inbox) < RxBuffer
  /\ inbox' = Append(inbox, f)
  /\ UNCHANGED <<table, locks, infCh, callers, loop, atMeter, watchdog, env>>

(* An answer arrives: late, out of order or twice as UDP may have it. *)
MeterAnswers == \E r \in atMeter : Arrive([kind |-> "response", for |-> r])

MeterSpeaks == \E k \in Unsolicited : Arrive([kind |-> k, for |-> 0])

ConsumeINF ==
  /\ infCh > 0
  /\ infCh' = infCh - 1
  /\ UNCHANGED <<table, locks, callers, loop, net, watchdog, env>>

Shutdown ==
  /\ ~cancelled
  /\ Cancel
  /\ UNCHANGED <<table, locks, infCh, pc, req, answer, loop, net, watchdog, now>>

Tick ==
  /\ now < MaxTime
  /\ now' = now + 1
  /\ UNCHANGED <<table, locks, infCh, callers, loop, net, watchdog, cancelled>>

-----------------------------------------------------------------------------
CallerStep(c) ==
  \/ Start(c)     \/ Acquire(c)    \/ Abandon(c)   \/ Register(c) \/ LockSend(c)
  \/ SendOk(c)    \/ SendError(c)  \/ GiveUp(c)    \/ TakeAnswer(c)
  \/ Clear(c)     \/ Release(c)    \/ Expire(c)    \/ MeterReceives(c)

LoopStep == Recv \/ Deliver \/ LoopLock \/ LoopSent \/ Notify \/ RunStops

EnvStep == MeterAnswers \/ MeterSpeaks \/ ConsumeINF \/ Shutdown \/ Tick

Next == (\E c \in Callers : CallerStep(c)) \/ LoopStep \/ EnvStep

Spec == Init /\ [][Next]_vars

(* Goroutines that can run do run, deadlines pass, Send returns (the       *)
(* transport bounds it by its command timeout) and Go's mutex is fair to   *)
(* its waiters. Nothing is assumed of the meter, of the consumer of INF(), *)
(* of new calls or of which branch a select takes.                         *)
Fairness ==
  /\ \A c \in Callers :
       /\ WF_vars(Acquire(c) \/ Abandon(c))
       /\ WF_vars(Register(c))
       /\ SF_vars(LockSend(c))
       /\ WF_vars(SendOk(c) \/ SendError(c))
       /\ WF_vars(GiveUp(c) \/ TakeAnswer(c))
       /\ WF_vars(Clear(c)) /\ WF_vars(Release(c)) /\ WF_vars(Expire(c))
  /\ WF_vars(Deliver) /\ WF_vars(Notify) /\ WF_vars(LoopSent)
  /\ SF_vars(LoopLock)

FairSpec == Spec /\ Fairness

-----------------------------------------------------------------------------
(* Properties *)

TypeOK ==
  /\ nextTID \in 0..(TIDSpace - 1)
  /\ pending \in [TIDs -> Nat]
  /\ tids \in Seq(TIDs) /\ chans \in Seq(Nat) /\ Len(chans) = Len(tids)
  /\ reqSem \in {0, 1}
  /\ sendMu \in Callers \cup {Free, Loop}
  /\ infCh \in 0..InfBuffer
  /\ firstFailAt \in Nat \cup {Unset}
  /\ pc \in [Callers -> Labels]
  /\ ctx \in [Callers -> {"live", "expired", "canceled"}]
  /\ req \in [Callers -> Nat] /\ answer \in [Callers -> Nat]
  /\ rpc \in {"recv", "deliver", "lock", "sending", "notify", "stopped"}
  /\ cur \in Frame /\ target \in Nat
  /\ inbox \in Seq(Frame) /\ atMeter \subseteq 1..issued
  /\ cancelled \in BOOLEAN /\ now \in Nat
  /\ lastOk \in Nat /\ missed \in BOOLEAN /\ reconnects \in Nat

Registered(c) == pc[c] \in {"lock", "sending", "wait", "clear"}

(* The pending table never leaks and never serves two: whatever its        *)
(* callers, deadlines and errors do, it holds exactly the TID of the one   *)
(* request that is under way, the newest, and nothing between requests.    *)
OneOutstanding ==
  \A t \in TIDs : pending[t] # 0 =>
     /\ pending[t] = issued /\ tids[issued] = t
     /\ \E c \in Callers : Registered(c) /\ req[c] = issued

(* An answer q may stand for request r only if it is r's own or so old     *)
(* that all TIDs have been used since.                                     *)
Matches(q, r) == q = r \/ r - q >= TIDSpace - 1

(* What request() returns as the answer to a request is that request's     *)
(* answer, however late, duplicated or reordered the meter's frames are,   *)
(* up to the wrap of the 16-bit TID.                                       *)
AnswerMatchesRequest ==
  \A c \in Callers : answer[c] # 0 => Matches(answer[c], req[c])

(* Why these hold: the inductive invariant behind the three above. At most *)
(* one caller is past the semaphore and its request is the newest; the     *)
(* newest TIDs are handed out in descending order from nextTID; and every  *)
(* frame on its way to a channel, in one or returned obeys Matches.        *)
Held(c) == pc[c] \notin {"idle", "sem"}
Owns(c) == Registered(c) \/ pc[c] = "release"

Exclusive ==
  /\ \A c \in Callers : Held(c) => reqSem = 1
  /\ \A c, d \in Callers : Held(c) /\ Held(d) => c = d

NewestServed == \A c \in Callers : Owns(c) => issued > 0 /\ req[c] = issued

TIDWindow ==
  /\ issued = 0 => nextTID = 0
  /\ issued > 0 => nextTID > 0
  /\ \A q \in 1..issued :
       LET age == issued - q
       IN  age < TIDSpace - 1 =>
             tids[q] = IF age < nextTID THEN nextTID - age
                                        ELSE nextTID - age + TIDSpace - 1

FramesKnown ==
  \A i \in 1..Len(inbox) : inbox[i].kind = "response" => inbox[i].for \in 1..issued

HandMatches ==
  rpc = "deliver" => /\ target \in 1..issued /\ cur.for \in 1..issued
                     /\ Matches(cur.for, target)

ChannelsMatch == \A r \in 1..issued : chans[r] # 0 => Matches(chans[r], r)

NoEarlyAnswer ==
  \A c \in Callers :
     pc[c] \in {"sem", "register", "lock", "sending", "wait"} => answer[c] = 0

CorrelationInv ==
  /\ TypeOK /\ Exclusive /\ NewestServed /\ OneOutstanding /\ TIDWindow
  /\ FramesKnown /\ HandMatches /\ ChannelsMatch /\ NoEarlyAnswer
  /\ AnswerMatchesRequest

(* The watchdog never tears the session down over a link that answered in  *)
(* the last DeadLinkAfter ticks.                                           *)
ReconnectOnlyWhenSilent ==
  [][reconnects' # reconnects => now - lastOk >= DeadLinkAfter]_vars

(* Why: the window never opens before the last answer. *)
WatchdogInv == /\ lastOk <= now
               /\ firstFailAt # Unset => lastOk <= firstFailAt /\ firstFailAt <= now

(* However the misses fall, the watchdog forces no more reconnects than    *)
(* one for every DeadLinkAfter that has passed.                            *)
ReconnectsSpaced == reconnects * DeadLinkAfter <= now

(* Why: every one but the next ended before the window opened.             *)
SpacedInv ==
  /\ ReconnectsSpaced
  /\ firstFailAt # Unset => reconnects * DeadLinkAfter <= firstFailAt

(* client_test.go:217 - after the watchdog fired its window starts again   *)
(* and the next single miss does not fire it again.                        *)
SingleTimeoutNeverRefires ==
  [][reconnects' # reconnects => missed]_vars

(* Every Get and SetC returns, even when the meter never answers, the send *)
(* lock is contended by Run's own replies or the process shuts down.       *)
EveryRequestReturns ==
  \A c \in Callers : (pc[c] # "idle") ~> (pc[c] = "idle")

(* Run always comes back to Recv: neither a full infCh nor a full answer   *)
(* channel nor the send lock stops it, so answers keep being delivered.    *)
ReceiverComesBack == (rpc # "recv") ~> (rpc \in {"recv", "stopped"})

(* The client implements the promise of RequestReply. *)
PhaseOf(label) == IF label = "idle" THEN "idle"
                  ELSE IF label \in {"sem", "register"} THEN "queued"
                  ELSE IF label \in {"lock", "sending", "wait"} THEN "open"
                  ELSE "done"

RR == INSTANCE RequestReply WITH
        Window <- TIDSpace - 1,
        phase <- [c \in Callers |-> PhaseOf(pc[c])],
        serial <- issued,
        num <- req,
        answer <- answer

KeepsPromise == RR!Spec
=============================================================================
