---------------------------- MODULE ClientProofs ----------------------------
(***************************************************************************)
(* What is proved of the client for every number of callers, every width   *)
(* of the TID, every buffer size and every clock.                          *)
(***************************************************************************)
EXTENDS Client, SequenceTheorems, TLAPS

(* registerPending's counter in the terms the proofs use: one more, or 1   *)
(* after the largest TID.                                                  *)
LEMMA IncTIDValue ==
  ASSUME NEW t \in 0..(TIDSpace - 1)
  PROVE  /\ IncTID(t) = IF t = TIDSpace - 1 THEN 1 ELSE t + 1
         /\ IncTID(t) \in TIDs
<1>1. CASE t = TIDSpace - 1
  <2>1. (t + 1) % TIDSpace = 0
    BY <1>1, ClientAssumption
  <2> QED  BY <2>1, <1>1, ClientAssumption DEF IncTID, TIDs
<1>2. CASE t # TIDSpace - 1
  <2>1. t + 1 \in 0..(TIDSpace - 1)
    BY <1>2, ClientAssumption
  <2>2. (t + 1) % TIDSpace = t + 1
    BY <2>1, ClientAssumption
  <2> QED  BY <2>2, <1>2, ClientAssumption DEF IncTID, TIDs
<1> QED  BY <1>1, <1>2

-----------------------------------------------------------------------------
(* Type correctness. *)

LEMMA TypeInit == Init => TypeOK
<1> SUFFICES ASSUME Init PROVE TypeOK
  OBVIOUS
<1> USE ClientAssumption DEF Init
<1>1. tids \in Seq(TIDs) /\ chans \in Seq(Nat) /\ inbox \in Seq(Frame)
  OBVIOUS
<1>2. cur \in Frame
  BY DEF NoFrame, Frame, Kinds
<1>3. atMeter \subseteq 1..issued
  OBVIOUS
<1>4. pending \in [TIDs -> Nat] /\ req \in [Callers -> Nat] /\ answer \in [Callers -> Nat]
  OBVIOUS
<1>5. nextTID \in 0..(TIDSpace - 1) /\ infCh \in 0..InfBuffer
  OBVIOUS
<1> QED
  BY <1>1, <1>2, <1>3, <1>4, <1>5 DEF TypeOK, Labels

(* Step: what TypeOK itself leaves open, that requests and frames refer to *)
(* requests that were issued, comes from the other parts of the invariant. *)
LEMMA TypeStep ==
  TypeOK /\ NewestServed /\ FramesKnown /\ HandMatches /\ [Next]_vars => TypeOK'
<1> SUFFICES ASSUME TypeOK, NewestServed, FramesKnown, HandMatches, [Next]_vars
             PROVE  TypeOK'
  OBVIOUS
<1> USE ClientAssumption DEF TypeOK, Labels, issued
<1> USE DEF table, locks, callers, loop, net, watchdog, env
<1>1. ASSUME NEW c \in Callers, CallerStep(c) PROVE TypeOK'
  <2> USE DEF Goto
  <2>1. CASE Start(c)
    BY <2>1 DEF Start
  <2>2. CASE Acquire(c)
    BY <2>2 DEF Acquire
  <2>3. CASE Abandon(c)
    BY <2>3 DEF Abandon
  <2>4. CASE Register(c)
    <3>1. nextTID' \in TIDs
      BY <2>4, IncTIDValue DEF Register
    <3>2. /\ tids' \in Seq(TIDs) /\ Len(tids') = Len(tids) + 1
          /\ chans' \in Seq(Nat) /\ Len(chans') = Len(chans) + 1
      BY <2>4, <3>1, AppendProperties DEF Register
    <3>3. /\ pending' \in [TIDs -> Nat] /\ req' \in [Callers -> Nat]
          /\ nextTID' \in 0..(TIDSpace - 1)
      <4>1. nextTID' \in 0..(TIDSpace - 1)
        BY <3>1 DEF TIDs
      <4>2. pending' \in [TIDs -> Nat]
        BY <2>4, <3>1 DEF Register
      <4>3. req' \in [Callers -> Nat]
        BY <2>4 DEF Register
      <4> QED  BY <4>1, <4>2, <4>3
    <3>4. atMeter' \subseteq 1..Len(tids')
      BY <2>4, <3>2 DEF Register
    <3> QED  BY <2>4, <3>2, <3>3, <3>4 DEF Register
  <2>5. CASE LockSend(c)
    BY <2>5 DEF LockSend
  <2>6. CASE SendOk(c)
    BY <2>6 DEF SendOk
  <2>7. CASE SendError(c)
    BY <2>7 DEF SendError
  <2>8. CASE GiveUp(c)
    <3>1. firstFailAt' \in Nat \cup {Unset} /\ reconnects' \in Nat /\ lastOk' \in Nat
      BY <2>8 DEF GiveUp, RecordTimeout
    <3>2. missed' \in BOOLEAN
      BY <2>8 DEF GiveUp, RecordTimeout
    <3> QED  BY <2>8, <3>1, <3>2 DEF GiveUp
  <2>9. CASE TakeAnswer(c)
    <3>1. req[c] \in 1..Len(chans)
      BY <2>9 DEF TakeAnswer, NewestServed, Owns, Registered
    <3>2. chans' \in Seq(Nat) /\ Len(chans') = Len(chans)
      BY <2>9, <3>1, ExceptSeq DEF TakeAnswer
    <3>3. answer' \in [Callers -> Nat]
      BY <2>9, <3>1 DEF TakeAnswer
    <3> QED  BY <2>9, <3>2, <3>3 DEF TakeAnswer, RecordSuccess
  <2>10. CASE Clear(c)
    BY <2>10 DEF Clear
  <2>11. CASE Release(c)
    BY <2>11 DEF Release
  <2>12. CASE Expire(c)
    BY <2>12 DEF Expire
  <2>13. CASE MeterReceives(c)
    <3>1. req[c] \in 1..Len(tids)
      BY <2>13 DEF MeterReceives, NewestServed, Owns, Registered
    <3> QED  BY <2>13, <3>1 DEF MeterReceives
  <2> QED
    BY <1>1, <2>1, <2>2, <2>3, <2>4, <2>5, <2>6, <2>7, <2>8, <2>9, <2>10, <2>11,
       <2>12, <2>13 DEF CallerStep
<1>2. ASSUME LoopStep PROVE TypeOK'
  <2> USE DEF Resume
  <2>0. NoFrame \in Frame /\ \A f \in Frame : f.kind \in Kinds
    BY DEF NoFrame, Frame, Kinds
  <2>1. CASE Recv
    <3>1. Head(inbox) \in Frame /\ Tail(inbox) \in Seq(Frame)
      BY <2>1, HeadTailProperties DEF Recv
    <3>2. 1 \in 1..Len(inbox) /\ Head(inbox) = inbox[1]
      BY <2>1, EmptySeq DEF Recv
    <3>3. Head(inbox).kind = "response" => Lookup(Head(inbox)) \in Nat
      BY <2>1, <3>1, <3>2 DEF Recv, Lookup, FramesKnown
    <3> QED  BY <2>0, <2>1, <3>1, <3>3 DEF Recv, Dispatch
  <2>2. CASE Deliver
    <3>1. target \in 1..Len(tids) /\ cur.for \in Nat
      BY <2>2 DEF Deliver, HandMatches
    <3>2. chans' \in Seq(Nat) /\ Len(chans') = Len(chans)
      BY <2>2, <3>1 DEF Deliver
    <3> QED  BY <2>0, <2>2, <3>2 DEF Deliver
  <2>3. CASE LoopLock
    BY <2>3 DEF LoopLock
  <2>4. CASE LoopSent
    BY <2>0, <2>4 DEF LoopSent
  <2>5. CASE Notify
    BY <2>0, <2>5 DEF Notify
  <2>6. CASE RunStops
    BY <2>6 DEF RunStops, Cancel
  <2> QED  BY <1>2, <2>1, <2>2, <2>3, <2>4, <2>5, <2>6 DEF LoopStep
<1>3. ASSUME EnvStep PROVE TypeOK'
  <2>1. CASE MeterAnswers
    <3>1. PICK r \in atMeter : Arrive([kind |-> "response", for |-> r])
      BY <2>1 DEF MeterAnswers
    <3>2. [kind |-> "response", for |-> r] \in Frame
      BY DEF Frame, Kinds
    <3> QED  BY <3>1, <3>2, AppendProperties DEF Arrive
  <2>2. CASE MeterSpeaks
    <3>1. PICK k \in Unsolicited : Arrive([kind |-> k, for |-> 0])
      BY <2>2 DEF MeterSpeaks
    <3>2. [kind |-> k, for |-> 0] \in Frame
      BY DEF Frame, Kinds
    <3> QED  BY <3>1, <3>2, AppendProperties DEF Arrive
  <2>3. CASE ConsumeINF
    BY <2>3 DEF ConsumeINF
  <2>4. CASE Shutdown
    BY <2>4 DEF Shutdown, Cancel
  <2>5. CASE Tick
    BY <2>5 DEF Tick
  <2> QED  BY <1>3, <2>1, <2>2, <2>3, <2>4, <2>5 DEF EnvStep
<1>4. CASE UNCHANGED vars
  BY <1>4 DEF vars
<1> QED  BY <1>1, <1>2, <1>3, <1>4 DEF Next

-----------------------------------------------------------------------------
(* Who changes what. *)

(* Only callers touch the TID table, the semaphore and their own state. *)
LEMMA LoopEnvFrame ==
  LoopStep \/ EnvStep \/ UNCHANGED vars =>
    UNCHANGED <<nextTID, pending, tids, reqSem, pc, req, answer>>
<1>1. LoopStep => UNCHANGED <<nextTID, pending, tids, reqSem, pc, req, answer>>
  BY DEF LoopStep, Recv, Deliver, LoopLock, LoopSent, Notify, RunStops,
         table, locks, callers
<1>2. EnvStep => UNCHANGED <<nextTID, pending, tids, reqSem, pc, req, answer>>
  BY DEF EnvStep, MeterAnswers, MeterSpeaks, Arrive, ConsumeINF, Shutdown, Tick,
         table, locks, callers
<1>3. UNCHANGED vars => UNCHANGED <<nextTID, pending, tids, reqSem, pc, req, answer>>
  BY DEF vars, table, locks, callers
<1> QED  BY <1>1, <1>2, <1>3

(* Callers leave Run's state and the frames it receives alone; they touch  *)
(* the channels only to make one and to empty one.                         *)
LEMMA CallerFrame ==
  ASSUME NEW c \in Callers, CallerStep(c)
  PROVE  /\ UNCHANGED <<rpc, cur, target, inbox>>
         /\ Register(c) \/ UNCHANGED <<nextTID, tids>>
         /\ Register(c) \/ TakeAnswer(c) \/ UNCHANGED chans
         /\ Register(c) \/ Clear(c) \/ UNCHANGED pending
BY DEF CallerStep, Start, Acquire, Abandon, Register, LockSend, SendOk, SendError,
       GiveUp, TakeAnswer, Clear, Release, Expire, MeterReceives, table, loop, net

-----------------------------------------------------------------------------
(* The parts of CorrelationInv, one lemma each. *)

(* The semaphore admits one caller. *)
LEMMA ExclusiveStep == TypeOK /\ Exclusive /\ [Next]_vars => Exclusive'
<1> SUFFICES ASSUME TypeOK, Exclusive, [Next]_vars PROVE Exclusive'
  OBVIOUS
<1> USE DEF Exclusive, Held
<1>1. ASSUME NEW c \in Callers, CallerStep(c) PROVE Exclusive'
  <2>1. pc \in [Callers -> Labels]
    BY DEF TypeOK
  <2>2. CASE Acquire(c)
    BY <2>1, <2>2 DEF Acquire, Goto
  <2>3. CASE Release(c)
    BY <2>1, <2>3 DEF Release, Goto
  <2>4. CASE Start(c) \/ Abandon(c) \/ Expire(c) \/ MeterReceives(c)
    BY <2>1, <2>4 DEF Start, Abandon, Expire, MeterReceives, Goto, locks, callers
  <2>5. CASE Register(c) \/ LockSend(c) \/ SendOk(c) \/ SendError(c) \/ GiveUp(c)
             \/ TakeAnswer(c) \/ Clear(c)
    BY <2>1, <2>5 DEF Register, LockSend, SendOk, SendError, GiveUp, TakeAnswer,
                      Clear, Goto, locks
  <2> QED  BY <1>1, <2>2, <2>3, <2>4, <2>5 DEF CallerStep
<1>2. CASE LoopStep \/ EnvStep \/ UNCHANGED vars
  BY <1>2, LoopEnvFrame
<1> QED  BY <1>1, <1>2 DEF Next

(* The caller past the semaphore has the newest request. *)
LEMMA NewestServedStep ==
  TypeOK /\ Exclusive /\ NewestServed /\ [Next]_vars => NewestServed'
<1> SUFFICES ASSUME TypeOK, Exclusive, NewestServed, [Next]_vars PROVE NewestServed'
  OBVIOUS
<1> USE DEF NewestServed, Owns, Registered, issued
<1>1. ASSUME NEW c \in Callers, CallerStep(c) PROVE NewestServed'
  <2>1. pc \in [Callers -> Labels] /\ req \in [Callers -> Nat] /\ Len(tids) \in Nat
    BY DEF TypeOK
  <2>2. CASE Register(c)
    <3>1. Len(tids') = Len(tids) + 1
      <4>1. nextTID' \in TIDs
        BY <2>2, IncTIDValue DEF Register, TypeOK
      <4> QED  BY <2>2, <4>1, AppendProperties DEF Register, TypeOK
    <3>2. \A d \in Callers : Held(d) => d = c
      BY <2>2 DEF Register, Exclusive, Held
    <3>3. req'[c] = Len(tids')
      BY <2>1, <2>2, <3>1 DEF Register
    <3>4. ASSUME NEW d \in Callers, Owns(d)' PROVE d = c
      BY <2>1, <2>2, <3>2, <3>4 DEF Register, Goto, Held
    <3> QED  BY <2>1, <3>1, <3>3, <3>4
  <2>3. CASE ~Register(c)
    <3>1. UNCHANGED tids
      BY <1>1, <2>3, CallerFrame
    <3>2. CASE Start(c) \/ Acquire(c) \/ Abandon(c) \/ Expire(c) \/ MeterReceives(c)
      BY <2>1, <3>1, <3>2 DEF Start, Acquire, Abandon, Expire, MeterReceives, Goto, callers
    <3>3. CASE LockSend(c) \/ SendOk(c) \/ SendError(c) \/ GiveUp(c)
               \/ TakeAnswer(c) \/ Clear(c) \/ Release(c)
      BY <2>1, <3>1, <3>3 DEF LockSend, SendOk, SendError, GiveUp, TakeAnswer, Clear,
                              Release, Goto
    <3> QED  BY <1>1, <2>3, <3>2, <3>3 DEF CallerStep
  <2> QED  BY <2>2, <2>3
<1>2. CASE LoopStep \/ EnvStep \/ UNCHANGED vars
  BY <1>2, LoopEnvFrame
<1> QED  BY <1>1, <1>2 DEF Next

(* What Register does to the table. *)
LEMMA RegisterEffect ==
  ASSUME TypeOK, NEW c \in Callers, Register(c)
  PROVE  /\ nextTID' \in TIDs
         /\ nextTID' = IF nextTID = TIDSpace - 1 THEN 1 ELSE nextTID + 1
         /\ issued \in Nat /\ issued' = issued + 1
         /\ tids'[issued'] = nextTID' /\ \A q \in 1..issued : tids'[q] = tids[q]
         /\ chans'[issued'] = 0 /\ \A q \in 1..issued : chans'[q] = chans[q]
         /\ pending' = [pending EXCEPT ![nextTID'] = issued']
<1>1. nextTID' \in TIDs /\ nextTID' = IF nextTID = TIDSpace - 1 THEN 1 ELSE nextTID + 1
  BY IncTIDValue DEF Register, TypeOK
<1>2. tids \in Seq(TIDs) /\ tids' = Append(tids, nextTID')
  BY DEF Register, TypeOK
<1>3. chans \in Seq(Nat) /\ chans' = Append(chans, 0) /\ Len(chans) = Len(tids)
  BY DEF Register, TypeOK
<1>4. Len(tids) \in Nat /\ Len(tids') = Len(tids) + 1
  BY <1>1, <1>2, AppendProperties
<1>5. tids'[Len(tids) + 1] = nextTID' /\ \A q \in 1..Len(tids) : tids'[q] = tids[q]
  BY <1>1, <1>2, AppendProperties
<1>6. chans'[Len(tids) + 1] = 0 /\ \A q \in 1..Len(tids) : chans'[q] = chans[q]
  BY <1>3, AppendProperties
<1> QED  BY <1>1, <1>4, <1>5, <1>6 DEF Register, issued

(* The newest TIDs are a window of the 16-bit counter. *)
LEMMA TIDWindowStep == TypeOK /\ TIDWindow /\ [Next]_vars => TIDWindow'
<1> SUFFICES ASSUME TypeOK, TIDWindow, [Next]_vars PROVE TIDWindow'
  OBVIOUS
<1>1. ASSUME NEW c \in Callers, Register(c) PROVE TIDWindow'
  <2>1. nextTID \in 0..(TIDSpace - 1)
    BY DEF TypeOK
  <2>2. ASSUME NEW q \in 1..issued', issued' - q < TIDSpace - 1
        PROVE  tids'[q] = IF issued' - q < nextTID' THEN nextTID' - (issued' - q)
                          ELSE nextTID' - (issued' - q) + TIDSpace - 1
    <3>1. CASE q = issued'
      BY <1>1, <2>1, <3>1, RegisterEffect, ClientAssumption DEF TIDs
    <3>2. CASE q # issued'
      <4>1. q \in 1..issued /\ issued - q < TIDSpace - 1 /\ issued > 0
        BY <1>1, <2>2, <3>2, RegisterEffect, ClientAssumption
      <4>2. tids[q] = IF issued - q < nextTID THEN nextTID - (issued - q)
                      ELSE nextTID - (issued - q) + TIDSpace - 1
        BY <4>1 DEF TIDWindow
      <4>3. nextTID > 0
        BY <4>1 DEF TIDWindow
      <4> QED  BY <1>1, <2>1, <2>2, <4>1, <4>2, <4>3, RegisterEffect, ClientAssumption
    <3> QED  BY <3>1, <3>2
  <2> QED  BY <1>1, <2>2, RegisterEffect DEF TIDWindow, TIDs
<1>2. CASE UNCHANGED <<nextTID, tids>>
  BY <1>2 DEF TIDWindow, issued
<1> QED  BY <1>1, <1>2, CallerFrame, LoopEnvFrame DEF Next

(* The pending table holds the newest request while it is served. *)
LEMMA OneOutstandingStep ==
  TypeOK /\ Exclusive /\ NewestServed /\ OneOutstanding /\ [Next]_vars => OneOutstanding'
<1> SUFFICES ASSUME TypeOK, Exclusive, NewestServed, OneOutstanding, [Next]_vars,
                    NEW t \in TIDs, pending'[t] # 0
             PROVE  /\ pending'[t] = issued' /\ tids'[issued'] = t
                    /\ \E c \in Callers : Registered(c)' /\ req'[c] = issued'
  BY DEF OneOutstanding
<1>1. pc \in [Callers -> Labels] /\ req \in [Callers -> Nat] /\ pending \in [TIDs -> Nat]
  BY DEF TypeOK
<1>2. ASSUME NEW c \in Callers, CallerStep(c)
      PROVE  /\ pending'[t] = issued' /\ tids'[issued'] = t
             /\ \E d \in Callers : Registered(d)' /\ req'[d] = issued'
  <2>1. CASE Register(c)
    <3>1. pending[t] = 0
      BY <2>1 DEF OneOutstanding, Exclusive, Held, Register, Registered
    <3>2. t = nextTID' /\ pending'[t] = issued'
      BY <1>1, <2>1, <3>1, RegisterEffect
    <3>3. pc'[c] = "lock" /\ req'[c] = issued'
      BY <1>1, <2>1, RegisterEffect DEF Register, Goto
    <3> QED  BY <2>1, <3>2, <3>3, RegisterEffect DEF Registered
  <2>2. CASE Clear(c)
    <3>1. req[c] = issued /\ UNCHANGED tids
      BY <2>2 DEF Clear, NewestServed, Owns, Registered
    <3>2. pending[t] # 0 /\ t # tids[issued]
      BY <1>1, <2>2, <3>1 DEF Clear
    <3> QED  BY <3>2 DEF OneOutstanding
  <2>3. CASE ~Register(c) /\ ~Clear(c)
    <3>1. UNCHANGED <<pending, tids>>
      BY <1>2, <2>3, CallerFrame
    <3>2. PICK d \in Callers : Registered(d) /\ req[d] = issued
      BY <3>1 DEF OneOutstanding
    <3>3. /\ req' = req
          /\ pc' = pc \/ pc' = [pc EXCEPT ![c] = pc'[c]]
          /\ Registered(c) => Registered(c)'
      <4>1. CASE Start(c) \/ Acquire(c) \/ Abandon(c) \/ Expire(c) \/ MeterReceives(c)
        BY <1>1, <4>1 DEF Start, Acquire, Abandon, Expire, MeterReceives, Goto, callers,
             Registered
      <4>2. CASE LockSend(c) \/ SendOk(c) \/ SendError(c) \/ GiveUp(c)
                 \/ TakeAnswer(c) \/ Release(c)
        BY <1>1, <4>2 DEF LockSend, SendOk, SendError, GiveUp, TakeAnswer, Release,
             Goto, Registered
      <4> QED  BY <1>2, <2>3, <4>1, <4>2 DEF CallerStep
    <3> QED  BY <1>1, <3>1, <3>2, <3>3 DEF OneOutstanding, Registered, issued
  <2> QED  BY <2>1, <2>2, <2>3
<1>3. CASE LoopStep \/ EnvStep \/ UNCHANGED vars
  BY <1>3, LoopEnvFrame DEF OneOutstanding, Registered, issued
<1> QED  BY <1>2, <1>3 DEF Next

(* Frames behind Recv answer requests that were issued. *)
LEMMA FramesKnownStep == TypeOK /\ FramesKnown /\ [Next]_vars => FramesKnown'
<1> SUFFICES ASSUME TypeOK, FramesKnown, [Next]_vars PROVE FramesKnown'
  OBVIOUS
<1>1. inbox \in Seq(Frame) /\ atMeter \subseteq 1..issued /\ issued \in Nat
  BY DEF TypeOK, issued
<1>2. ASSUME NEW c \in Callers, CallerStep(c) PROVE FramesKnown'
  <2>1. inbox' = inbox
    BY <1>2, CallerFrame
  <2>2. issued' \in Nat /\ issued' >= issued
    BY <1>1, <1>2, CallerFrame, RegisterEffect DEF issued
  <2> QED  BY <1>1, <2>1, <2>2 DEF FramesKnown
<1>3. CASE LoopStep \/ EnvStep \/ UNCHANGED vars
  <2>0. issued' = issued
    BY <1>3, LoopEnvFrame DEF issued
  <2>1. CASE Recv
    <3>1. inbox # <<>> /\ inbox' = Tail(inbox)
      BY <2>1 DEF Recv
    <3>2. /\ Len(inbox') = Len(inbox) - 1
          /\ \A i \in 1..Len(inbox') : inbox'[i] = inbox[i + 1]
      BY <1>1, <3>1, HeadTailProperties
    <3>3. Len(inbox) \in Nat
      BY <1>1
    <3> QED  BY <2>0, <3>2, <3>3 DEF FramesKnown
  <2>2. ASSUME NEW f \in Frame, Arrive(f), f.kind = "response" => f.for \in 1..issued
        PROVE  FramesKnown'
    <3>1. /\ Len(inbox') = Len(inbox) + 1 /\ inbox'[Len(inbox) + 1] = f
          /\ \A i \in 1..Len(inbox) : inbox'[i] = inbox[i]
      BY <1>1, <2>2, AppendProperties DEF Arrive
    <3>2. Len(inbox) \in Nat
      BY <1>1
    <3> QED  BY <2>0, <2>2, <3>1, <3>2 DEF FramesKnown
  <2>3. CASE MeterAnswers
    BY <1>1, <2>2, <2>3 DEF MeterAnswers, Frame, Kinds
  <2>4. CASE MeterSpeaks
    BY <2>2, <2>4, ClientAssumption DEF MeterSpeaks, Frame, Kinds
  <2>5. CASE UNCHANGED inbox
    BY <2>0, <2>5 DEF FramesKnown
  <2> QED
    BY <1>3, <2>1, <2>3, <2>4, <2>5
       DEF LoopStep, EnvStep, Deliver, LoopLock, LoopSent, Notify, RunStops, ConsumeINF,
           Shutdown, Tick, net, vars
<1> QED  BY <1>2, <1>3 DEF Next

(* The step the whole argument turns on: deliver finds the channel of the  *)
(* newest request only, so a frame with its TID answers it, or a request   *)
(* from before the window of TIDs in use.                                  *)
LEMMA LookupMatches ==
  ASSUME TypeOK, OneOutstanding, TIDWindow,
         NEW f \in Frame, f.kind = "response", f.for \in 1..issued, Lookup(f) # 0
  PROVE  Lookup(f) \in 1..issued /\ Matches(f.for, Lookup(f))
<1> USE ClientAssumption
<1>1. issued \in Nat /\ tids[f.for] \in TIDs /\ nextTID \in 0..(TIDSpace - 1)
  BY DEF TypeOK, issued
<1>2. Lookup(f) = issued /\ tids[issued] = tids[f.for]
  BY <1>1 DEF Lookup, OneOutstanding
<1>3. SUFFICES ASSUME issued - f.for < TIDSpace - 1, f.for # issued
               PROVE  FALSE
  BY <1>1, <1>2 DEF Matches
<1>4. tids[f.for] = IF issued - f.for < nextTID THEN nextTID - (issued - f.for)
                    ELSE nextTID - (issued - f.for) + TIDSpace - 1
  BY <1>3 DEF TIDWindow
<1>5. tids[issued] = nextTID
  <2>1. issued \in 1..issued /\ issued - issued = 0 /\ nextTID > 0
    BY <1>1 DEF TIDWindow
  <2> QED  BY <1>1, <2>1 DEF TIDWindow
<1> QED  BY <1>1, <1>2, <1>3, <1>4, <1>5

(* The frame in Run's hand matches the channel it is about to be put in. *)
LEMMA HandMatchesStep ==
  TypeOK /\ OneOutstanding /\ TIDWindow /\ FramesKnown /\ HandMatches /\ [Next]_vars
    => HandMatches'
<1> SUFFICES ASSUME TypeOK, OneOutstanding, TIDWindow, FramesKnown, HandMatches,
                    [Next]_vars
             PROVE  HandMatches'
  OBVIOUS
<1>1. ASSUME NEW c \in Callers, CallerStep(c) PROVE HandMatches'
  <2>1. issued \in Nat
    BY DEF issued, TypeOK
  <2>2. issued' \in Nat /\ issued' >= issued
    BY <1>1, <2>1, CallerFrame, RegisterEffect DEF issued
  <2> QED  BY <1>1, <2>1, <2>2, CallerFrame DEF HandMatches, Matches
<1>2. CASE LoopStep \/ EnvStep \/ UNCHANGED vars
  <2>0. issued' = issued
    BY <1>2, LoopEnvFrame DEF issued
  <2>1. CASE Recv
    <3>1. Head(inbox) \in Frame
      BY <2>1, HeadTailProperties DEF Recv, TypeOK
    <3>2. 1 \in 1..Len(inbox) /\ Head(inbox) = inbox[1]
      BY <2>1, EmptySeq DEF Recv, TypeOK
    <3>3. Head(inbox).kind = "response" /\ Lookup(Head(inbox)) # 0 =>
            /\ Head(inbox).for \in 1..issued /\ Lookup(Head(inbox)) \in 1..issued
            /\ Matches(Head(inbox).for, Lookup(Head(inbox)))
      BY <3>1, <3>2, LookupMatches DEF FramesKnown
    <3> QED  BY <2>0, <2>1, <3>3 DEF Recv, Dispatch, Resume, HandMatches
  <2>2. CASE UNCHANGED <<rpc, cur, target>> \/ rpc' # "deliver"
    BY <2>0, <2>2 DEF HandMatches
  <2> QED
    BY <1>2, <2>1, <2>2
       DEF LoopStep, EnvStep, Deliver, LoopLock, LoopSent, Notify, RunStops, Resume,
           MeterAnswers, MeterSpeaks, Arrive, ConsumeINF, Shutdown, Tick, loop, vars
<1> QED  BY <1>1, <1>2 DEF Next

(* A channel only ever holds a frame that matches its request. *)
LEMMA ChannelsMatchStep ==
  TypeOK /\ NewestServed /\ HandMatches /\ ChannelsMatch /\ [Next]_vars => ChannelsMatch'
<1> SUFFICES ASSUME TypeOK, NewestServed, HandMatches, ChannelsMatch, [Next]_vars
             PROVE  ChannelsMatch'
  OBVIOUS
<1>1. chans \in Seq(Nat) /\ Len(chans) = issued /\ issued \in Nat
  BY DEF TypeOK, issued
<1>2. ASSUME NEW c \in Callers, CallerStep(c) PROVE ChannelsMatch'
  <2>1. CASE Register(c)
    BY <1>1, <2>1, RegisterEffect DEF ChannelsMatch, Matches
  <2>2. CASE TakeAnswer(c)
    <3>1. req[c] \in 1..Len(chans) /\ issued' = issued
      BY <1>1, <2>2 DEF TakeAnswer, NewestServed, Owns, Registered, issued
    <3>2. \A r \in 1..Len(chans) : chans'[r] = IF r = req[c] THEN 0 ELSE chans[r]
      BY <1>1, <2>2, <3>1, ExceptSeq DEF TakeAnswer
    <3> QED  BY <1>1, <3>1, <3>2 DEF ChannelsMatch, Matches
  <2>3. CASE ~Register(c) /\ ~TakeAnswer(c)
    BY <1>2, <2>3, CallerFrame DEF ChannelsMatch, Matches, issued
  <2> QED  BY <2>1, <2>2, <2>3
<1>3. CASE LoopStep \/ EnvStep \/ UNCHANGED vars
  <2>0. issued' = issued
    BY <1>3, LoopEnvFrame DEF issued
  <2>1. CASE Deliver
    <3>1. target \in 1..Len(chans) /\ cur.for \in Nat /\ Matches(cur.for, target)
      BY <1>1, <2>1 DEF Deliver, HandMatches
    <3>2. chans' = chans \/ chans' = [chans EXCEPT ![target] = cur.for]
      BY <2>1 DEF Deliver, Resume
    <3>3. ASSUME NEW r \in 1..Len(chans)
          PROVE  chans'[r] = chans[r] \/ (r = target /\ chans'[r] = cur.for)
      BY <1>1, <3>1, <3>2, ExceptSeq
    <3> QED  BY <1>1, <2>0, <3>1, <3>3 DEF ChannelsMatch, Matches
  <2>2. CASE UNCHANGED chans
    BY <2>0, <2>2 DEF ChannelsMatch, Matches
  <2> QED
    BY <1>3, <2>1, <2>2
       DEF LoopStep, EnvStep, Recv, LoopLock, LoopSent, Notify, RunStops, MeterAnswers,
           MeterSpeaks, Arrive, ConsumeINF, Shutdown, Tick, table, vars
<1> QED  BY <1>2, <1>3 DEF Next

(* A request has no answer before it takes one, and takes a matching one. *)
LEMMA AnswersStep ==
  /\ TypeOK /\ NewestServed /\ ChannelsMatch /\ NoEarlyAnswer /\ AnswerMatchesRequest
  /\ [Next]_vars
  => NoEarlyAnswer' /\ AnswerMatchesRequest'
<1> SUFFICES ASSUME TypeOK, NewestServed, ChannelsMatch, NoEarlyAnswer,
                    AnswerMatchesRequest, [Next]_vars
             PROVE  NoEarlyAnswer' /\ AnswerMatchesRequest'
  OBVIOUS
<1> USE DEF NoEarlyAnswer, AnswerMatchesRequest, Matches
<1>1. /\ pc \in [Callers -> Labels] /\ req \in [Callers -> Nat]
      /\ answer \in [Callers -> Nat] /\ issued \in Nat
  BY DEF TypeOK, issued
<1>2. ASSUME NEW c \in Callers, CallerStep(c)
      PROVE  NoEarlyAnswer' /\ AnswerMatchesRequest'
  <2>1. CASE TakeAnswer(c)
    <3>1. req[c] \in 1..issued /\ chans[req[c]] # 0
      BY <1>1, <2>1 DEF TakeAnswer, NewestServed, Owns, Registered
    <3>2. Matches(chans[req[c]], req[c])
      BY <3>1 DEF ChannelsMatch
    <3> QED  BY <1>1, <2>1, <3>2 DEF TakeAnswer, Goto
  <2>2. CASE Start(c) \/ Acquire(c) \/ Abandon(c)
    BY <1>1, <2>2 DEF Start, Acquire, Abandon, Goto
  <2>3. CASE Register(c)
    BY <1>1, <2>3 DEF Register, Goto
  <2>4. CASE LockSend(c) \/ SendOk(c) \/ SendError(c) \/ GiveUp(c)
    BY <1>1, <2>4 DEF LockSend, SendOk, SendError, GiveUp, Goto
  <2>5. CASE Clear(c) \/ Release(c) \/ Expire(c) \/ MeterReceives(c)
    BY <1>1, <2>5 DEF Clear, Release, Expire, MeterReceives, Goto, callers
  <2> QED  BY <1>2, <2>1, <2>2, <2>3, <2>4, <2>5 DEF CallerStep
<1>3. CASE LoopStep \/ EnvStep \/ UNCHANGED vars
  BY <1>3, LoopEnvFrame
<1> QED  BY <1>2, <1>3 DEF Next

-----------------------------------------------------------------------------
(* The theorems. *)

LEMMA CorrelationInit == Init => CorrelationInv
<1> SUFFICES ASSUME Init PROVE CorrelationInv
  OBVIOUS
<1>1. TypeOK
  BY TypeInit
<1>2. issued = 0 /\ Len(inbox) = 0
  BY DEF Init, issued
<1>3. Exclusive /\ NewestServed /\ OneOutstanding /\ AnswerMatchesRequest /\ NoEarlyAnswer
  BY DEF Init, Exclusive, Held, NewestServed, Owns, Registered, OneOutstanding,
         AnswerMatchesRequest, NoEarlyAnswer
<1>4. TIDWindow /\ FramesKnown /\ HandMatches /\ ChannelsMatch
  BY <1>2 DEF Init, TIDWindow, FramesKnown, HandMatches, ChannelsMatch
<1> QED  BY <1>1, <1>3, <1>4 DEF CorrelationInv

LEMMA CorrelationStep == CorrelationInv /\ [Next]_vars => CorrelationInv'
BY TypeStep, ExclusiveStep, NewestServedStep, OneOutstandingStep, TIDWindowStep,
   FramesKnownStep, HandMatchesStep, ChannelsMatchStep, AnswersStep DEF CorrelationInv

(* The inductive invariant of the client holds in every reachable state. *)
THEOREM ClientInvariant == Spec => []CorrelationInv
BY CorrelationInit, CorrelationStep, PTL DEF Spec

(* Every variable keeps its type: no request, frame or channel number is   *)
(* used that was not issued, and the TID stays in 1..TIDSpace-1.           *)
THEOREM ClientTypeCorrect == Spec => []TypeOK
<1>1. CorrelationInv => TypeOK
  BY DEF CorrelationInv
<1> QED  BY <1>1, ClientInvariant, PTL

(* c.pending holds the request under way and nothing else. *)
THEOREM ClientServesOne == Spec => []OneOutstanding
<1>1. CorrelationInv => OneOutstanding
  BY DEF CorrelationInv
<1> QED  BY <1>1, ClientInvariant, PTL

(* request() never returns another request's answer within a wrap of the   *)
(* TID, whatever the meter and the network do with their frames.           *)
THEOREM ClientCorrelates == Spec => []AnswerMatchesRequest
<1>1. CorrelationInv => AnswerMatchesRequest
  BY DEF CorrelationInv
<1> QED  BY <1>1, ClientInvariant, PTL

(* The watchdog's window and the last answer. *)
LEMMA WatchdogStep == TypeOK /\ WatchdogInv /\ [Next]_vars =>
  /\ WatchdogInv'
  /\ reconnects' # reconnects => now - lastOk >= DeadLinkAfter
<1> SUFFICES ASSUME TypeOK, WatchdogInv, [Next]_vars
             PROVE  /\ WatchdogInv'
                    /\ reconnects' # reconnects => now - lastOk >= DeadLinkAfter
  OBVIOUS
<1> USE DEF WatchdogInv, Unset
<1>1. now \in Nat /\ lastOk \in Nat /\ firstFailAt \in Nat \cup {-1} /\ reconnects \in Nat
      /\ DeadLinkAfter \in Nat
  BY ClientAssumption DEF TypeOK
<1>2. CASE UNCHANGED <<watchdog, now>>
  BY <1>1, <1>2 DEF watchdog
<1>3. CASE \E c \in Callers : GiveUp(c)
  BY <1>1, <1>3 DEF GiveUp, RecordTimeout, watchdog, env
<1>4. CASE \E c \in Callers : TakeAnswer(c)
  BY <1>1, <1>4 DEF TakeAnswer, RecordSuccess, env
<1>5. CASE Tick
  BY <1>1, <1>5 DEF Tick, watchdog
<1>6. ASSUME NEW c \in Callers, CallerStep(c)
      PROVE  GiveUp(c) \/ TakeAnswer(c) \/ UNCHANGED <<watchdog, now>>
  BY <1>6 DEF CallerStep, Start, Acquire, Abandon, Register, LockSend, SendOk, SendError,
              Clear, Release, Expire, MeterReceives, env
<1>7. LoopStep \/ EnvStep \/ UNCHANGED vars => Tick \/ UNCHANGED <<watchdog, now>>
  BY DEF LoopStep, EnvStep, Recv, Deliver, LoopLock, LoopSent, Notify, RunStops,
         MeterAnswers, MeterSpeaks, Arrive, ConsumeINF, Shutdown, env, vars
<1> QED  BY <1>2, <1>3, <1>4, <1>5, <1>6, <1>7 DEF Next

(* The watchdog forces a reconnect only after DeadLinkAfter without an     *)
(* accepted answer.                                                        *)
THEOREM ClientReconnectsWhenSilent == Spec => ReconnectOnlyWhenSilent
<1>1. Init => WatchdogInv
  BY DEF Init, WatchdogInv
<1>2. TypeOK /\ WatchdogInv /\ [Next]_vars => WatchdogInv'
  BY WatchdogStep
<1>3. TypeOK /\ WatchdogInv /\ [Next]_vars =>
        [reconnects' # reconnects => now - lastOk >= DeadLinkAfter]_vars
  BY WatchdogStep
<1> QED
  BY <1>1, <1>2, <1>3, ClientTypeCorrect, PTL DEF Spec, ReconnectOnlyWhenSilent

(* What a step does to the window, the reconnects and the clock: a miss, an *)
(* answer, a tick or nothing.                                              *)
LEMMA WatchdogFrame ==
  ASSUME [Next]_vars
  PROVE  \/ RecordTimeout /\ UNCHANGED now
         \/ firstFailAt' = Unset /\ UNCHANGED <<reconnects, now>>
         \/ now' = now + 1 /\ UNCHANGED watchdog
         \/ UNCHANGED <<watchdog, now>>
<1>1. ASSUME NEW c \in Callers, CallerStep(c)
      PROVE  GiveUp(c) \/ TakeAnswer(c) \/ UNCHANGED <<watchdog, now>>
  BY <1>1 DEF CallerStep, Start, Acquire, Abandon, Register, LockSend, SendOk, SendError,
              Clear, Release, Expire, MeterReceives, env
<1>2. LoopStep \/ EnvStep \/ UNCHANGED vars => Tick \/ UNCHANGED <<watchdog, now>>
  BY DEF LoopStep, EnvStep, Recv, Deliver, LoopLock, LoopSent, Notify, RunStops,
         MeterAnswers, MeterSpeaks, Arrive, ConsumeINF, Shutdown, env, vars
<1>3. ASSUME NEW c \in Callers, GiveUp(c)
      PROVE  UNCHANGED now /\ (RecordTimeout \/ UNCHANGED watchdog)
  BY <1>3 DEF GiveUp, env
<1>4. ASSUME NEW c \in Callers, TakeAnswer(c)
      PROVE  firstFailAt' = Unset /\ UNCHANGED <<reconnects, now>>
  BY <1>4 DEF TakeAnswer, RecordSuccess, env
<1>5. Tick => now' = now + 1 /\ UNCHANGED watchdog
  BY DEF Tick
<1> QED  BY <1>1, <1>2, <1>3, <1>4, <1>5 DEF Next

LEMMA OneMoreSpan ==
  ASSUME NEW r \in Nat, NEW d \in Nat
  PROVE  r * d \in Nat /\ (r + 1) * d = (r * d) + d
OBVIOUS

LEMMA SpacedStep == TypeOK /\ WatchdogInv /\ SpacedInv /\ [Next]_vars => SpacedInv'
<1> SUFFICES ASSUME TypeOK, WatchdogInv, SpacedInv, [Next]_vars PROVE SpacedInv'
  OBVIOUS
<1> DEFINE span == reconnects * DeadLinkAfter
           next == (reconnects + 1) * DeadLinkAfter
<1>1. now \in Nat /\ firstFailAt \in Nat \cup {-1} /\ reconnects \in Nat /\ DeadLinkAfter \in Nat
  BY ClientAssumption DEF TypeOK, Unset
<1>2. span \in Nat /\ next = span + DeadLinkAfter
  BY <1>1, OneMoreSpan
<1>3. span <= now /\ (firstFailAt # -1 => span <= firstFailAt /\ firstFailAt <= now)
  BY DEF SpacedInv, ReconnectsSpaced, WatchdogInv, Unset
<1>4. ASSUME reconnects' = reconnects, now' = now \/ now' = now + 1,
             firstFailAt' \in {firstFailAt, -1, now}
      PROVE  SpacedInv'
  <2>1. (reconnects * DeadLinkAfter)' = span
    BY <1>4
  <2> HIDE DEF span
  <2> QED  BY <1>1, <1>2, <1>3, <1>4, <2>1 DEF SpacedInv, ReconnectsSpaced, Unset
<1>5. ASSUME reconnects' = reconnects + 1, now' = now, firstFailAt' = now,
             firstFailAt # -1, now - firstFailAt >= DeadLinkAfter
      PROVE  SpacedInv'
  <2>1. (reconnects * DeadLinkAfter)' = next
    BY <1>5
  <2> HIDE DEF span, next
  <2> QED  BY <1>1, <1>2, <1>3, <1>5, <2>1 DEF SpacedInv, ReconnectsSpaced, Unset
<1>6. CASE RecordTimeout /\ UNCHANGED now
  <2> HIDE DEF span, next
  <2> QED  BY <1>4, <1>5, <1>6 DEF RecordTimeout, Unset
<1>7. CASE firstFailAt' = Unset /\ UNCHANGED <<reconnects, now>>
  BY <1>4, <1>7 DEF Unset
<1>8. CASE (now' = now + 1 /\ UNCHANGED watchdog) \/ UNCHANGED <<watchdog, now>>
  BY <1>4, <1>8 DEF watchdog
<1> QED  BY <1>6, <1>7, <1>8, WatchdogFrame

(* The watchdog forces at most one reconnect for each DeadLinkAfter that   *)
(* has passed, however the misses and the answers fall.                    *)
THEOREM ClientSpacesReconnects == Spec => []ReconnectsSpaced
<1>1. Init => WatchdogInv /\ SpacedInv
  <2>1. 0 * DeadLinkAfter = 0
    BY ClientAssumption
  <2> QED  BY <2>1 DEF Init, WatchdogInv, SpacedInv, ReconnectsSpaced
<1>2. TypeOK /\ WatchdogInv /\ SpacedInv /\ [Next]_vars => WatchdogInv' /\ SpacedInv'
  BY WatchdogStep, SpacedStep
<1>3. SpacedInv => ReconnectsSpaced
  BY DEF SpacedInv
<1> QED  BY <1>1, <1>2, <1>3, ClientTypeCorrect, PTL DEF Spec

(* An open window was opened by a miss that did not fire, or there was a   *)
(* reconnect already.                                                      *)
WindowOpenedByMiss == firstFailAt # Unset => missed \/ reconnects > 0

(* A single miss never forces the first reconnect: what client_test.go:217 *)
(* says does hold of it. It is a window left open by a reconnect that can  *)
(* fire again at once.                                                     *)
THEOREM ClientFirstReconnectNeedsTwoMisses ==
  Spec => [][reconnects = 0 /\ reconnects' # reconnects => missed]_vars
<1>1. Init => WindowOpenedByMiss
  BY DEF Init, WindowOpenedByMiss
<1>2. ASSUME TypeOK, WindowOpenedByMiss, [Next]_vars
      PROVE  /\ WindowOpenedByMiss'
             /\ reconnects = 0 /\ reconnects' # reconnects => missed
  <2>1. reconnects \in Nat /\ missed \in BOOLEAN
    BY <1>2 DEF TypeOK
  <2>2. CASE RecordTimeout /\ UNCHANGED now
    <3> DEFINE fire == firstFailAt # Unset /\ now - firstFailAt >= DeadLinkAfter
    <3>1. /\ reconnects' = IF fire THEN reconnects + 1 ELSE reconnects
          /\ missed' = ~fire /\ (fire => firstFailAt # Unset)
      BY <2>2 DEF RecordTimeout
    <3> HIDE DEF fire
    <3>2. CASE fire
      <4>1. reconnects' > 0 /\ (missed \/ reconnects > 0)
        BY <1>2, <2>1, <3>1, <3>2 DEF WindowOpenedByMiss
      <4> QED  BY <2>1, <4>1 DEF WindowOpenedByMiss
    <3>3. CASE ~fire
      <4>1. missed' /\ reconnects' = reconnects
        BY <3>1, <3>3, Zenon
      <4> QED  BY <4>1 DEF WindowOpenedByMiss
    <3> QED  BY <3>2, <3>3
  <2>3. CASE ~(RecordTimeout /\ UNCHANGED now)
    BY <1>2, <2>3, WatchdogFrame DEF WindowOpenedByMiss, watchdog
  <2> QED  BY <2>2, <2>3
<1>3. TypeOK /\ WindowOpenedByMiss /\ [Next]_vars => WindowOpenedByMiss'
  BY <1>2
<1>4. TypeOK /\ WindowOpenedByMiss /\ [Next]_vars =>
        [reconnects = 0 /\ reconnects' # reconnects => missed]_vars
  BY <1>2
<1> QED  BY <1>1, <1>3, <1>4, ClientTypeCorrect, PTL DEF Spec

(* The window is open though no miss opened it.                            *)
LeftOpen == firstFailAt # Unset /\ ~missed

(* A reconnect that no earlier miss prepared comes from a window left open, *)
(* and only a reconnect leaves one open: an answer closes it for good.     *)
THEOREM ClientOnlyReconnectLeavesWindowOpen ==
  Spec => [][/\ reconnects' # reconnects => missed \/ LeftOpen
             /\ LeftOpen' => LeftOpen \/ reconnects' # reconnects]_vars
<1>1. ASSUME TypeOK, [Next]_vars
      PROVE  /\ reconnects' # reconnects => missed \/ LeftOpen
             /\ LeftOpen' => LeftOpen \/ reconnects' # reconnects
  <2>1. reconnects \in Nat
    BY <1>1 DEF TypeOK
  <2>2. CASE RecordTimeout /\ UNCHANGED now
    <3> DEFINE fire == firstFailAt # Unset /\ now - firstFailAt >= DeadLinkAfter
    <3>1. /\ reconnects' = IF fire THEN reconnects + 1 ELSE reconnects
          /\ missed' = ~fire /\ (fire => firstFailAt # Unset)
      BY <2>2 DEF RecordTimeout
    <3> HIDE DEF fire
    <3>2. CASE fire
      <4>1. reconnects' # reconnects /\ firstFailAt # Unset
        BY <2>1, <3>1, <3>2
      <4> QED  BY <4>1 DEF LeftOpen
    <3>3. CASE ~fire
      <4>1. missed' /\ reconnects' = reconnects
        BY <3>1, <3>3, Zenon
      <4> QED  BY <4>1 DEF LeftOpen
    <3> QED  BY <3>2, <3>3
  <2>3. CASE firstFailAt' = Unset /\ UNCHANGED <<reconnects, now>>
    BY <2>3 DEF LeftOpen
  <2>4. CASE UNCHANGED watchdog
    BY <2>4 DEF LeftOpen, watchdog
  <2> QED  BY <1>1, <2>2, <2>3, <2>4, WatchdogFrame DEF watchdog
<1>2. TypeOK /\ [Next]_vars =>
        [/\ reconnects' # reconnects => missed \/ LeftOpen
         /\ LeftOpen' => LeftOpen \/ reconnects' # reconnects]_vars
  BY <1>1
<1> QED  BY <1>2, ClientTypeCorrect, PTL DEF Spec

-----------------------------------------------------------------------------
(* The client implements RequestReply. *)

LEMMA PromiseInit == Init => RR!Init
BY DEF Init, RR!Init, PhaseOf, issued

LEMMA PromiseStep == CorrelationInv /\ [Next]_vars => [RR!Next]_RR!vars
<1> SUFFICES ASSUME CorrelationInv, [Next]_vars PROVE [RR!Next]_RR!vars
  OBVIOUS
<1> USE DEF PhaseOf
<1>1. /\ pc \in [Callers -> Labels] /\ req \in [Callers -> Nat]
      /\ answer \in [Callers -> Nat] /\ issued \in Nat
  BY DEF CorrelationInv, TypeOK, issued
<1>2. ASSUME NEW c \in Callers, CallerStep(c) PROVE [RR!Next]_RR!vars
  <2>0. Register(c) \/ issued' = issued
    BY <1>2, CallerFrame DEF issued
  <2>1. CASE Start(c)
    <3>1. RR!Call(c)
      BY <1>1, <2>1 DEF Start, Goto, RR!Call, issued, table
    <3> QED  BY <3>1 DEF RR!Next
  <2>2. CASE Abandon(c) \/ Release(c)
    <3>1. RR!Return(c)
      BY <1>1, <2>2 DEF Abandon, Release, Goto, RR!Return, issued, table
    <3> QED  BY <3>1 DEF RR!Next
  <2>3. CASE Register(c)
    <3>1. issued' = issued + 1
      BY <2>3, RegisterEffect DEF CorrelationInv
    <3>2. \A d \in Callers : pc[d] \in {"idle", "sem", "register"}
      BY <2>3 DEF CorrelationInv, Exclusive, Held, Register
    <3>3. RR!Open(c)
      BY <1>1, <2>3, <3>1, <3>2 DEF Register, Goto, RR!Open
    <3> QED  BY <3>3 DEF RR!Next
  <2>4. CASE TakeAnswer(c)
    <3>1. req[c] \in 1..issued /\ chans[req[c]] # 0
      BY <1>1, <2>4 DEF CorrelationInv, TakeAnswer, NewestServed, Owns, Registered
    <3>2. Matches(chans[req[c]], req[c]) /\ chans[req[c]] \in Nat
      BY <3>1 DEF CorrelationInv, ChannelsMatch, TypeOK, issued
    <3>3. chans[req[c]] \in 1..req[c]
      BY <1>1, <3>1, <3>2, ClientAssumption DEF Matches
    <3>4. RR!Answer(c)
      BY <1>1, <2>0, <2>4, <3>2, <3>3 DEF TakeAnswer, Goto, RR!Answer, Matches, Register
    <3> QED  BY <3>4 DEF RR!Next
  <2>5. CASE SendError(c) \/ GiveUp(c)
    <3>1. RR!Fail(c)
      BY <1>1, <2>5 DEF SendError, GiveUp, Goto, RR!Fail, issued, table
    <3> QED  BY <3>1 DEF RR!Next
  <2>6. CASE Acquire(c) \/ LockSend(c) \/ SendOk(c) \/ Clear(c)
    BY <1>1, <2>6 DEF Acquire, LockSend, SendOk, Clear, Goto, RR!vars, issued, table
  <2>7. CASE Expire(c) \/ MeterReceives(c)
    BY <2>7 DEF Expire, MeterReceives, RR!vars, issued, table, callers
  <2> QED  BY <1>2, <2>1, <2>2, <2>3, <2>4, <2>5, <2>6, <2>7 DEF CallerStep
<1>3. CASE LoopStep \/ EnvStep \/ UNCHANGED vars
  BY <1>3, LoopEnvFrame DEF RR!vars, issued
<1> QED  BY <1>2, <1>3 DEF Next

(* Get and SetC keep the promise of RequestReply: one request at a time,   *)
(* each ended by an error or by its own answer up to the wrap of the TID.  *)
THEOREM ClientKeepsPromise == Spec => KeepsPromise
BY PromiseInit, PromiseStep, ClientInvariant, PTL DEF Spec, KeepsPromise, RR!Spec
=============================================================================
