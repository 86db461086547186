--------------------------- MODULE ReadingProofs ---------------------------
(***************************************************************************)
(* What is proved of Reading. The half-hour timer: each half hour is       *)
(* polled once, for every start, every job time within its bound and a     *)
(* clock of any length. The way of an answer: what is stored is what was   *)
(* meant, all of it if the answer is full and nothing if it is damaged,    *)
(* for all values, all property maps and wherever the answer is cut.       *)
(***************************************************************************)
EXTENDS ValueProofs

-----------------------------------------------------------------------------
(* The half-hour timer. *)

(* nextMinuteMark in the terms the proof uses. *)
LEMMA NextMinuteMarkValue ==
  ASSUME NEW t \in Nat
  PROVE  NextMinuteMark(t) = t - (t % 60) + IF t % 60 < 5 THEN 5
                                            ELSE IF t % 60 < 35 THEN 35 ELSE 65
<1> DEFINE base == t - (t % 60)
           first(i) == /\ Candidate(t, i) > t
                       /\ \A j \in 1..(i - 1) : Candidate(t, j) <= t
<1>1. t % 60 \in 0..59 /\ base \in Nat
  OBVIOUS
<1>2. /\ Candidate(t, 1) = base + 5 /\ Candidate(t, 2) = base + 35
      /\ Candidate(t, 3) = base + 65 /\ Candidate(t, 4) = base + 95
  BY DEF Candidate, Minutes
<1>3. CASE t % 60 < 5
  <2>1. \A i \in 1..4 : first(i) <=> i = 1
    BY <1>1, <1>2, <1>3
  <2>2. (CHOOSE i \in 1..4 : first(i)) = 1
    BY <2>1
  <2> QED  BY <2>2, <1>2, <1>3 DEF NextMinuteMark
<1>4. CASE t % 60 \in 5..34
  <2>1. \A i \in 1..4 : first(i) <=> i = 2
    BY <1>1, <1>2, <1>4
  <2>2. (CHOOSE i \in 1..4 : first(i)) = 2
    BY <2>1
  <2> QED  BY <2>2, <1>2, <1>4 DEF NextMinuteMark
<1>5. CASE t % 60 >= 35
  <2>1. \A i \in 1..4 : first(i) <=> i = 3
    BY <1>1, <1>2, <1>5
  <2>2. (CHOOSE i \in 1..4 : first(i)) = 3
    BY <2>1
  <2> QED  BY <2>2, <1>2, <1>5 DEF NextMinuteMark
<1> QED  BY <1>1, <1>3, <1>4, <1>5

(* A mark is five minutes into a half hour; while the timer runs it is the *)
(* next one that was not polled, and a job ends before the half hour does. *)
TimerInv ==
  job = "energy30" =>
    /\ now \in Nat /\ mark \in Nat /\ last \in Nat \cup {-1}
    /\ mark % 30 = 5
    /\ stage = "sleep" => now <= mark /\ (last = -1 \/ HalfHour(mark) = last + 1)
    /\ stage # "sleep" => mark <= now /\ now <= mark + JobTime /\ last = HalfHour(mark)

(* The next mark is five minutes into the next half hour after one.        *)
LEMMA NextMark ==
  ASSUME NEW t \in Nat, NEW m \in Nat, NEW d \in 0..24, m % 30 = 5, m <= t, t <= m + d
  PROVE  /\ NextMinuteMark(t) \in Nat /\ NextMinuteMark(t) % 30 = 5
         /\ t <= NextMinuteMark(t)
         /\ HalfHour(NextMinuteMark(t)) = HalfHour(m) + 1
<1> DEFINE h == t \div 60
           n == NextMinuteMark(t)
<1>0. n = t - (t % 60) + IF t % 60 < 5 THEN 5 ELSE IF t % 60 < 35 THEN 35 ELSE 65
  BY NextMinuteMarkValue
<1> SUFFICES n \in Nat /\ n % 30 = 5 /\ t <= n /\ HalfHour(n) = HalfHour(m) + 1
  OBVIOUS
<1> HIDE DEF n
<1>1. h \in Nat /\ t = 60 * h + (t % 60) /\ t % 60 \in 0..59
  OBVIOUS
<1>2. CASE t % 60 < 35
  <2>1. t % 60 >= 5
    BY <1>2
  <2>2. n = 60 * h + 35
    BY <2>1, <1>1, <1>2, <1>0
  <2>3. HalfHour(m) = 2 * h
    BY <1>1, <1>2 DEF HalfHour
  <2> QED  BY <2>2, <2>3, <1>1, <1>2 DEF HalfHour
<1>3. CASE t % 60 >= 35
  <2>1. n = 60 * h + 65
    BY <1>1, <1>3, <1>0
  <2>2. HalfHour(m) = 2 * h + 1
    BY <1>1, <1>3 DEF HalfHour
  <2> QED  BY <2>1, <2>2, <1>1, <1>3 DEF HalfHour
<1> QED  BY <1>1, <1>2, <1>3

LEMMA FirstMark ==
  ASSUME NEW t \in Nat
  PROVE  NextMinuteMark(t) \in Nat /\ NextMinuteMark(t) % 30 = 5 /\ t <= NextMinuteMark(t)
<1> DEFINE h == t \div 60
<1>1. h \in Nat /\ t = 60 * h + (t % 60) /\ t % 60 \in 0..59
  OBVIOUS
<1>2. NextMinuteMark(t) \in {60 * h + 5, 60 * h + 35, 60 * h + 65}
  <2>1. NextMinuteMark(t) \in {t - (t % 60) + 5, t - (t % 60) + 35, t - (t % 60) + 65}
    BY NextMinuteMarkValue
  <2> QED  BY <2>1, <1>1
<1>3. NextMinuteMark(t) \in Nat /\ t <= NextMinuteMark(t)
  BY <1>1, NextMinuteMarkValue
<1>4. /\ (60 * h + 5) % 30 = 5 /\ (60 * h + 35) % 30 = 5 /\ (60 * h + 65) % 30 = 5
  BY <1>1
<1> QED  BY <1>2, <1>3, <1>4

LEMMA TimerInit == Init => TimerInv
<1> SUFFICES ASSUME Init, job = "energy30" PROVE TimerInv
  BY DEF TimerInv
<1>1. now \in Nat /\ mark = NextMinuteMark(now) /\ stage = "sleep" /\ last = -1
  BY DEF Init
<1> QED  BY <1>1, FirstMark DEF TimerInv

LEMMA TimerStep == TimerInv /\ [Next]_vars => TimerInv'
<1> SUFFICES ASSUME TimerInv, [Next]_vars, job' = "energy30" PROVE TimerInv'
  BY DEF TimerInv
<1> USE ReadingAssumption DEF clock, answer
<1>1. CASE Tick
  BY <1>1 DEF Tick, TimerInv
<1>2. CASE Fire
  BY <1>2 DEF Fire, TimerInv, HalfHour
<1>3. CASE Sleep
  <2>1. job = "energy30" /\ stage = "done" /\ stage' = "sleep" /\ mark' = NextMinuteMark(now)
        /\ UNCHANGED <<now, last>>
    BY <1>3 DEF Sleep
  <2> QED  BY <2>1, NextMark DEF TimerInv
<1>4. ASSUME \/ MeterAnswers \/ NoAnswer \/ HandleERXUDP \/ Dispatch \/ Store
      PROVE  TimerInv'
  <2>1. stage # "sleep" /\ stage' # "sleep" /\ UNCHANGED <<job, now, mark, last>>
    BY <1>4 DEF MeterAnswers, NoAnswer, HandleERXUDP, Dispatch, Store
  <2> QED  BY <2>1 DEF TimerInv
<1>5. CASE UNCHANGED vars
  BY <1>5 DEF vars, TimerInv
<1> QED  BY <1>1, <1>2, <1>3, <1>4, <1>5 DEF Next

(* tickAt polls each half hour's value once, wherever in an hour the       *)
(* program is started and however long each job takes within its bound.    *)
THEOREM HalfHoursPolledOnce == Spec => EachHalfHourPolledOnce
<1>1. TimerInv /\ [Next]_vars =>
        [job = "energy30" /\ stage = "sleep" /\ stage' = "get"
           => last' = last + 1 \/ last = -1]_vars
  <2> SUFFICES ASSUME TimerInv, Next, job = "energy30", stage = "sleep", stage' = "get"
               PROVE  last' = last + 1 \/ last = -1
    OBVIOUS
  <2>1. Fire
    BY DEF Next, Tick, Sleep, MeterAnswers, NoAnswer, HandleERXUDP, Dispatch, Store
  <2> QED  BY <2>1 DEF Fire, TimerInv, HalfHour
<1> QED  BY <1>1, TimerInit, TimerStep, PTL DEF Spec, EachHalfHourPolledOnce

-----------------------------------------------------------------------------
(* The way of an answer. *)

(* What the meter can mean by a value: with any time, where it has one.    *)
Measured(epc) ==
  CASE epc = EPC.Power       -> Options(Watts)
    [] epc = EPC.Current     -> [r : Options(Amps), t : Options(Amps)]
    [] epc = EPC.Fwd         -> Options(Raws)
    [] epc = EPC.Min1        -> [time : Time, fwd : Options(Raws), rev : Options(Raws)]
    [] epc = EPC.Scheduled   -> [time : Time, raw : Options(Raws)]
    [] epc = EPC.Fault       -> BOOLEAN
    [] epc = EPC.Map         -> SUBSET (128..255)
    [] epc = EPC.Coefficient -> Coefs
    [] epc = EPC.Unit        -> Options(Units)

(* The codes the jobs ask for. *)
Codes == {EPC.Power, EPC.Current, EPC.Fwd, EPC.Min1, EPC.Scheduled, EPC.Fault, EPC.Map,
          EPC.Coefficient, EPC.Unit}

LEMMA CodesDiffer ==
  /\ EPC.Power \in Byte /\ EPC.Current \in Byte /\ EPC.Fwd \in Byte /\ EPC.Min1 \in Byte
  /\ EPC.Scheduled \in Byte /\ EPC.Fault \in Byte /\ EPC.Map \in Byte
  /\ EPC.Coefficient \in Byte /\ EPC.Unit \in Byte
  /\ EPC.Power # EPC.Current /\ EPC.Coefficient # EPC.Unit
BY DEF EPC, Byte

LEMMA MeasuredOf ==
  /\ Measured(EPC.Power) = Options(Watts)
  /\ Measured(EPC.Current) = [r : Options(Amps), t : Options(Amps)]
  /\ Measured(EPC.Fwd) = Options(Raws)
  /\ Measured(EPC.Min1) = [time : Time, fwd : Options(Raws), rev : Options(Raws)]
  /\ Measured(EPC.Scheduled) = [time : Time, raw : Options(Raws)]
  /\ Measured(EPC.Fault) = BOOLEAN
  /\ Measured(EPC.Map) = SUBSET (128..255)
  /\ Measured(EPC.Coefficient) = Coefs
  /\ Measured(EPC.Unit) = Options(Units)
<1>1. Measured(EPC.Power) = Options(Watts)
  BY DEF Measured, EPC
<1>2. Measured(EPC.Current) = [r : Options(Amps), t : Options(Amps)]
  <2>1. /\ EPC.Current # EPC.Power /\ EPC.Current # EPC.Fwd /\ EPC.Current # EPC.Min1
        /\ EPC.Current # EPC.Scheduled
        /\ EPC.Current # EPC.Fault /\ EPC.Current # EPC.Map /\ EPC.Current # EPC.Coefficient
        /\ EPC.Current # EPC.Unit
    BY DEF EPC
  <2> QED  BY <2>1, Zenon DEF Measured
<1>3. Measured(EPC.Fwd) = Options(Raws)
  BY DEF Measured, EPC
<1>4. Measured(EPC.Min1) = [time : Time, fwd : Options(Raws), rev : Options(Raws)]
  <2>1. /\ EPC.Min1 # EPC.Power /\ EPC.Min1 # EPC.Current /\ EPC.Min1 # EPC.Fwd
        /\ EPC.Min1 # EPC.Scheduled
        /\ EPC.Min1 # EPC.Fault /\ EPC.Min1 # EPC.Map /\ EPC.Min1 # EPC.Coefficient
        /\ EPC.Min1 # EPC.Unit
    BY DEF EPC
  <2> QED  BY <2>1, Zenon DEF Measured
<1>5. Measured(EPC.Scheduled) = [time : Time, raw : Options(Raws)]
  <2>1. /\ EPC.Scheduled # EPC.Power /\ EPC.Scheduled # EPC.Current /\ EPC.Scheduled # EPC.Fwd
        /\ EPC.Scheduled # EPC.Min1
        /\ EPC.Scheduled # EPC.Fault /\ EPC.Scheduled # EPC.Map /\ EPC.Scheduled # EPC.Coefficient
        /\ EPC.Scheduled # EPC.Unit
    BY DEF EPC
  <2> QED  BY <2>1, Zenon DEF Measured
<1>6. Measured(EPC.Fault) = BOOLEAN
  BY DEF Measured, EPC
<1>7. Measured(EPC.Map) = SUBSET (128..255)
  BY DEF Measured, EPC
<1>8. Measured(EPC.Coefficient) = Coefs
  BY DEF Measured, EPC
<1>9. Measured(EPC.Unit) = Options(Units)
  BY DEF Measured, EPC
<1> QED  BY <1>1, <1>2, <1>3, <1>4, <1>5, <1>6, <1>7, <1>8, <1>9

LEMMA ClockBytes ==
  ASSUME NEW h \in Int
  PROVE  ClockOf(h) \in Time
<1>1. (h \div 2) % 24 \in Byte /\ 30 * (h % 2) \in Byte
  BY DEF Byte
<1>2. 7 \in Byte /\ 234 \in Byte /\ 6 \in Byte /\ 15 \in Byte /\ 0 \in Byte
  BY DEF Byte
<1> QED  BY <1>1, <1>2 DEF ClockOf, Time

LEMMA ValuesMeasured ==
  ASSUME NEW e \in Codes, e = EPC.Scheduled => now \in Int, NEW v \in Values(e)
  PROVE  v \in Measured(e)
<1>1. SomeTime \in Time
  BY ClockBytes DEF SomeTime
<1>2. CASE e = EPC.Scheduled
  <2>1. ClockOf(HalfHour(now)) \in Time
    BY <1>2, ClockBytes DEF HalfHour
  <2>2. v \in [time : {ClockOf(HalfHour(now))}, raw : Options(Raws)]
    BY <1>2 DEF Values, EPC
  <2> QED  BY <1>2, <2>1, <2>2, MeasuredOf
<1>3. CASE e = EPC.Min1
  <2>1. v \in [time : {SomeTime}, fwd : Options(Raws), rev : Options(Raws)]
    BY <1>3 DEF Values, EPC
  <2> QED  BY <1>1, <1>3, <2>1, MeasuredOf
<1>4. CASE e = EPC.Map
  <2>1. v \in {b \cup x : b \in {{}, MapBase}, x \in SUBSET MapExtra}
    BY <1>4 DEF Values, EPC
  <2>2. MapBase \cup MapExtra \subseteq 128..255
    BY ReadingAssumption, SMT
  <2> QED  BY <1>4, <2>1, <2>2, MeasuredOf
<1>5. ASSUME e \in {EPC.Power, EPC.Current, EPC.Fwd, EPC.Fault, EPC.Coefficient, EPC.Unit}
      PROVE  v \in Measured(e)
  BY <1>5 DEF Values, Measured, EPC
<1> QED  BY <1>2, <1>3, <1>4, <1>5 DEF Codes

(* Whatever a value is, its coding is bytes that fit a property.           *)
LEMMA WireBytes ==
  ASSUME NEW e \in Codes, NEW v \in Measured(e), NEW w \in Wires(e, v)
  PROVE  w \in Seq(Byte) /\ Len(w) \in Byte
<1>0. ASSUME NEW n \in Nat, n <= 17 PROVE n \in Byte
  BY <1>0 DEF Byte
<1>1. CASE e = EPC.Power
  <2>1. v \in Options(Watts) /\ w \in Wires(EPC.Power, v)
    BY <1>1, MeasuredOf
  <2>2. w \in Seq(Byte) /\ Len(w) = 4
    BY <2>1, PowerInverts
  <2> QED  BY <2>2 DEF Byte
<1>2. CASE e = EPC.Current
  <2>1. v \in [r : Options(Amps), t : Options(Amps)] /\ w \in Wires(EPC.Current, v)
    BY <1>2, MeasuredOf
  <2>2. w \in Seq(Byte) /\ Len(w) = 4
    BY <2>1, CurrentInverts
  <2> QED  BY <2>2 DEF Byte
<1>3. CASE e = EPC.Fwd
  <2>1. v \in Options(Raws) /\ w \in Wires(EPC.Fwd, v)
    BY <1>3, MeasuredOf
  <2>2. w \in Seq(Byte) /\ Len(w) = 4
    BY <2>1, FwdInverts
  <2> QED  BY <2>2 DEF Byte
<1>4. CASE e = EPC.Min1
  <2>1. v \in [time : Time, fwd : Options(Raws), rev : Options(Raws)] /\ w \in Wires(EPC.Min1, v)
    BY <1>4, MeasuredOf
  <2>2. w \in Seq(Byte) /\ Len(w) = 15
    BY <2>1, Min1Inverts
  <2> QED  BY <2>2 DEF Byte
<1>5. CASE e = EPC.Scheduled
  <2>1. v \in [time : Time, raw : Options(Raws)] /\ w \in Wires(EPC.Scheduled, v)
    BY <1>5, MeasuredOf
  <2>2. w \in Seq(Byte) /\ Len(w) = 11
    BY <2>1, ScheduledInverts
  <2> QED  BY <2>2 DEF Byte
<1>6. CASE e = EPC.Fault
  <2>1. v \in BOOLEAN /\ w \in Wires(EPC.Fault, v)
    BY <1>6, MeasuredOf
  <2>2. w \in Seq(Byte) /\ Len(w) = 1
    BY <2>1, FaultInverts
  <2> QED  BY <2>2 DEF Byte
<1>7. CASE e = EPC.Map
  <2>1. w \in Seq(Byte) /\ Len(w) <= 17
    BY <1>7, MeasuredOf, MapInverts
  <2>2. Len(w) \in Nat
    BY <2>1, LenProperties
  <2> QED  BY <1>0, <2>1, <2>2
<1>8. CASE e = EPC.Coefficient
  <2>1. v \in Coefs /\ w \in Wires(EPC.Coefficient, v)
    BY <1>8, MeasuredOf
  <2>2. w \in Seq(Byte) /\ Len(w) = 4
    BY <2>1, CoefficientBytes
  <2> QED  BY <2>2 DEF Byte
<1>9. CASE e = EPC.Unit
  <2>1. v \in Options(Units) /\ w \in Wires(EPC.Unit, v)
    BY <1>9, MeasuredOf
  <2>2. w \in Seq(Byte) /\ Len(w) = 1
    BY <2>1, UnitInverts
  <2> QED  BY <2>2 DEF Byte
<1> QED  BY <1>1, <1>2, <1>3, <1>4, <1>5, <1>6, <1>7, <1>8, <1>9 DEF Codes

LEMMA RequestedCodes ==
  ASSUME NEW j \in Jobs
  PROVE  LET s == Requested[j]
         IN  /\ s \in Seq(Codes) /\ DOMAIN s = 1..Len(s) /\ Len(s) \in 1..2
             /\ \A i, k \in DOMAIN s : s[i] = s[k] => i = k
<1>1. j \in {"power", "energy", "min1", "energy30", "status", "map", "meta"}
  BY DEF Jobs, Requested
<1>2. ASSUME NEW c \in Codes, NEW s, s = <<c>>
      PROVE  /\ s \in Seq(Codes) /\ DOMAIN s = 1..Len(s) /\ Len(s) \in 1..2
             /\ \A i, k \in DOMAIN s : s[i] = s[k] => i = k
  BY <1>2
<1>3. ASSUME NEW c \in Codes, NEW d \in Codes, c # d, NEW s, s = <<c, d>>
      PROVE  /\ s \in Seq(Codes) /\ DOMAIN s = 1..Len(s) /\ Len(s) \in 1..2
             /\ \A i, k \in DOMAIN s : s[i] = s[k] => i = k
  BY <1>3
<1>4. /\ EPC.Power \in Codes /\ EPC.Current \in Codes /\ EPC.Coefficient \in Codes
      /\ EPC.Unit \in Codes
      /\ EPC.Fwd \in Codes /\ EPC.Min1 \in Codes /\ EPC.Scheduled \in Codes /\ EPC.Fault \in Codes
      /\ EPC.Map \in Codes
  BY DEF Codes
<1>5. CASE j = "power"
  <2>1. Requested[j] = <<EPC.Power, EPC.Current>>
    BY <1>5 DEF Requested
  <2> QED  BY <1>3, <1>4, <2>1, CodesDiffer
<1>6. CASE j = "meta"
  <2>1. Requested[j] = <<EPC.Coefficient, EPC.Unit>>
    BY <1>6 DEF Requested
  <2> QED  BY <1>3, <1>4, <2>1, CodesDiffer
<1>7. ASSUME j \in {"energy", "min1", "energy30", "status", "map"}
      PROVE  \E c \in Codes : Requested[j] = <<c>>
  BY <1>4, <1>7 DEF Requested
<1> QED  BY <1>1, <1>2, <1>5, <1>6, <1>7

-----------------------------------------------------------------------------
(* The answers that mean what the meter means, as frames.                  *)
IsMeant(j, m) ==
  /\ DOMAIN m = ToSet(Requested[j])
  /\ \A e \in DOMAIN m : m[e] \in Measured(e)

(* The properties of an answer, and the frames the meter can have sent.    *)
Listed(edts) == [i \in DOMAIN edts |-> [epc |-> Requested[job][i], edt |-> edts[i]]]
Sent == {Answer(given, Listed(edts)) : edts \in Answers(meant, given)}

LEMMA MeaningsMeant ==
  ASSUME job \in Jobs, job = "energy30" => now \in Int, NEW m \in Meanings
  PROVE  IsMeant(job, m)
<1> DEFINE s == Requested[job]
<1>1. /\ s \in Seq(Codes) /\ DOMAIN s = 1..Len(s) /\ Len(s) \in 1..2
      /\ \A i, k \in DOMAIN s : s[i] = s[k] => i = k
  BY RequestedCodes
<1>2. \A e \in ToSet(s) : e = EPC.Scheduled => now \in Int
  <2> SUFFICES ASSUME NEW i \in DOMAIN s, s[i] = EPC.Scheduled PROVE job = "energy30"
    BY DEF ToSet
  <2>1. /\ EPC.Scheduled # EPC.Power /\ EPC.Scheduled # EPC.Current /\ EPC.Scheduled # EPC.Fwd
        /\ EPC.Scheduled # EPC.Min1 /\ EPC.Scheduled # EPC.Fault /\ EPC.Scheduled # EPC.Map
        /\ EPC.Scheduled # EPC.Coefficient /\ EPC.Scheduled # EPC.Unit
    BY DEF EPC
  <2>2. i \in 1..2
    BY <1>1
  <2>3. job \in {"power", "energy", "min1", "energy30", "status", "map", "meta"}
    BY DEF Jobs, Requested
  <2> QED  BY <2>1, <2>2, <2>3 DEF Requested
<1> HIDE DEF s
<1>3. ToSet(s) \subseteq Codes
  BY <1>1 DEF ToSet
<1> DEFINE P == Values(s[1])
           Q == IF Len(s) = 1 THEN {{}} ELSE Values(s[2])
<1>4. PICK p \in P \X Q : m = [e \in ToSet(s) |-> IF e = s[1] THEN p[1] ELSE p[2]]
  BY DEF Meanings, s
<1>5. ASSUME NEW e \in ToSet(s) PROVE m[e] \in Values(e)
  <2>1. PICK i \in DOMAIN s : e = s[i]
    BY DEF ToSet
  <2>2. p[1] \in P /\ p[2] \in Q
    OBVIOUS
  <2>3. m[e] = IF e = s[1] THEN p[1] ELSE p[2]
    BY <1>4
  <2> HIDE DEF P, Q
  <2>4. CASE i = 1
    BY <2>1, <2>2, <2>3, <2>4 DEF P
  <2>5. CASE i = 2
    <3>1. e # s[1] /\ Len(s) = 2
      BY <1>1, <2>1, <2>5
    <3> QED  BY <2>1, <2>2, <2>3, <2>5, <3>1 DEF Q
  <2> QED  BY <1>1, <2>1, <2>4, <2>5
<1>6. DOMAIN m = ToSet(s)
  BY <1>4
<1>7. ASSUME NEW e \in ToSet(s) PROVE m[e] \in Measured(e)
  BY <1>2, <1>3, <1>5, ValuesMeasured
<1> QED  BY <1>6, <1>7 DEF IsMeant, s

(* What an answer holds: an empty value for a code that was not given, a   *)
(* coding of what was meant for one that was.                              *)
LEMMA SentHolds ==
  ASSUME job \in Jobs, NEW f \in Sent
  PROVE  LET s == Requested[job]
         IN  /\ f.esv = IF given = ToSet(s) THEN ESV.GetRes ELSE ESV.GetSNA
             /\ DOMAIN f.props = DOMAIN s
             /\ \A i \in DOMAIN s :
                  /\ f.props[i].epc = s[i]
                  /\ f.props[i].edt \in IF s[i] \in given THEN Wires(s[i], meant[s[i]]) ELSE {<<>>}
<1> DEFINE s == Requested[job]
           edt(i) == IF s[i] \in given THEN Wires(s[i], meant[s[i]]) ELSE {<<>>}
<1>1. PICK edts \in Answers(meant, given) : f = Answer(given, Listed(edts))
  BY DEF Sent
<1>2. DOMAIN edts = DOMAIN s /\ \A i \in DOMAIN s : edts[i] \in edt(i)
  BY DEF Answers
<1> HIDE DEF edt
<1>3. f.props = Listed(edts) /\ f.esv = IF given = ToSet(s) THEN ESV.GetRes ELSE ESV.GetSNA
  BY <1>1 DEF Answer
<1>4. /\ DOMAIN f.props = DOMAIN s
      /\ \A i \in DOMAIN s : f.props[i].epc = s[i] /\ f.props[i].edt = edts[i]
  BY <1>2, <1>3 DEF Listed
<1> QED  BY <1>2, <1>3, <1>4 DEF edt

LEMMA SentAreFrames ==
  ASSUME job \in Jobs, IsMeant(job, meant), NEW f \in Sent
  PROVE  f \in Frames /\ f.props # <<>>
<1> DEFINE s == Requested[job]
           N == Len(s)
<1>1. s \in Seq(Codes) /\ DOMAIN s = 1..N /\ N \in 1..2
  BY RequestedCodes
<1>2. PICK edts \in Answers(meant, given) : f = Answer(given, Listed(edts))
  BY DEF Sent
<1> DEFINE ps == Listed(edts)
<1>3. f = [tid |-> 1, seoj |-> EOJMeter, deoj |-> EOJController,
           esv |-> IF given = ToSet(s) THEN ESV.GetRes ELSE ESV.GetSNA, props |-> ps]
  BY <1>2 DEF Answer
<1>4. DOMAIN edts = 1..N
      /\ \A i \in 1..N : edts[i] \in IF s[i] \in given THEN Wires(s[i], meant[s[i]]) ELSE {<<>>}
  BY <1>1 DEF Answers
<1>5. ASSUME NEW i \in 1..N PROVE edts[i] \in Seq(Byte) /\ Len(edts[i]) \in Byte
  <2>1. s[i] \in Codes /\ meant[s[i]] \in Measured(s[i])
    BY <1>1 DEF IsMeant, ToSet
  <2>2. <<>> \in Seq(Byte) /\ Len(<<>>) \in Byte
    BY DEF Byte
  <2>3. edts[i] \in Wires(s[i], meant[s[i]]) \/ edts[i] = <<>>
    BY <1>4
  <2>4. CASE edts[i] = <<>>
    BY <2>2, <2>4
  <2>5. CASE edts[i] \in Wires(s[i], meant[s[i]])
    BY <2>1, <2>5, WireBytes
  <2> QED  BY <2>3, <2>4, <2>5
<1>6. ASSUME NEW i \in 1..N PROVE [epc |-> s[i], edt |-> edts[i]] \in Properties
  <2>1. s[i] \in Byte
    BY <1>1, CodesDiffer DEF Codes
  <2> QED  BY <1>5, <2>1 DEF Properties
<1>7. ps \in [1..N -> Properties]
  BY <1>4, <1>6 DEF Listed
<1> HIDE DEF ps, s
<1>8. N \in Nat
  BY <1>1
<1> HIDE DEF N
<1>9. ps \in Seq(Properties) /\ Len(ps) = N
  BY <1>7, <1>8, FunctionSeq
<1>10. EOJMeter \in Seq(Byte) /\ Len(EOJMeter) = 3 /\ EOJController \in Seq(Byte)
       /\ Len(EOJController) = 3
  <2>1. 2 \in Byte /\ 136 \in Byte /\ 1 \in Byte /\ 5 \in Byte /\ 255 \in Byte
    BY DEF Byte
  <2> QED  BY <2>1 DEF EOJMeter, EOJController
<1>11. f.esv \in Byte /\ 1 \in Word
  BY <1>3 DEF ESV, Byte, Word
<1>12. N \in Byte
  BY <1>1 DEF Byte
<1>13. f \in Frames
  BY <1>3, <1>9, <1>10, <1>11, <1>12 DEF Frames
<1>14. f.props # <<>>
  BY <1>1, <1>3, <1>9
<1> QED  BY <1>13, <1>14

(* Frame.EDT finds each requested property, and no other of its code.      *)
LEMMA ValueFound ==
  ASSUME job \in Jobs, NEW f \in Sent, NEW i \in DOMAIN Requested[job]
  PROVE  EDT(f, Requested[job][i]) = {f.props[i].edt}
<1> DEFINE s == Requested[job]
           N == Len(s)
<1>1. DOMAIN s = 1..N /\ N \in Nat /\ \A j, k \in DOMAIN s : s[j] = s[k] => j = k
  BY RequestedCodes
<1>2. DOMAIN f.props = DOMAIN s /\ \A j \in DOMAIN s : f.props[j].epc = s[j]
  BY SentHolds
<1> HIDE DEF s, N
<1>3. i \in DOMAIN s
  BY DEF s
<1>4. {k \in DOMAIN f.props :
         f.props[k].epc = s[i] /\ \A j \in 1..(k - 1) : f.props[j].epc # s[i]} = {i}
  <2>1. \A j \in 1..(i - 1) : j \in DOMAIN s /\ j # i
    BY <1>1, <1>3
  <2>2. ASSUME NEW k \in DOMAIN f.props PROVE f.props[k].epc = s[i] => k = i
    BY <1>1, <1>2, <1>3
  <2>3. f.props[i].epc = s[i] /\ \A j \in 1..(i - 1) : f.props[j].epc # s[i]
    BY <1>1, <1>2, <1>3, <2>1
  <2> QED  BY <1>2, <1>3, <2>2, <2>3
<1> QED  BY <1>4 DEF EDT, s

-----------------------------------------------------------------------------
(* What is on the way to Decode: the frame that was sent, in the four      *)
(* states HandleERXUDP lets through.                                       *)
Trailer == <<EPC.Power, 0>>
Arrived(f) ==
  \/ damage = "none" /\ data = Encode(f)
  \/ damage = "tail" /\ data = Encode(f) \o Trailer
  \/ damage = "header" /\ data = [Encode(f) EXCEPT ![2] = 130]
  \/ damage = "frame" /\ \E n \in 0..(Len(Encode(f)) - 1) : data = SubSeq(Encode(f), 1, n)

LEMMA EncodedBytes ==
  ASSUME NEW f \in Frames
  PROVE  Encode(f) \in Seq(Byte) /\ Len(Encode(f)) \in Nat /\ Len(Encode(f)) >= 12
<1> DEFINE h == Header(f)
           b == Body(f.props)
<1>1. h \in Seq(Byte) /\ Len(h) = 12
  BY HeaderBytes
<1>2. f.props \in Seq(Properties)
  BY DEF Frames
<1>3. b \in Seq(Byte)
  BY <1>2, BodyBytes
<1>4. Encode(f) = h \o b
  BY DEF Encode, Header, Body
<1> HIDE DEF h, b
<1>5. Len(b) \in Nat
  BY <1>3, LenProperties
<1>6. h \o b \in Seq(Byte) /\ Len(h \o b) = Len(h) + Len(b)
  <2>1. h \in Seq(Byte)
    BY <1>1
  <2> QED  BY <1>3, <2>1, Joined
<1> QED  BY <1>1, <1>4, <1>5, <1>6

(* HandleERXUDP takes the answer out of a line that is whole, and nothing  *)
(* out of one that is malformed, cut or another datagram.                  *)
LEMMA LineRead ==
  ASSUME NEW f \in Frames, damage \in Damages, data \in Damaged(Encode(f), damage)
  PROVE  /\ damage \in {"none", "tail", "header", "frame"} <=> Acceptable(data)
         /\ damage = "none" /\ Acceptable(data) => data.payload = Encode(f)
         /\ damage = "tail" /\ Acceptable(data) => data.payload = Encode(f) \o Trailer
         /\ damage = "header" /\ Acceptable(data) => data.payload = [Encode(f) EXCEPT ![2] = 130]
         /\ damage = "frame" /\ Acceptable(data) =>
              \E n \in 0..(Len(Encode(f)) - 1) : data.payload = SubSeq(Encode(f), 1, n)
<1> DEFINE w == Encode(f)
<1>1. w \in Seq(Byte) /\ Len(w) \in Nat /\ Len(w) >= 12
  BY EncodedBytes
<1> HIDE DEF w
<1>2. ASSUME NEW p PROVE Acceptable(Line(p)) /\ Line(p).payload = p
  BY DEF Acceptable, Line
<1>3. CASE damage = "none"
  BY <1>2, <1>3 DEF Damaged, w
<1>4. CASE damage = "tail"
  BY <1>2, <1>4 DEF Damaged, Trailer, w
<1>5. CASE damage = "header"
  BY <1>2, <1>5 DEF Damaged, w
<1>6. CASE damage = "frame"
  BY <1>2, <1>6 DEF Damaged, w
<1>7. CASE damage \in {"fields", "port", "plain", "hex"}
  BY <1>7 DEF Damaged, Acceptable, Line, w
<1>8. CASE damage = "cut"
  <2>1. data = [Line(w) EXCEPT !.payload = SubSeq(@, 1, Len(@) - 1)]
    BY <1>8 DEF Damaged, w
  <2>2. data.payload = SubSeq(w, 1, Len(w) - 1) /\ data.datalen = Len(w)
    BY <2>1 DEF Line
  <2>3. Len(SubSeq(w, 1, Len(w) - 1)) # Len(w)
    BY <1>1
  <2> QED  BY <1>8, <2>2, <2>3 DEF Acceptable
<1> QED  BY <1>3, <1>4, <1>5, <1>6, <1>7, <1>8 DEF Damages, w

(* Decode gives the frame back or nothing: nothing unless what arrived is  *)
(* whole.                                                                  *)
LEMMA ArrivedDecoded ==
  ASSUME NEW f \in Frames, Arrived(f)
  PROVE  IF damage \in {"none", "tail"} THEN Decode(data) = [ok |-> TRUE, frame |-> f]
                                        ELSE Decode(data) = Error
<1> DEFINE w == Encode(f)
<1>1. w \in Seq(Byte) /\ Len(w) \in Nat /\ Len(w) >= 12
  BY EncodedBytes
<1>2. CASE damage = "none"
  <2>1. <<>> \in Seq(Byte)
    OBVIOUS
  <2>2. w \o <<>> = w
    BY <1>1, ConcatEmptySeq
  <2>3. Decode(w \o <<>>) = [ok |-> TRUE, frame |-> f]
    BY <2>1, DecodeInvertsEncode
  <2> QED  BY <1>2, <2>2, <2>3 DEF Arrived
<1>3. CASE damage = "tail"
  <2>1. 0 \in Byte /\ EPC.Power \in Byte
    BY CodesDiffer DEF Byte
  <2>2. Trailer \in Seq(Byte)
    BY <2>1 DEF Trailer
  <2>3. Decode(w \o Trailer) = [ok |-> TRUE, frame |-> f]
    BY <2>2, DecodeInvertsEncode
  <2> QED  BY <1>3, <2>3 DEF Arrived
<1>4. CASE damage = "header"
  <2> DEFINE x == [w EXCEPT ![2] = 130]
  <2>1. data = x
    BY <1>4 DEF Arrived
  <2> HIDE DEF w
  <2>2. 130 \in Byte
    BY DEF Byte
  <2>3. x \in Seq(Byte) /\ Len(x) = Len(w) /\ x[2] = 130
    BY <1>1, <2>2
  <2> HIDE DEF x
  <2>4. SubSeq(x, 1, 2)[2] = 130
    BY <1>1, <2>3
  <2>5. EHD[2] = 129 /\ 130 # 129
    BY DEF EHD
  <2>6. SubSeq(x, 1, 2) # EHD
    BY <2>4, <2>5
  <2> QED  BY <1>4, <2>1, <2>6 DEF Decode
<1>5. CASE damage = "frame"
  BY <1>5, DecodeRefusesCut DEF Arrived
<1> QED  BY <1>2, <1>3, <1>4, <1>5 DEF Arrived

-----------------------------------------------------------------------------
(* What the jobs make of a frame, one by one.                              *)
Full == given = ToSet(Requested[job])

(* What is stored in full: a full answer, and what there is of a partial   *)
(* one in the jobs that take it, but for toPower.                          *)
Used == Full \/ job \in Partial \ {"power"}

FrameInv ==
  /\ job \in Jobs /\ IsMeant(job, meant) /\ given \subseteq ToSet(Requested[job])
  /\ data \in Sent

(* The value of a code that was asked for.                                 *)
LEMMA ValueRead ==
  ASSUME FrameInv, NEW i \in DOMAIN Requested[job], NEW e, e = Requested[job][i]
  PROVE  /\ meant[e] \in Measured(e)
         /\ \E w : /\ EDT(data, e) = {w}
                   /\ IF e \in given THEN w \in Wires(e, meant[e]) ELSE w = <<>>
<1>1. job \in Jobs /\ IsMeant(job, meant) /\ data \in Sent
  BY DEF FrameInv
<1>2. EDT(data, e) = {data.props[i].edt}
  BY <1>1, ValueFound
<1>3. data.props[i].edt \in IF e \in given THEN Wires(e, meant[e]) ELSE {<<>>}
  BY <1>1, SentHolds
<1>4. meant[e] \in Measured(e)
  BY <1>1 DEF IsMeant, ToSet
<1> QED  BY <1>2, <1>3, <1>4

LEMMA OneRequested ==
  ASSUME NEW e, FrameInv, Requested[job] = <<e>>
  PROVE  /\ meant[e] \in Measured(e) /\ given \in {{}, {e}}
         /\ \E w : /\ EDT(data, e) = {w}
                   /\ IF e \in given THEN w \in Wires(e, meant[e]) ELSE w = <<>>
<1>1. ToSet(Requested[job]) = {e}
  BY DEF ToSet
<1>2. given \in {{}, {e}}
  BY <1>1 DEF FrameInv
<1>3. 1 \in DOMAIN Requested[job] /\ e = Requested[job][1]
  OBVIOUS
<1> QED  BY <1>2, <1>3, ValueRead

LEMMA TwoRequested ==
  ASSUME NEW e, NEW d, FrameInv, Requested[job] = <<e, d>>
  PROVE  /\ meant[e] \in Measured(e) /\ meant[d] \in Measured(d)
         /\ Full <=> e \in given /\ d \in given
         /\ \E w : /\ EDT(data, e) = {w}
                   /\ IF e \in given THEN w \in Wires(e, meant[e]) ELSE w = <<>>
         /\ \E w : /\ EDT(data, d) = {w}
                   /\ IF d \in given THEN w \in Wires(d, meant[d]) ELSE w = <<>>
<1>1. ToSet(Requested[job]) = {e, d}
  BY DEF ToSet
<1>2. Full <=> e \in given /\ d \in given
  BY <1>1 DEF FrameInv, Full
<1>3. 1 \in DOMAIN Requested[job] /\ e = Requested[job][1]
  OBVIOUS
<1>4. 2 \in DOMAIN Requested[job] /\ d = Requested[job][2]
  OBVIOUS
<1>5. /\ meant[e] \in Measured(e)
      /\ \E w : /\ EDT(data, e) = {w}
                /\ IF e \in given THEN w \in Wires(e, meant[e]) ELSE w = <<>>
  BY <1>3, ValueRead
<1>6. /\ meant[d] \in Measured(d)
      /\ \E w : /\ EDT(data, d) = {w}
                /\ IF d \in given THEN w \in Wires(d, meant[d]) ELSE w = <<>>
  BY <1>4, ValueRead
<1> QED  BY <1>2, <1>5, <1>6

LEMMA MeantSomething ==
  ASSUME job \in Jobs, IsMeant(job, meant)
  PROVE  meant # <<>>
<1>1. Requested[job][1] \in DOMAIN meant
  <2>1. 1 \in DOMAIN Requested[job]
    BY RequestedCodes
  <2> QED  BY <2>1 DEF IsMeant, ToSet
<1> QED  BY <1>1

(* An empty value is an error to the decoders.                             *)
LEMMA NoValue ==
  /\ ~DecodeInstantPower(<<>>).ok /\ ~DecodeCurrent(<<>>).ok /\ ~DecodeCumulativeEnergy(<<>>).ok
  /\ ~DecodeCumulative1Min(<<>>).ok /\ ~DecodeScheduled30(<<>>).ok /\ ~DecodePropertyMap(<<>>).ok
BY DEF DecodeInstantPower, DecodeCurrent, DecodeCumulativeEnergy, DecodeCumulative1Min,
       DecodeScheduled30, DecodePropertyMap, Error

LEMMA EnergyStored ==
  ASSUME FrameInv, job = "energy"
  PROVE  ToEnergyTotal = Expected
<1> DEFINE e == EPC.Fwd
<1>1. Requested[job] = <<e>>
  BY DEF Requested
<1>2. PICK w : /\ EDT(data, e) = {w}
               /\ IF e \in given THEN w \in Wires(e, meant[e]) ELSE w = <<>>
  BY <1>1, OneRequested
<1>3. meant[e] \in Options(Raws)
  BY <1>1, OneRequested, MeasuredOf
<1>4. Field(e, DecodeCumulativeEnergy) = DecodeCumulativeEnergy(w)
  BY <1>2 DEF Field, The
<1>5. Expected = Points(<<>>, Given(e, {}))
  BY MeantSomething DEF Expected, FrameInv
<1> HIDE DEF e
<1>6. CASE e \in given
  <2>1. w \in Wires(EPC.Fwd, meant[e])
    BY <1>2, <1>6 DEF e
  <2>2. DecodeCumulativeEnergy(w) = [ok |-> TRUE, raw |-> meant[e]]
    BY <1>3, <2>1, FwdInverts
  <2>3. ToEnergyTotal = ToEnergy(<<>>, meant[e])
    BY <1>4, <2>2 DEF ToEnergyTotal, e
  <2>4. Expected = Points(<<>>, meant[e])
    BY <1>5, <1>6 DEF Given
  <2> QED  BY <2>3, <2>4 DEF ToEnergy, Points
<1>7. CASE e \notin given
  <2>1. ToEnergyTotal = {}
    BY <1>2, <1>4, <1>7, NoValue DEF ToEnergyTotal, e
  <2>2. Expected = {}
    BY <1>5, <1>7 DEF Given, Points
  <2> QED  BY <2>1, <2>2
<1> QED  BY <1>6, <1>7

LEMMA MinuteStored ==
  ASSUME FrameInv, job = "min1"
  PROVE  ToEnergy1Min = Expected
<1> DEFINE e == EPC.Min1
           m == meant[e]
<1>1. Requested[job] = <<e>>
  BY DEF Requested
<1>2. PICK w : /\ EDT(data, e) = {w}
               /\ IF e \in given THEN w \in Wires(e, m) ELSE w = <<>>
  BY <1>1, OneRequested
<1>3. /\ m \in [time : Time, fwd : Options(Raws), rev : Options(Raws)]
      /\ given \in {{}, {e}}
  BY <1>1, OneRequested, MeasuredOf
<1>4. Field(e, DecodeCumulative1Min) = DecodeCumulative1Min(w)
  BY <1>2 DEF Field, The
<1>5. Expected = IF given = {} THEN {} ELSE Points(m.time, m.fwd)
  BY MeantSomething DEF Expected, FrameInv
<1> HIDE DEF e, m
<1>6. CASE given = {e}
  <2>1. w \in Wires(EPC.Min1, m)
    BY <1>2, <1>6 DEF e
  <2>2. DecodeCumulative1Min(w) = [ok |-> TRUE, time |-> m.time, fwd |-> m.fwd, rev |-> m.rev]
    BY <1>3, <2>1, Min1Inverts
  <2>3. ToEnergy1Min = ToEnergy(m.time, m.fwd)
    BY <1>4, <2>2 DEF ToEnergy1Min, e
  <2>4. Expected = Points(m.time, m.fwd)
    BY <1>5, <1>6
  <2> QED  BY <2>3, <2>4 DEF ToEnergy, Points
<1>7. CASE given = {}
  <2>1. w = <<>>
    BY <1>2, <1>7
  <2>2. ToEnergy1Min = {}
    BY <1>4, <2>1, NoValue DEF ToEnergy1Min, e
  <2> QED  BY <1>5, <1>7, <2>2
<1> QED  BY <1>3, <1>6, <1>7

LEMMA HalfHourStored ==
  ASSUME FrameInv, job = "energy30"
  PROVE  ToEnergy30 = Expected
<1> DEFINE e == EPC.Scheduled
           m == meant[e]
<1>1. Requested[job] = <<e>>
  BY DEF Requested
<1>2. PICK w : /\ EDT(data, e) = {w}
               /\ IF e \in given THEN w \in Wires(e, m) ELSE w = <<>>
  BY <1>1, OneRequested
<1>3. m \in [time : Time, raw : Options(Raws)] /\ given \in {{}, {e}}
  BY <1>1, OneRequested, MeasuredOf
<1>4. Field(e, DecodeScheduled30) = DecodeScheduled30(w)
  BY <1>2 DEF Field, The
<1>5. Expected = IF given = {} THEN {} ELSE Points(m.time, m.raw)
  BY MeantSomething DEF Expected, FrameInv
<1> HIDE DEF e, m
<1>6. CASE given = {e}
  <2>1. w \in Wires(EPC.Scheduled, m)
    BY <1>2, <1>6 DEF e
  <2>2. DecodeScheduled30(w) = [ok |-> TRUE, time |-> m.time, raw |-> m.raw]
    BY <1>3, <2>1, ScheduledInverts
  <2>3. ToEnergy30 = ToEnergy(m.time, m.raw)
    BY <1>4, <2>2 DEF ToEnergy30, e
  <2>4. Expected = Points(m.time, m.raw)
    BY <1>5, <1>6
  <2> QED  BY <2>3, <2>4 DEF ToEnergy, Points
<1>7. CASE given = {}
  <2>1. w = <<>>
    BY <1>2, <1>7
  <2>2. ToEnergy30 = {}
    BY <1>4, <2>1, NoValue DEF ToEnergy30, e
  <2> QED  BY <1>5, <1>7, <2>2
<1> QED  BY <1>3, <1>6, <1>7

LEMMA StatusStored ==
  ASSUME FrameInv, job = "status"
  PROVE  ToStatus = Expected
<1> DEFINE e == EPC.Fault
           m == meant[e]
<1>1. Requested[job] = <<e>>
  BY DEF Requested
<1>2. PICK w : /\ EDT(data, e) = {w}
               /\ IF e \in given THEN w \in Wires(e, m) ELSE w = <<>>
  BY <1>1, OneRequested
<1>3. m \in BOOLEAN /\ given \in {{}, {e}}
  BY <1>1, OneRequested, MeasuredOf
<1>4. Expected = {meant[x] : x \in given}
  BY MeantSomething DEF Expected, FrameInv
<1>5. ToStatus = {x[1] = 65 : x \in {y \in {w} : Len(y) = 1}}
  BY <1>2 DEF ToStatus
<1>6. CASE given = {e}
  <2>1. w \in Wires(EPC.Fault, m)
    BY <1>2, <1>6
  <2> HIDE DEF e, m
  <2>2. Len(w) = 1 /\ (w[1] = 65) = m
    BY <1>3, <2>1, FaultInverts
  <2>3. {y \in {w} : Len(y) = 1} = {w}
    BY <2>2
  <2>4. ToStatus = {x[1] = 65 : x \in {w}}
    BY <1>5, <2>3
  <2>5. {x[1] = 65 : x \in {w}} = {m}
    BY <2>2, Zenon
  <2>6. Expected = {m}
    BY <1>4, <1>6, Zenon DEF m
  <2> QED  BY <2>4, <2>5, <2>6
<1>7. CASE given = {}
  <2>1. {y \in {w} : Len(y) = 1} = {}
    BY <1>2, <1>7
  <2> QED  BY <1>4, <1>5, <1>7, <2>1
<1> QED  BY <1>3, <1>6, <1>7

LEMMA MapKept ==
  ASSUME FrameInv, job = "map"
  PROVE  ToMap = Expected /\ \A codes \in Expected : codes \subseteq 128..255
<1> DEFINE e == EPC.Map
           m == meant[e]
<1>1. Requested[job] = <<e>>
  BY DEF Requested
<1>2. PICK w : /\ EDT(data, e) = {w}
               /\ IF e \in given THEN w \in Wires(e, m) ELSE w = <<>>
  BY <1>1, OneRequested
<1>3. m \subseteq 128..255 /\ given \in {{}, {e}}
  <2>1. m \in Measured(e) /\ given \in {{}, {e}}
    BY <1>1, OneRequested
  <2>2. m \in SUBSET (128..255)
    BY <2>1, MeasuredOf
  <2> QED  BY <2>1, <2>2
<1>4. Expected = {meant[x] : x \in given}
  BY MeantSomething DEF Expected, FrameInv
<1>5. Field(e, DecodePropertyMap) = DecodePropertyMap(w)
  BY <1>2 DEF Field, The
<1>6. CASE given = {e}
  <2>1. w \in Wires(EPC.Map, m)
    BY <1>2, <1>6
  <2> HIDE DEF e, m
  <2>2. DecodePropertyMap(w) = [ok |-> TRUE, epcs |-> m]
    BY <1>3, <2>1, MapInverts
  <2>3. ToMap = {m}
    BY <1>5, <2>2 DEF ToMap, e
  <2>4. Expected = {m}
    BY <1>4, <1>6 DEF m
  <2> QED  BY <1>3, <2>3, <2>4
<1>7. CASE given = {}
  <2>1. w = <<>>
    BY <1>2, <1>7
  <2>2. ToMap = {}
    BY <1>5, <2>1, NoValue DEF ToMap
  <2> QED  BY <1>4, <1>7, <2>2
<1> QED  BY <1>3, <1>6, <1>7

LEMMA PowerStored ==
  ASSUME FrameInv, job = "power"
  PROVE  LET X == {p \in ToPower : HasData(p)}
         IN  X \subseteq Expected /\ (Full => X = Expected)
<1> DEFINE e == EPC.Power
           d == EPC.Current
           m == meant[e]
           n == meant[d]
           X == {p \in ToPower : HasData(p)}
           none == [r |-> {}, t |-> {}]
           c == Given(d, none)
           q == [watt |-> m, r |-> c.r, t |-> c.t]
<1>1. Requested[job] = <<e, d>>
  BY DEF Requested
<1>2. PICK w : /\ EDT(data, e) = {w}
               /\ IF e \in given THEN w \in Wires(e, m) ELSE w = <<>>
  BY <1>1, TwoRequested
<1>3. PICK x : /\ EDT(data, d) = {x}
               /\ IF d \in given THEN x \in Wires(d, n) ELSE x = <<>>
  BY <1>1, TwoRequested
<1>4. m \in Options(Watts) /\ n \in [r : Options(Amps), t : Options(Amps)]
  <2>1. meant[EPC.Power] \in Measured(EPC.Power) /\ meant[EPC.Current] \in Measured(EPC.Current)
    BY <1>1, TwoRequested
  <2> QED  BY <2>1, MeasuredOf
<1>5. Full <=> e \in given /\ d \in given
  BY <1>1, TwoRequested
<1>6. /\ Field(e, DecodeInstantPower) = DecodeInstantPower(w)
      /\ Field(d, DecodeCurrent) = DecodeCurrent(x)
  BY <1>2, <1>3 DEF Field, The
<1>7. EDT(data, d) # {}
  BY <1>3
<1>8. ASSUME e \in given PROVE Expected = IF q = [watt |-> {}, r |-> {}, t |-> {}] THEN {} ELSE {q}
  BY <1>8, MeantSomething DEF Expected, FrameInv, Given
<1> HIDE DEF e, d, m, n
<1>9. CASE e \in given /\ d \in given
  <2>1. DecodeInstantPower(w) = [ok |-> TRUE, watt |-> m]
    BY <1>2, <1>4, <1>9, PowerInverts DEF e
  <2>2. DecodeCurrent(x) = [ok |-> TRUE, r |-> n.r, t |-> n.t]
    BY <1>3, <1>4, <1>9, CurrentInverts DEF d
  <2>3. ToPower = {[watt |-> m, r |-> n.r, t |-> n.t]}
    BY <1>6, <1>7, <2>1, <2>2 DEF ToPower, e, d
  <2>4. c = n
    BY <1>9 DEF Given, n
  <2>5. X = IF m \cup n.r \cup n.t # {} THEN {q} ELSE {}
    BY <2>3, <2>4 DEF HasData
  <2>6. q = [watt |-> {}, r |-> {}, t |-> {}] <=> m = {} /\ n.r = {} /\ n.t = {}
    BY <2>4
  <2> QED  BY <1>8, <1>9, <2>5, <2>6
<1>10. CASE ~(e \in given /\ d \in given)
  <2>1. ToPower = {}
    BY <1>2, <1>3, <1>6, <1>7, <1>10, NoValue DEF ToPower, e, d
  <2> QED  BY <1>5, <1>10, <2>1
<1> QED  BY <1>9, <1>10

LEMMA MetaKept ==
  ASSUME FrameInv, job = "meta"
  PROVE  ToMeta = Expected
<1> DEFINE e == EPC.Coefficient
           d == EPC.Unit
           m == meant[e]
           n == meant[d]
           coef == {y \in EDT(data, e) : Len(y) = 4}
           unit == {y \in EDT(data, d) : Len(y) = 1}
<1>1. Requested[job] = <<e, d>>
  BY DEF Requested
<1>2. PICK w : /\ EDT(data, e) = {w}
               /\ IF e \in given THEN w \in Wires(e, m) ELSE w = <<>>
  BY <1>1, TwoRequested
<1>3. PICK x : /\ EDT(data, d) = {x}
               /\ IF d \in given THEN x \in Wires(d, n) ELSE x = <<>>
  BY <1>1, TwoRequested
<1>4. m \in Coefs /\ n \in Options(Units)
  BY <1>1, TwoRequested, MeasuredOf
<1>5. Expected = {[coef |-> Given(e, One), unit |-> Given(d, {})]}
  BY MeantSomething DEF Expected, FrameInv
<1>6. ToMeta = {[coef |-> IF coef = {} THEN One ELSE The(coef),
               unit |-> UNION {UnitKwh(y[1]) : y \in unit}]}
  BY DEF ToMeta
<1> HIDE DEF e, d, m, n
<1>7. (IF coef = {} THEN One ELSE The(coef)) = Given(e, One)
  <2>1. CASE e \in given
    <3>1. Len(w) = 4 /\ w = m
      BY <1>2, <1>4, <2>1, CoefficientBytes DEF e
    <3>2. coef = {m}
      BY <1>2, <3>1
    <3> QED  BY <2>1, <3>2 DEF The, Given, m
  <2>2. CASE e \notin given
    <3>1. coef = {}
      BY <1>2, <2>2
    <3> QED  BY <2>2, <3>1 DEF Given
  <2> QED  BY <2>1, <2>2
<1>8. UNION {UnitKwh(y[1]) : y \in unit} = Given(d, {})
  <2>1. CASE d \in given
    <3>1. Len(x) = 1 /\ UnitKwh(x[1]) = n
      BY <1>3, <1>4, <2>1, UnitInverts DEF d
    <3>2. unit = {x}
      BY <1>3, <3>1
    <3> QED  BY <2>1, <3>1, <3>2 DEF Given, n
  <2>2. CASE d \notin given
    <3>1. unit = {}
      BY <1>3, <2>2
    <3> QED  BY <2>2, <3>1 DEF Given
  <2> QED  BY <2>1, <2>2
<1> HIDE DEF coef, unit
<1> QED  BY <1>5, <1>6, <1>7, <1>8

-----------------------------------------------------------------------------
(* The states of an answer on its way: what is on the line is the meter's  *)
(* answer, damaged or not; what reaches a frame is whole; nothing is       *)
(* stored before the job is done, and then only what was expected.         *)
Underway == stage \in {"line", "payload", "frame"}

PathInv ==
  /\ job \in Jobs /\ params \in Params
  /\ stage \in {"sleep", "get", "line", "payload", "frame", "done"}
  /\ given \subseteq ToSet(Requested[job]) /\ damage \in Damages \cup {"lost"}
  /\ Underway => damage \in Damages
  /\ Underway \/ stored # {} => IsMeant(job, meant)
  /\ stage = "line" => \E f \in Sent : data \in Damaged(Encode(f), damage)
  /\ stage = "payload" => \E f \in Sent : Arrived(f)
  /\ stage = "frame" => damage \in {"none", "tail"} /\ data \in Sent
  /\ stage # "done" => stored = {}
  /\ stored \subseteq Expected
  /\ stage = "done" /\ damage \notin {"none", "tail"} => stored = {}
  /\ stage = "done" /\ damage \in {"none", "tail"} /\ Used => stored = Expected

LEMMA PathInit == Init => PathInv
<1> SUFFICES ASSUME Init PROVE PathInv
  OBVIOUS
<1>1. params \in Params
  <2>1. Zero \in Coefs \cup {Zero, One} /\ {} \in {{}} \cup {{u} : u \in Units}
    OBVIOUS
  <2>2. [coef |-> Zero, unit |-> {}] \in Params
    BY <2>1 DEF Params
  <2> QED  BY <2>2 DEF Init
<1>2. stored = {} /\ stored \subseteq Expected
  BY DEF Init
<1> QED  BY <1>1, <1>2 DEF Init, PathInv, Underway, Damages

LEMMA MeterAnswersStep ==
  PathInv /\ TimerInv /\ MeterAnswers => PathInv'
<1> SUFFICES ASSUME PathInv, TimerInv, MeterAnswers PROVE PathInv'
  OBVIOUS
<1>1. /\ job' = job /\ params' = params /\ stored' = stored /\ stage' = "line" /\ stage = "get"
      /\ given' \in SUBSET ToSet(Requested[job]) /\ meant' \in Meanings /\ damage' \in Damages
  BY DEF MeterAnswers
<1>2. job \in Jobs /\ params \in Params /\ stored = {}
  BY <1>1 DEF PathInv
<1>3. job = "energy30" => now \in Int
  BY DEF TimerInv
<1>4. IsMeant(job, meant')
  BY <1>1, <1>2, <1>3, MeaningsMeant
<1>5. \E f \in Sent' : data' \in Damaged(Encode(f), damage')
  <2>1. PICK edts \in Answers(meant', given') :
          data' \in Damaged(Encode(Answer(given', [i \in DOMAIN edts |->
                       [epc |-> Requested[job][i], edt |-> edts[i]]])), damage')
    BY DEF MeterAnswers
  <2> DEFINE f == Answer(given', Listed(edts))
  <2>2. data' \in Damaged(Encode(f), damage')
    BY <2>1 DEF Listed
  <2>3. Answers(meant, given)' = Answers(meant', given')
    BY <1>1 DEF Answers
  <2>4. Answer(given, Listed(edts))' = f
    BY <1>1 DEF Answer, Listed
  <2>5. Sent' = {Answer(given, Listed(x))' : x \in Answers(meant, given)'}
    BY DEF Sent
  <2>6. f \in Sent'
    BY <2>1, <2>3, <2>4, <2>5
  <2> QED  BY <2>2, <2>6
<1>6. stored' \subseteq Expected'
  BY <1>1, <1>2
<1>7. /\ (job \in Jobs /\ params \in Params)'
      /\ (stage \in {"sleep", "get", "line", "payload", "frame", "done"})'
      /\ (given \subseteq ToSet(Requested[job]) /\ damage \in Damages \cup {"lost"})'
      /\ (Underway => damage \in Damages)'
      /\ (Underway \/ stored # {} => IsMeant(job, meant))'
      /\ (stage = "payload" => \E f \in Sent : Arrived(f))'
      /\ (stage = "frame" => damage \in {"none", "tail"} /\ data \in Sent)'
      /\ (stage # "done" => stored = {})'
      /\ (stage = "done" /\ damage \notin {"none", "tail"} => stored = {})'
      /\ (stage = "done" /\ damage \in {"none", "tail"} /\ Used => stored = Expected)'
  BY <1>1, <1>2, <1>4 DEF Underway
<1> QED  BY <1>5, <1>6, <1>7 DEF PathInv

(* An answer on its way, unchanged but for the stage and the data.         *)
LEMMA SameAnswer ==
  ASSUME UNCHANGED <<job, params, meant, given>>
  PROVE  /\ Sent' = Sent /\ Expected' = Expected /\ (Used <=> Used')
BY DEF Sent, Answers, Answer, Listed, Expected, Given, Points, EnergyPoint, Valid, Full, Used

(* The stages after the answer: each takes what it needs of PathInv.       *)
Unstored ==
  /\ job \in Jobs /\ params \in Params
  /\ given \subseteq ToSet(Requested[job]) /\ damage \in Damages \cup {"lost"}
  /\ stored = {}

LEMMA HandleStep == PathInv /\ HandleERXUDP => PathInv'
<1> SUFFICES ASSUME PathInv, HandleERXUDP PROVE PathInv'
  OBVIOUS
<1>1. /\ stage = "line" /\ UNCHANGED <<job, params, meant, given, damage, stored>>
      /\ \/ Acceptable(data) /\ stage' = "payload" /\ data' = data.payload
         \/ ~Acceptable(data) /\ stage' = "done"
  BY DEF HandleERXUDP
<1>2. Unstored /\ IsMeant(job, meant) /\ damage \in Damages
  BY <1>1 DEF PathInv, Underway, Unstored
<1>3. PICK f \in Sent : data \in Damaged(Encode(f), damage)
  BY <1>1 DEF PathInv
<1>4. f \in Frames
  BY <1>2, SentAreFrames DEF Unstored
<1>5. Sent' = Sent /\ Expected' = Expected /\ (Used <=> Used')
  BY <1>1, SameAnswer
<1>6. CASE Acceptable(data) /\ stage' = "payload" /\ data' = data.payload
  <2>1. Arrived(f)'
    BY <1>1, <1>2, <1>3, <1>4, <1>6, LineRead DEF Arrived
  <2> QED  BY <1>1, <1>2, <1>3, <1>5, <1>6, <2>1 DEF PathInv, Unstored, Underway
<1>7. CASE ~Acceptable(data) /\ stage' = "done"
  <2>1. damage \notin {"none", "tail"}
    BY <1>2, <1>3, <1>4, <1>7, LineRead
  <2> QED  BY <1>1, <1>2, <1>5, <1>7, <2>1 DEF PathInv, Unstored, Underway
<1> QED  BY <1>1, <1>6, <1>7

(* A full answer passes Run, dispatch and Get for every job, a partial one *)
(* for those that call getPartial.                                         *)
LEMMA UsedAccepted ==
  ASSUME job \in Jobs, IsMeant(job, meant), NEW f \in Sent, Used
  PROVE  Accepts(f)
<1>1. f.esv = IF Full THEN ESV.GetRes ELSE ESV.GetSNA
  BY SentHolds DEF Full
<1>2. f.props # <<>>
  BY SentAreFrames
<1> QED  BY <1>1, <1>2 DEF Accepts, IsResponse, ESV, Used

LEMMA DispatchStep == PathInv /\ Dispatch => PathInv'
<1> SUFFICES ASSUME PathInv, Dispatch PROVE PathInv'
  OBVIOUS
<1> DEFINE d == Decode(data)
<1>1. /\ stage = "payload" /\ UNCHANGED <<job, params, meant, given, damage, stored>>
      /\ \/ d.ok /\ Accepts(d.frame) /\ stage' = "frame" /\ data' = d.frame
         \/ ~(d.ok /\ Accepts(d.frame)) /\ stage' = "done"
  BY DEF Dispatch
<1>2. Unstored /\ IsMeant(job, meant) /\ damage \in Damages
  BY <1>1 DEF PathInv, Underway, Unstored
<1>3. PICK f \in Sent : Arrived(f)
  BY <1>1 DEF PathInv
<1>4. f \in Frames
  BY <1>2, SentAreFrames DEF Unstored
<1>5. Sent' = Sent /\ Expected' = Expected /\ (Used <=> Used')
  BY <1>1, SameAnswer
<1>6. IF damage \in {"none", "tail"} THEN d = [ok |-> TRUE, frame |-> f] ELSE d = Error
  BY <1>3, <1>4, ArrivedDecoded
<1> HIDE DEF d
<1>7. d.ok <=> damage \in {"none", "tail"}
  <2>1. ~Error.ok
    BY DEF Error
  <2>2. [ok |-> TRUE, frame |-> f].ok
    OBVIOUS
  <2> QED  BY <1>6, <2>1, <2>2, Zenon
<1>8. damage \in {"none", "tail"} => d.frame = f
  BY <1>6
<1>9. CASE d.ok /\ Accepts(d.frame) /\ stage' = "frame" /\ data' = d.frame
  BY <1>1, <1>2, <1>3, <1>5, <1>7, <1>8, <1>9 DEF PathInv, Unstored, Underway
<1>10. CASE ~(d.ok /\ Accepts(d.frame)) /\ stage' = "done"
  <2>1. ~(damage \in {"none", "tail"} /\ Used)
    BY <1>2, <1>3, <1>7, <1>8, <1>10, UsedAccepted DEF Unstored
  <2> QED  BY <1>1, <1>2, <1>5, <1>10, <2>1 DEF PathInv, Unstored, Underway
<1> QED  BY <1>1, <1>9, <1>10

LEMMA StoreStep == PathInv /\ Store => PathInv'
<1> SUFFICES ASSUME PathInv, Store PROVE PathInv'
  OBVIOUS
<1>1. /\ stage = "frame" /\ stage' = "done" /\ UNCHANGED <<job, params, meant, given, damage>>
  BY DEF Store, answer
<1>2. Unstored /\ FrameInv /\ damage \in {"none", "tail"}
  BY <1>1 DEF PathInv, Underway, Unstored, FrameInv
<1>3. Expected' = Expected /\ (Used <=> Used')
  BY <1>1, SameAnswer
<1>4. stored' \subseteq Expected /\ (Used => stored' = Expected)
  <2>1. CASE job = "power" /\ stored' = {p \in ToPower : HasData(p)}
    BY <1>2, <2>1, PowerStored DEF Used
  <2>2. CASE job = "energy" /\ stored' = ToEnergyTotal
    BY <1>2, <2>2, EnergyStored
  <2>3. CASE job = "min1" /\ stored' = ToEnergy1Min
    BY <1>2, <2>3, MinuteStored
  <2>4. CASE job = "energy30" /\ stored' = ToEnergy30
    BY <1>2, <2>4, HalfHourStored
  <2>5. CASE job = "status" /\ stored' = ToStatus
    BY <1>2, <2>5, StatusStored
  <2>6. CASE job = "meta" /\ stored' = ToMeta
    BY <1>2, <2>6, MetaKept
  <2>7. CASE job = "map" /\ stored' = ToMap
    BY <1>2, <2>7, MapKept
  <2> QED  BY <2>1, <2>2, <2>3, <2>4, <2>5, <2>6, <2>7 DEF Store
<1> QED  BY <1>1, <1>2, <1>3, <1>4 DEF PathInv, Unstored, Underway

LEMMA PathStep == PathInv /\ TimerInv /\ [Next]_vars => PathInv'
<1> SUFFICES ASSUME PathInv, TimerInv, [Next]_vars PROVE PathInv'
  OBVIOUS
<1>1. CASE Tick \/ Fire
  <2>1. /\ UNCHANGED <<job, params, meant, given, damage, data, stored>>
        /\ stage' = stage \/ (stage = "sleep" /\ stage' = "get")
    BY <1>1 DEF Tick, Fire, answer
  <2>2. Sent' = Sent /\ Expected' = Expected /\ (Used <=> Used')
    BY <2>1, SameAnswer
  <2>3. stage \in {"line", "payload", "frame", "done"} => stage' = stage
    BY <2>1
  <2> QED  BY <2>1, <2>2, <2>3 DEF PathInv, Underway, Arrived
<1>2. CASE Sleep
  <2>1. /\ stage' = "sleep" /\ UNCHANGED <<job, params>> /\ meant' = <<>> /\ given' = {}
        /\ damage' = "none" /\ stored' = {}
    BY <1>2 DEF Sleep
  <2>2. (stored \subseteq Expected)'
    BY <2>1
  <2> QED  BY <2>1, <2>2 DEF PathInv, Underway, Damages
<1>3. CASE MeterAnswers
  BY <1>3, MeterAnswersStep
<1>4. CASE NoAnswer
  <2>1. /\ stage = "get" /\ stage' = "done" /\ damage' = "lost"
        /\ UNCHANGED <<job, params, meant, given, stored>>
    BY <1>4 DEF NoAnswer
  <2>2. stored' = {} /\ (stored \subseteq Expected)'
    BY <2>1 DEF PathInv
  <2> QED  BY <2>1, <2>2 DEF PathInv, Underway
<1>5. CASE HandleERXUDP
  BY <1>5, HandleStep
<1>6. CASE Dispatch
  BY <1>6, DispatchStep
<1>7. CASE Store
  BY <1>7, StoreStep
<1>8. CASE UNCHANGED vars
  <2>1. UNCHANGED <<job, params, stage, meant, given, damage, data, stored>>
    BY <1>8 DEF vars, answer
  <2>2. Sent' = Sent /\ Expected' = Expected /\ (Used <=> Used')
    BY <2>1, SameAnswer
  <2> QED  BY <2>1, <2>2 DEF PathInv, Underway, Arrived
<1> QED  BY <1>1, <1>2, <1>3, <1>4, <1>5, <1>6, <1>7, <1>8 DEF Next

LEMMA AlwaysPathInv == Spec => [](PathInv /\ TimerInv)
BY PathInit, PathStep, TimerInit, TimerStep, PTL DEF Spec

(* Of a line or a frame that is cut, malformed or not for us nothing is    *)
(* written, whatever the values and wherever the cut.                      *)
THEOREM NothingOfADamagedAnswer == Spec => []DamagedDropped
<1>1. PathInv => DamagedDropped
  BY DEF PathInv, DamagedDropped
<1> QED  BY <1>1, AlwaysPathInv, PTL

(* What a job writes is what the meter meant: sign, no-data codes, time,   *)
(* factors and property map included, whatever part of it was given.       *)
THEOREM OnlyMeasuredIsStored == Spec => []StoredIsMeasured
<1>1. PathInv => StoredIsMeasured
  BY DEF PathInv, StoredIsMeasured
<1> QED  BY <1>1, AlwaysPathInv, PTL

(* An answer in full is written in full, with other bytes after it or not. *)
THEOREM FullAnswersReachStorage == Spec => []FullAnswerStored
<1>1. PathInv => FullAnswerStored
  BY DEF PathInv, FullAnswerStored, Full, Used
<1> QED  BY <1>1, AlwaysPathInv, PTL

(* There is one point at most to expect of an answer.                      *)
LEMMA OnePoint ==
  ASSUME NEW time, NEW raw, raw = {} \/ \E r : raw = {r}
  PROVE  Points(time, raw) = {} \/ \E x : Points(time, raw) = {x}
BY DEF Points

LEMMA OneExpected ==
  ASSUME job \in Jobs, IsMeant(job, meant), given \subseteq ToSet(Requested[job])
  PROVE  /\ Expected = {} \/ \E x : Expected = {x}
         /\ job = "map" => \A codes \in Expected : codes \subseteq 128..255
<1>1. meant # <<>>
  BY MeantSomething
<1>2. job \in {"power", "energy", "min1", "energy30", "status", "map", "meta"}
  BY DEF Jobs, Requested
<1>3. ASSUME NEW e, Requested[job] = <<e>>
      PROVE  meant[e] \in Measured(e) /\ given \in {{}, {e}}
  BY <1>3 DEF IsMeant, ToSet
<1>4. ASSUME NEW raw \in Options(Raws) PROVE raw = {} \/ \E r : raw = {r}
  BY DEF Options
<1>5. CASE job = "power"
  BY <1>1, <1>5 DEF Expected
<1>6. CASE job = "meta"
  BY <1>1, <1>6 DEF Expected
<1>7. CASE job = "energy"
  <2>1. Requested[job] = <<EPC.Fwd>>
    BY <1>7 DEF Requested
  <2>2. meant[EPC.Fwd] \in Options(Raws)
    BY <1>3, <2>1, MeasuredOf
  <2>3. Given(EPC.Fwd, {}) = {} \/ \E r : Given(EPC.Fwd, {}) = {r}
    BY <1>4, <2>2 DEF Given
  <2>4. Expected = Points(<<>>, Given(EPC.Fwd, {}))
    BY <1>1, <1>7 DEF Expected
  <2> QED  BY <1>7, <2>3, <2>4, OnePoint
<1>8. CASE job = "min1"
  <2> DEFINE m == meant[EPC.Min1]
  <2>1. Requested[job] = <<EPC.Min1>>
    BY <1>8 DEF Requested
  <2>2. m.fwd \in Options(Raws)
    <3>1. m \in Measured(EPC.Min1)
      BY <1>3, <2>1
    <3>2. m \in [time : Time, fwd : Options(Raws), rev : Options(Raws)]
      BY <3>1, MeasuredOf
    <3> QED  BY <3>2
  <2>3. Expected = IF given = {} THEN {} ELSE Points(m.time, m.fwd)
    BY <1>1, <1>8 DEF Expected
  <2> HIDE DEF m
  <2>4. Points(m.time, m.fwd) = {} \/ \E x : Points(m.time, m.fwd) = {x}
    BY <1>4, <2>2, OnePoint
  <2> QED  BY <1>8, <2>3, <2>4
<1>9. CASE job = "energy30"
  <2> DEFINE m == meant[EPC.Scheduled]
  <2>1. Requested[job] = <<EPC.Scheduled>>
    BY <1>9 DEF Requested
  <2>2. m.raw \in Options(Raws)
    <3>1. m \in Measured(EPC.Scheduled)
      BY <1>3, <2>1
    <3>2. m \in [time : Time, raw : Options(Raws)]
      BY <3>1, MeasuredOf
    <3> QED  BY <3>2
  <2>3. Expected = IF given = {} THEN {} ELSE Points(m.time, m.raw)
    BY <1>1, <1>9 DEF Expected
  <2> HIDE DEF m
  <2>4. Points(m.time, m.raw) = {} \/ \E x : Points(m.time, m.raw) = {x}
    BY <1>4, <2>2, OnePoint
  <2> QED  BY <1>9, <2>3, <2>4
<1>10. CASE job = "status"
  <2>1. Requested[job] = <<EPC.Fault>>
    BY <1>10 DEF Requested
  <2>2. Expected = {meant[x] : x \in given}
    BY <1>1, <1>10 DEF Expected
  <2> QED  BY <1>3, <1>10, <2>1, <2>2
<1>11. CASE job = "map"
  <2>1. Requested[job] = <<EPC.Map>>
    BY <1>11 DEF Requested
  <2>2. Expected = {meant[x] : x \in given}
    BY <1>1, <1>11 DEF Expected
  <2>3. meant[EPC.Map] \in Measured(EPC.Map)
    BY <1>3, <2>1
  <2>4. meant[EPC.Map] \in SUBSET (128..255)
    BY <2>3, MeasuredOf
  <2> QED  BY <1>3, <1>11, <2>1, <2>2, <2>4
<1> QED  BY <1>2, <1>5, <1>6, <1>7, <1>8, <1>9, <1>10, <1>11

(* The clock ends at its bound, and the half hours with it.                *)
ClockInv ==
  /\ now \in 0..MaxTime /\ last \in (-1)..HalfHour(MaxTime)

LEMMA ClockInit == Init => ClockInv
<1> SUFFICES ASSUME Init PROVE ClockInv
  OBVIOUS
<1>1. MaxTime \in Nat /\ MaxTime >= 59
  BY ReadingAssumption, SMT
<1>2. now \in 0..59 /\ last = -1
  BY DEF Init
<1> QED  BY <1>1, <1>2 DEF ClockInv, HalfHour

LEMMA ClockStep == ClockInv /\ [Next]_vars => ClockInv'
<1> SUFFICES ASSUME ClockInv, [Next]_vars PROVE ClockInv'
  OBVIOUS
<1>1. MaxTime \in Nat
  BY ReadingAssumption, SMT
<1>2. CASE Tick
  BY <1>1, <1>2 DEF Tick, ClockInv
<1>3. CASE Fire
  <2>1. now' = now /\ last' \in {last, HalfHour(now)}
    BY <1>3 DEF Fire, clock
  <2>2. HalfHour(now) \in 0..HalfHour(MaxTime)
    BY <1>1 DEF ClockInv, HalfHour
  <2> QED  BY <1>1, <2>1, <2>2 DEF ClockInv, HalfHour
<1>4. CASE UNCHANGED <<now, last>>
  BY <1>4 DEF ClockInv
<1> QED  BY <1>2, <1>3, <1>4 DEF Next, Sleep, MeterAnswers, NoAnswer, HandleERXUDP, Dispatch,
                                Store, vars, clock

(* getPartial's promise (PartialAnswerUsed) is kept by every job but the   *)
(* power job, which loses what a partial answer holds.                     *)
THEOREM OnlyPowerLosesPartialAnswers == Spec => [](job # "power" => PartialAnswerUsed)
<1>1. PathInv => (job # "power" => PartialAnswerUsed)
  BY DEF PathInv, PartialAnswerUsed, Used
<1> QED  BY <1>1, AlwaysPathInv, PTL

(* Types, and one point at most for each answer.                           *)
THEOREM TypeCorrect == Spec => []TypeOK
<1>1. PathInv /\ TimerInv /\ ClockInv => TypeOK
  <2> SUFFICES ASSUME PathInv, TimerInv, ClockInv PROVE TypeOK
    OBVIOUS
  <2>1. job = "energy30" => mark % 60 \in {5, 35}
    BY DEF TimerInv
  <2>2. stored = {} \/ \E x : stored = {x}
    BY OneExpected DEF PathInv
  <2>3. Cardinality(stored) <= 1
    <3>1. CASE stored = {}
      BY <3>1, FS_EmptySet
    <3>2. ASSUME NEW x, stored = {x} PROVE Cardinality(stored) <= 1
      <4>1. Cardinality({x}) = 1
        BY FS_Singleton, Zenon
      <4> QED  BY <3>2, <4>1
    <3> QED  BY <2>2, <3>1, <3>2
  <2>4. job = "map" => \A codes \in stored : codes \subseteq 128..255
    <3>1. CASE stored = {}
      BY <3>1
    <3>2. CASE stored # {}
      BY <3>2, OneExpected DEF PathInv
    <3> QED  BY <3>1, <3>2
  <2> QED  BY <2>1, <2>3, <2>4 DEF TypeOK, PathInv, ClockInv
<1> QED  BY <1>1, AlwaysPathInv, ClockInit, ClockStep, PTL DEF Spec
=============================================================================
