-------------------------- MODULE CollectorProofs --------------------------
(***************************************************************************)
(* What is proved of the collector: for every set of coefficients, units   *)
(* and properties a meter may have, every buffer and any number of timers. *)
(***************************************************************************)
EXTENDS Collector, SequenceTheorems, FiniteSetTheorems, TLAPS

(* The factors in use are NoParams or were read from this meter: their     *)
(* unit is the meter's or none at all.                                     *)
FromMeter(p) == p.unit \in {NoUnit, unit}
FactorsFromMeter == FromMeter(params) /\ \A j \in Jobs : FromMeter(loaded[j])

(* A job on its way to the storage with an energy holds valid factors.     *)
WritesEnergy(j) ==
  \/ j = "energy" /\ pc[j] \in {"write", "writeTotal", "writeMin1"}
  \/ j = "energy30" /\ pc[j] \in {"write", "writeTotal", "writeMin1"}
  \/ j = "inf" /\ pc[j] = "write" /\ Head(props) = "scheduled"
WritersValid == \A j \in Jobs : WritesEnergy(j) => Valid(loaded[j])

(* A run of the minute job loads its factors once.                         *)
MinuteOfThisRun == minute \subseteq {loaded["energy"]}

(* A notification is handled only while there is one in hand.              *)
INFInHand == pc["inf"] = "write" => props # <<>>

CollectorInv ==
  /\ Types /\ FactorsFromMeter /\ WritersValid /\ MinuteOfThisRun /\ INFInHand
  /\ UnitNeverWrong

-----------------------------------------------------------------------------
(* Where a step leaves the factors, the notifications and the history      *)
(* alone, and no job comes to a write, only the types of what it changes   *)
(* are left to prove.                                                      *)
LEMMA NoWriterAdded ==
  ASSUME CollectorInv, Types',
         UNCHANGED <<params, loaded, props, coef, unit, history>>,
         \A j \in Jobs : pc'[j] \in {"write", "writeTotal", "writeMin1"} => pc'[j] = pc[j]
  PROVE  CollectorInv'
BY DEF CollectorInv, FactorsFromMeter, FromMeter, WritersValid, WritesEnergy, Valid,
       MinuteOfThisRun, INFInHand, UnitNeverWrong, history, Jobs

LEMMA CollectorInit == Init => CollectorInv
<1> SUFFICES ASSUME Init PROVE CollectorInv
  OBVIOUS
<1>1. Types
  <2>1. params \in Params /\ loaded \in [Jobs -> Params] /\ pc \in [Jobs -> Labels]
    BY DEF Init, Params, NoParams, Labels
  <2>2. infCh \in Seq(Notifications) /\ Len(infCh) <= InfBuffer
    BY CollectorAssumption, EmptySeq DEF Init
  <2>3. props \in Seq({"scheduled", "status"}) /\ runs \in 0..MaxRuns
    BY CollectorAssumption, EmptySeq DEF Init
  <2> QED  BY <2>1, <2>2, <2>3 DEF Init, Types
<1>2. FactorsFromMeter /\ WritersValid /\ MinuteOfThisRun /\ INFInHand /\ UnitNeverWrong
  BY DEF Init, FactorsFromMeter, FromMeter, WritersValid, WritesEnergy, MinuteOfThisRun,
         INFInHand, UnitNeverWrong, NoParams, Jobs
<1> QED  BY <1>1, <1>2 DEF CollectorInv

(* Run. *)
LEMMA RunStep ==
  ASSUME CollectorInv, FetchPropertyMap \/ StartJobs \/ RunReturns PROVE CollectorInv'
<1> USE DEF CollectorInv
<1>1. CASE FetchPropertyMap
  <2>1. Types'
    BY <1>1 DEF FetchPropertyMap, Types, Goto, Labels, Jobs, meter, history
  <2> QED  BY <1>1, <2>1, NoWriterAdded DEF FetchPropertyMap, Goto, Types, Jobs, meter
<1>2. CASE StartJobs
  <2>1. Types'
    BY <1>2 DEF StartJobs, Types, Labels, Jobs, meter, history
  <2> QED  BY <1>2, <2>1, NoWriterAdded DEF StartJobs, Jobs, meter
<1>3. CASE RunReturns
  <2>1. Types'
    BY <1>3 DEF RunReturns, Types, meter, history
  <2> QED  BY <1>3, <2>1, NoWriterAdded DEF RunReturns, meter
<1> QED  BY <1>1, <1>2, <1>3

(* The timers, and the ends of a job that changes nothing. *)
LEMMA QuietJobStep ==
  ASSUME CollectorInv, NEW j \in Jobs, JobStops(j) \/ NothingToWrite(j) PROVE CollectorInv'
<1> USE DEF CollectorInv
<1>1. Types'
  BY DEF JobStops, NothingToWrite, AfterTotal, Goto, Types, Labels, Jobs, meter, history
<1>2. \A i \in Jobs : pc'[i] \in {"write", "writeTotal", "writeMin1"} => pc'[i] = pc[i]
  BY DEF JobStops, NothingToWrite, AfterTotal, Goto, Types
<1> QED  BY <1>1, <1>2, NoWriterAdded DEF JobStops, NothingToWrite, meter

LEMMA TimerStep ==
  ASSUME CollectorInv, NEW j \in Jobs, TimerFires(j) PROVE CollectorInv'
<1> USE DEF CollectorInv, TimerFires, meter
<1>0. /\ pc' = [pc EXCEPT ![j] = FirstStep(j)] /\ FirstStep(j) \in {"get", "getTotal", "getMin1"}
      /\ pc \in [Jobs -> Labels] /\ loaded \in [Jobs -> Params] /\ j # "inf"
  BY DEF Goto, FirstStep, Types
<1>1. CASE j = "energy"
  <2>1. loaded' = [loaded EXCEPT ![j] = params] /\ minute' = {}
    BY <1>1
  <2>2. Types'
    BY <1>0, <2>1, CollectorAssumption DEF Types, Labels
  <2>3. FactorsFromMeter' /\ WritersValid' /\ MinuteOfThisRun' /\ INFInHand' /\ UnitNeverWrong'
    BY <1>0, <1>1, <2>1 DEF FactorsFromMeter, FromMeter, WritersValid, WritesEnergy, Valid,
       MinuteOfThisRun, INFInHand, UnitNeverWrong, Jobs
  <2> QED  BY <2>2, <2>3
<1>2. CASE j # "energy"
  <2>1. UNCHANGED <<loaded, history>>
    BY <1>2 DEF history
  <2>2. Types'
    BY <1>0, <2>1, CollectorAssumption DEF Types, Labels, history
  <2> QED  BY <1>0, <2>1, <2>2, NoWriterAdded
<1> QED  BY <1>1, <1>2

(* A value that counts; the conversions. *)
LEMMA GotValueStep ==
  ASSUME CollectorInv, NEW j \in Jobs, GotValue(j) PROVE CollectorInv'
<1> USE DEF CollectorInv, GotValue, Goto, meter, history
<1>1. Types'
  BY DEF Types, Labels
<1>2. FactorsFromMeter' /\ WritersValid' /\ MinuteOfThisRun' /\ INFInHand' /\ UnitNeverWrong'
  BY DEF Types, FactorsFromMeter, FromMeter, WritersValid, WritesEnergy, Valid,
         MinuteOfThisRun, INFInHand, UnitNeverWrong, Jobs
<1> QED  BY <1>1, <1>2

LEMMA GotEnergyStep ==
  ASSUME CollectorInv, GotMinute \/ GotScheduled PROVE CollectorInv'
<1> USE DEF CollectorInv, Goto, meter, history
<1>1. CASE GotMinute
  <2>1. Types'
    BY <1>1 DEF GotMinute, Types, Labels
  <2>2. FactorsFromMeter' /\ WritersValid' /\ MinuteOfThisRun' /\ INFInHand' /\ UnitNeverWrong'
    BY <1>1 DEF GotMinute, Types, FactorsFromMeter, FromMeter, WritersValid, WritesEnergy,
         Valid, MinuteOfThisRun, INFInHand, UnitNeverWrong, Jobs
  <2> QED  BY <2>1, <2>2
<1>2. CASE GotScheduled
  <2>1. Types'
    BY <1>2 DEF GotScheduled, Types, Labels
  <2>2. FactorsFromMeter' /\ WritersValid' /\ MinuteOfThisRun' /\ INFInHand' /\ UnitNeverWrong'
    BY <1>2 DEF GotScheduled, Types, FactorsFromMeter, FromMeter, WritersValid, WritesEnergy,
         Valid, MinuteOfThisRun, INFInHand, UnitNeverWrong, Jobs
  <2> QED  BY <2>1, <2>2
<1> QED  BY <1>1, <1>2

LEMMA GotMetaStep == ASSUME CollectorInv, GotMeta PROVE CollectorInv'
<1> USE DEF CollectorInv, Goto, meter, history
<1>1. PICK hasCoef \in (IF coef = 0 THEN {FALSE} ELSE BOOLEAN), hasUnit \in BOOLEAN :
        params' = ToParams(hasCoef, hasUnit)
  BY DEF GotMeta
<1>2. params' \in Params /\ FromMeter(params')
  BY <1>1 DEF ToParams, Params, FromMeter, Types
<1>3. Types'
  BY <1>2 DEF GotMeta, Types, Labels
<1>4. FactorsFromMeter' /\ WritersValid' /\ MinuteOfThisRun' /\ INFInHand' /\ UnitNeverWrong'
  BY <1>2 DEF GotMeta, Types, FactorsFromMeter, FromMeter, WritersValid, WritesEnergy,
       Valid, MinuteOfThisRun, INFInHand, UnitNeverWrong, Jobs
<1> QED  BY <1>3, <1>4

(* Writes. What reaches the storage as an energy carries the factors the   *)
(* job holds: valid ones, so the unit is the meter's.                      *)
LEMMA StoreKeeps ==
  ASSUME CollectorInv, NEW j \in Jobs, NEW isMinute, isMinute <=> j = "energy",
         NEW isEnergy, isEnergy => WritesEnergy(j), isMinute => isEnergy,
         Store(j, isEnergy, isMinute), UNCHANGED <<loaded, unit>>
  PROVE  /\ UnitNeverWrong' /\ MinuteOfThisRun'
         /\ energy' \subseteq Params /\ minute' \subseteq energy'
<1>1. CASE UNCHANGED history
  BY <1>1 DEF CollectorInv, Types, UnitNeverWrong, MinuteOfThisRun, history
<1>2. CASE isEnergy /\ energy' = energy \cup {loaded[j]}
           /\ minute' = IF isMinute THEN minute \cup {loaded[j]} ELSE minute
  <2>1. loaded[j].unit = unit /\ loaded[j] \in Params
    BY <1>2 DEF CollectorInv, Types, WritersValid, Valid, FactorsFromMeter, FromMeter
  <2> QED
    BY <1>2, <2>1 DEF CollectorInv, Types, UnitNeverWrong, MinuteOfThisRun
<1> QED  BY <1>1, <1>2 DEF Store

LEMMA WriteStep ==
  ASSUME CollectorInv, NEW j \in Jobs, WriteReturns(j) PROVE CollectorInv'
<1> USE DEF CollectorInv, meter
<1>0. /\ j # "inf" /\ pc[j] \in {"write", "writeTotal", "writeMin1"}
      /\ UNCHANGED <<run, supports, params, loaded, infCh, props, cancelled, meter, runs>>
      /\ \E l \in {"idle", "getMin1"} : pc' = [pc EXCEPT ![j] = l]
  BY DEF WriteReturns, Goto, AfterTotal
<1>1. Store(j, j \in {"energy", "energy30"}, j = "energy")
  BY DEF WriteReturns
<1>2. j \in {"energy", "energy30"} => WritesEnergy(j)
  BY <1>0 DEF WritesEnergy
<1>3. /\ UnitNeverWrong' /\ MinuteOfThisRun'
      /\ energy' \subseteq Params /\ minute' \subseteq energy'
  BY <1>0, <1>1, <1>2, StoreKeeps
<1>4. Types'
  BY <1>0, <1>3 DEF Types, Labels
<1>5. FactorsFromMeter' /\ WritersValid' /\ INFInHand'
  BY <1>0 DEF Types, FactorsFromMeter, FromMeter, WritersValid, WritesEnergy, Valid, INFInHand
<1> QED  BY <1>3, <1>4, <1>5

(* Notifications. *)
LEMMA TakeSkipStep ==
  ASSUME CollectorInv, TakeINF \/ SkipINF \/ INFDone PROVE CollectorInv'
<1> USE DEF CollectorInv, Goto, meter, history
<1>1. CASE TakeINF
  <2>1. infCh' \in Seq(Notifications) /\ Len(infCh') <= InfBuffer /\ props' \in Notifications
    <3>1. infCh \in Seq(Notifications) /\ infCh # <<>> /\ Len(infCh) <= InfBuffer
      BY <1>1 DEF TakeINF, Types
    <3>2. /\ Head(infCh) \in Notifications /\ Tail(infCh) \in Seq(Notifications)
          /\ Len(Tail(infCh)) <= InfBuffer
      BY <3>1, CollectorAssumption, HeadTailProperties
    <3> QED  BY <1>1, <3>2 DEF TakeINF
  <2>2. props' \in Seq({"scheduled", "status"})
    <3>1. \A x, y \in {"scheduled", "status"} :
            <<x>> \in Seq({"scheduled", "status"}) /\ <<x, y>> \in Seq({"scheduled", "status"})
      OBVIOUS
    <3> QED  BY <2>1, <3>1 DEF Notifications
  <2>4. Types'
    BY <1>1, <2>1, <2>2 DEF TakeINF, Types, Labels
  <2>3. FactorsFromMeter' /\ WritersValid' /\ MinuteOfThisRun' /\ INFInHand' /\ UnitNeverWrong'
    BY <1>1 DEF TakeINF, Types, FactorsFromMeter, FromMeter, WritersValid, WritesEnergy,
         Valid, MinuteOfThisRun, INFInHand, UnitNeverWrong, Jobs
  <2> QED  BY <2>3, <2>4
<1>2. CASE SkipINF
  <2>1. props' \in Seq({"scheduled", "status"})
    BY <1>2, HeadTailProperties DEF SkipINF, Types
  <2>2. Types'
    BY <1>2, <2>1 DEF SkipINF, Types
  <2>3. FactorsFromMeter' /\ WritersValid' /\ MinuteOfThisRun' /\ INFInHand' /\ UnitNeverWrong'
    BY <1>2 DEF SkipINF, Types, FactorsFromMeter, FromMeter, WritersValid, WritesEnergy,
         Valid, MinuteOfThisRun, INFInHand, UnitNeverWrong, Jobs
  <2> QED  BY <2>2, <2>3
<1>3. CASE INFDone
  <2>1. Types'
    BY <1>3 DEF INFDone, Types, Labels
  <2> QED  BY <1>3, <2>1, NoWriterAdded DEF INFDone, Types, Jobs
<1> QED  BY <1>1, <1>2, <1>3

LEMMA HandleStep == ASSUME CollectorInv, HandleINF PROVE CollectorInv'
<1> USE DEF CollectorInv, HandleINF, Goto, meter, history
<1>1. Types'
  BY DEF Types, Labels, Jobs
<1>2. WritersValid'
  BY DEF Types, WritersValid, WritesEnergy, Valid, Jobs
<1>3. FactorsFromMeter' /\ MinuteOfThisRun' /\ INFInHand' /\ UnitNeverWrong'
  BY DEF Types, FactorsFromMeter, FromMeter, MinuteOfThisRun, INFInHand, UnitNeverWrong, Jobs
<1> QED  BY <1>1, <1>2, <1>3

LEMMA WrittenStep == ASSUME CollectorInv, INFWritten PROVE CollectorInv'
<1> USE DEF CollectorInv, meter
<1>0. /\ pc["inf"] = "write" /\ props # <<>> /\ props' = Tail(props)
      /\ pc' = [pc EXCEPT !["inf"] = "handle"]
      /\ UNCHANGED <<run, supports, params, loaded, infCh, cancelled, meter, runs>>
  BY DEF INFWritten, Goto, INFInHand
<1>1. Store("inf", Head(props) = "scheduled", FALSE)
  BY DEF INFWritten
<1>2. Head(props) = "scheduled" => WritesEnergy("inf")
  BY <1>0 DEF WritesEnergy
<1>3. /\ UnitNeverWrong' /\ MinuteOfThisRun'
      /\ energy' \subseteq Params /\ minute' \subseteq energy'
  BY <1>0, <1>1, <1>2, StoreKeeps DEF Jobs
<1>4. props' \in Seq({"scheduled", "status"})
  BY <1>0, HeadTailProperties DEF Types
<1>5. Types'
  BY <1>0, <1>3, <1>4 DEF Types, Labels
<1>6. FactorsFromMeter' /\ WritersValid' /\ INFInHand'
  BY <1>0 DEF Types, FactorsFromMeter, FromMeter, WritersValid, WritesEnergy, Valid,
       INFInHand, Jobs
<1> QED  BY <1>3, <1>5, <1>6

(* The client's receive loop and the signals. *)
LEMMA OutsideStep == ASSUME CollectorInv, Notified \/ Shutdown PROVE CollectorInv'
<1> USE DEF CollectorInv, meter, history
<1>1. CASE Notified
  <2>1. PICK n \in Notifications : infCh' = Append(infCh, n)
    BY <1>1 DEF Notified
  <2>2. infCh' \in Seq(Notifications) /\ Len(infCh') <= InfBuffer
    BY <1>1, <2>1, CollectorAssumption, AppendProperties DEF Notified, Types
  <2>3. Types'
    BY <1>1, <2>2, CollectorAssumption DEF Notified, Types
  <2> QED  BY <1>1, <2>3, NoWriterAdded DEF Notified
<1>2. CASE Shutdown
  <2>1. Types'
    BY <1>2 DEF Shutdown, Types
  <2> QED  BY <1>2, <2>1, NoWriterAdded DEF Shutdown
<1> QED  BY <1>1, <1>2

LEMMA CollectorStep == CollectorInv /\ [Next]_vars => CollectorInv'
<1> SUFFICES ASSUME CollectorInv, [Next]_vars PROVE CollectorInv'
  OBVIOUS
<1>1. CASE UNCHANGED vars
  <2>1. Types'
    BY <1>1 DEF CollectorInv, vars, Types, meter, history
  <2> QED  BY <1>1, <2>1, NoWriterAdded DEF vars, meter
<1>2. CASE Next
  BY <1>2, RunStep, QuietJobStep, TimerStep, GotValueStep, GotEnergyStep, GotMetaStep,
     WriteStep, TakeSkipStep, HandleStep, WrittenStep, OutsideStep
  DEF Next, JobStep, INFStep
<1> QED  BY <1>1, <1>2

-----------------------------------------------------------------------------
(* Type correctness. Before the property map is there no job runs, and     *)
(* what the map calls for does not change once one does.                   *)
NoneBeforeMap == run = "map" => \A j \in Jobs : pc[j] = "none"

JobsInv == NoneBeforeMap /\ OnlySupportedJobs

(* A step that takes one job that runs to another of its steps.            *)
LEMMA JobMoves ==
  ASSUME Types, JobsInv, NEW j \in Jobs, NEW label, Goto(j, label),
         pc[j] # "none", label \in Steps(j) \cup {"none"}, UNCHANGED <<run, supports>>
  PROVE  JobsInv'
BY DEF Types, JobsInv, NoneBeforeMap, OnlySupportedJobs, Goto, Steps, MinuteSteps, Wanted

LEMMA JobsStep ==
  ASSUME Types, JobsInv, [Next]_vars PROVE JobsInv'
<1> USE DEF JobsInv
<1>a. ASSUME UNCHANGED <<run, supports, pc>> PROVE JobsInv'
  BY <1>a DEF NoneBeforeMap, OnlySupportedJobs, Steps, MinuteSteps, Wanted
<1>0. /\ \A j \in Jobs : pc[j] = "none" \/ (j \in Wanted /\ pc[j] \in Steps(j))
      /\ pc \in [Jobs -> Labels]
  BY DEF OnlySupportedJobs, Types
<1>1. CASE FetchPropertyMap
  <2>1. run' # "map" /\ \A j \in Jobs : pc'[j] = "none" \/ (j = "meta" /\ pc'[j] = "get")
    BY <1>1, <1>0 DEF FetchPropertyMap, Goto, NoneBeforeMap
  <2> QED  BY <2>1 DEF NoneBeforeMap, OnlySupportedJobs, Steps, Wanted
<1>2. CASE StartJobs
  <2>1. /\ run' # "map" /\ UNCHANGED supports
        /\ \A j \in Jobs : pc'[j] = "none" \/ (j \in Wanted /\ pc'[j] = "idle")
    BY <1>2 DEF StartJobs
  <2> QED  BY <2>1 DEF NoneBeforeMap, OnlySupportedJobs, Steps, Wanted
<1>3. CASE RunReturns
  BY <1>3 DEF RunReturns, NoneBeforeMap, OnlySupportedJobs, Steps, MinuteSteps, Wanted
(* A timer: the minute job begins with a property of the map.              *)
<1>4. ASSUME NEW j \in Jobs, TimerFires(j) PROVE JobsInv'
  <2>1. j \in Wanted /\ j # "inf" /\ pc[j] # "none"
    BY <1>4, <1>0 DEF TimerFires
  <2>2. FirstStep(j) \in Steps(j)
    BY <2>1 DEF FirstStep, Steps, MinuteSteps, Wanted, Jobs
  <2> QED  BY <1>4, <2>1, <2>2, JobMoves DEF TimerFires
(* A Get that brings nothing, a write that is over: on to the second       *)
(* property only if the map holds it.                                      *)
<1>5. ASSUME NEW j \in Jobs, NothingToWrite(j) \/ WriteReturns(j) PROVE JobsInv'
  <2>1. PICK label \in {"idle", AfterTotal} :
          /\ Goto(j, label) /\ pc[j] # "none" /\ UNCHANGED <<run, supports>>
          /\ label = "idle" \/ pc[j] \in {"getTotal", "writeTotal"}
    BY <1>5 DEF NothingToWrite, WriteReturns
  <2>2. label \in Steps(j)
    BY <2>1, <1>0 DEF AfterTotal, Steps, MinuteSteps
  <2> QED  BY <2>1, <2>2, JobMoves
<1>6. ASSUME NEW j \in Jobs, JobStops(j) PROVE JobsInv'
  BY <1>6, JobMoves DEF JobStops
<1>7. ASSUME NEW j \in Jobs, GotValue(j) PROVE JobsInv'
  <2>1. "write" \in Steps(j)
    BY <1>7 DEF GotValue, Steps
  <2> QED  BY <1>7, <2>1, JobMoves DEF GotValue
<1>8. CASE GotMinute
  <2>1. "energy" \in Jobs /\ pc["energy"] \in Steps("energy")
    BY <1>0, <1>8 DEF GotMinute, Jobs
  <2>2. (IF pc["energy"] = "getTotal" THEN "writeTotal" ELSE "writeMin1") \in Steps("energy")
    BY <1>8, <2>1 DEF GotMinute, Steps, MinuteSteps
  <2> QED  BY <1>8, <2>1, <2>2, JobMoves DEF GotMinute
<1>9. CASE GotScheduled \/ GotMeta
  BY <1>9, JobMoves DEF GotScheduled, GotMeta, Steps, Jobs
<1>10. CASE TakeINF \/ HandleINF \/ INFWritten \/ INFDone
  BY <1>10, JobMoves DEF TakeINF, HandleINF, INFWritten, INFDone, Steps, Jobs
<1>11. CASE SkipINF \/ Notified \/ Shutdown \/ UNCHANGED vars
  BY <1>11, <1>a DEF SkipINF, Notified, Shutdown, vars
<1> QED
  BY <1>1, <1>2, <1>3, <1>4, <1>5, <1>6, <1>7, <1>8, <1>9, <1>10, <1>11
  DEF Next, JobStep, INFStep

(* Every variable of the collector keeps its type: the queue of            *)
(* notifications within its capacity, what the minute job wrote among what *)
(* was ever written. And whatever order timers, refreshes, notifications   *)
(* and errors come in, no job runs or asks for a property that the meter's *)
(* property map does not call for.                                         *)
THEOREM CollectorTypeCorrect == Spec => []TypeOK
<1>1. Init => JobsInv
  BY DEF Init, JobsInv, NoneBeforeMap, OnlySupportedJobs
<1>2. CollectorInv /\ JobsInv /\ [Next]_vars => JobsInv'
  BY JobsStep DEF CollectorInv
<1>3. CollectorInv /\ JobsInv => TypeOK
  BY DEF CollectorInv, JobsInv, TypeOK
<1> QED  BY <1>1, <1>2, <1>3, CollectorInit, CollectorStep, PTL DEF Spec

(* No energy reaches the storage with a unit that is not the meter's,      *)
(* whichever refreshMeta comes between a job's load, its Get and its       *)
(* write, and however many of them fail or bring a part of the factors.    *)
THEOREM CollectorUnitRight == Spec => []UnitNeverWrong
<1>1. CollectorInv => UnitNeverWrong
  BY DEF CollectorInv
<1> QED  BY <1>1, CollectorInit, CollectorStep, PTL DEF Spec

(* The energies of one run of the minute job share their factors.          *)
THEOREM CollectorConvertsAlike == Spec => []MinuteConvertedAlike
<1>1. CollectorInv => MinuteConvertedAlike
  <2> SUFFICES ASSUME CollectorInv PROVE Cardinality(minute) <= 1
    BY DEF MinuteConvertedAlike
  <2>1. minute = {} \/ minute = {loaded["energy"]}
    BY DEF CollectorInv, MinuteOfThisRun
  <2> QED  BY <2>1, FS_EmptySet, FS_Singleton
<1> QED  BY <1>1, CollectorInit, CollectorStep, PTL DEF Spec

-----------------------------------------------------------------------------
(* The coefficient. *)

(* Every answer refreshMeta gets holds the coefficient of a meter that has *)
(* one; it may leave the unit out.                                         *)
CoefficientAnswered ==
  [][GotMeta => \E hasUnit \in BOOLEAN : params' = ToParams(coef # 0, hasUnit)]_vars

MeterCoef == IF coef = 0 THEN 1 ELSE coef
CoefficientRight == \A p \in energy : p.coef = MeterCoef

CoefOfMeter(p) == p.coef \in {0, MeterCoef}
CoefInv ==
  /\ CoefOfMeter(params) /\ \A j \in Jobs : CoefOfMeter(loaded[j])
  /\ CoefficientRight

(* What a step does to the factors and to what was written with them.      *)
LEMMA FactorsFrame ==
  ASSUME CollectorInv, [Next]_vars
  PROVE  /\ UNCHANGED coef
         /\ GotMeta \/ UNCHANGED params
         /\ \A j \in Jobs : loaded'[j] \in {loaded[j], params}
         /\ \/ UNCHANGED energy
            \/ \E j \in Jobs : WritesEnergy(j) /\ energy' = energy \cup {loaded[j]}
<1> USE DEF meter, history
<1>0. loaded \in [Jobs -> Params]
  BY DEF CollectorInv, Types
<1>1. ASSUME NEW i \in Jobs, TimerFires(i) \/ JobStops(i) \/ NothingToWrite(i) \/ GotValue(i)
      PROVE  /\ UNCHANGED <<coef, params, energy>>
             /\ \A j \in Jobs : loaded'[j] \in {loaded[j], params}
  BY <1>0, <1>1 DEF TimerFires, JobStops, NothingToWrite, GotValue
<1>2. ASSUME NEW i \in Jobs, WriteReturns(i)
      PROVE  /\ UNCHANGED <<coef, params, loaded>>
             /\ \/ UNCHANGED energy
                \/ WritesEnergy(i) /\ energy' = energy \cup {loaded[i]}
  BY <1>2 DEF WriteReturns, Store, WritesEnergy
<1>3. CASE INFWritten
  <2>1. /\ UNCHANGED <<coef, params, loaded>>
        /\ \/ UNCHANGED energy
           \/ WritesEnergy("inf") /\ energy' = energy \cup {loaded["inf"]}
    BY <1>3 DEF INFWritten, Store, WritesEnergy
  <2>2. "inf" \in Jobs
    BY DEF Jobs
  <2> QED  BY <2>1, <2>2
<1>4. CASE GotScheduled \/ HandleINF \/ GotMinute \/ GotMeta
  BY <1>0, <1>4 DEF GotScheduled, HandleINF, GotMinute, GotMeta
<1>5. CASE FetchPropertyMap \/ StartJobs \/ RunReturns \/ TakeINF \/ SkipINF \/ INFDone
           \/ Notified \/ Shutdown \/ UNCHANGED vars
  BY <1>5 DEF FetchPropertyMap, StartJobs, RunReturns, TakeINF, SkipINF, INFDone, Notified,
              Shutdown, vars
<1>6. CASE \E j \in Jobs : JobStep(j)
  BY <1>1, <1>2, <1>6 DEF JobStep
<1> QED  BY <1>3, <1>4, <1>5, <1>6 DEF Next, INFStep

LEMMA CoefStep ==
  ASSUME CollectorInv, CoefInv, [Next]_vars,
         [GotMeta => \E hasUnit \in BOOLEAN : params' = ToParams(coef # 0, hasUnit)]_vars
  PROVE  CoefInv'
<1>1. MeterCoef' = MeterCoef
  BY FactorsFrame DEF MeterCoef
<1>2. CoefOfMeter(params)'
  <2>1. UNCHANGED params \/ \E hasUnit \in BOOLEAN : params' = ToParams(coef # 0, hasUnit)
    BY FactorsFrame DEF vars
  <2>2. \A hasUnit \in BOOLEAN : ToParams(coef # 0, hasUnit).coef = MeterCoef
    BY DEF ToParams, MeterCoef
  <2>3. params'.coef = params.coef \/ params'.coef = MeterCoef
    BY <2>1, <2>2
  <2> QED  BY <1>1, <2>3 DEF CoefInv, CoefOfMeter
<1>3. \A j \in Jobs : CoefOfMeter(loaded[j])'
  <2>1. \A j \in Jobs : loaded'[j] = loaded[j] \/ loaded'[j] = params
    BY FactorsFrame
  <2> QED  BY <1>1, <2>1 DEF CoefInv, CoefOfMeter
<1>4. CoefficientRight'
  <2>1. CASE UNCHANGED energy
    BY <1>1, <2>1 DEF CoefInv, CoefficientRight
  <2>2. ASSUME NEW j \in Jobs, WritesEnergy(j), energy' = energy \cup {loaded[j]}
        PROVE  CoefficientRight'
    <3>1. loaded[j].coef = MeterCoef
      <4>1. loaded[j].coef > 0
        BY <2>2 DEF CollectorInv, WritersValid, Valid
      <4>2. loaded[j].coef \in {0, MeterCoef}
        BY DEF CoefInv, CoefOfMeter
      <4> QED  BY <4>1, <4>2
    <3> QED  BY <1>1, <2>2, <3>1 DEF CoefInv, CoefficientRight
  <2> QED  BY <2>1, <2>2, FactorsFrame
<1> QED  BY <1>2, <1>3, <1>4 DEF CoefInv

(* What model.go:54 says of the coefficient holds as long as no answer to  *)
(* refreshMeta leaves it out: then every energy, from whichever job, is    *)
(* converted with the meter's own, or with 1 if it has none.               *)
THEOREM CollectorCoefficientRight ==
  Spec /\ CoefficientAnswered => [](CoefficientRight /\ OneOnlyWithoutCoefficient)
<1>1. Init => CoefInv
  BY DEF Init, CoefInv, CoefOfMeter, CoefficientRight, NoParams
<1>2. CollectorInv /\ CoefInv /\ [Next]_vars
      /\ [GotMeta => \E hasUnit \in BOOLEAN : params' = ToParams(coef # 0, hasUnit)]_vars
      => CoefInv'
  BY CoefStep
<1>3. CoefInv => CoefficientRight /\ OneOnlyWithoutCoefficient
  BY DEF CoefInv, CoefficientRight, MeterCoef, OneOnlyWithoutCoefficient
<1> QED
  BY <1>1, <1>2, <1>3, CollectorInit, CollectorStep, PTL DEF Spec, CoefficientAnswered
=============================================================================
