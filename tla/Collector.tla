----------------------------- MODULE Collector -----------------------------
(***************************************************************************)
(* internal/collector: the polling jobs, the handler of notifications and  *)
(* the meter's conversion factors they share.                              *)
(*                                                                         *)
(* Run fetches the property map and the meta data, then starts one         *)
(* goroutine per job the map calls for. The factors (c.params) are stored  *)
(* by refreshMeta and loaded by the energy jobs at different moments: the  *)
(* minute job before its two Gets, the half-hour ones after theirs.        *)
(*                                                                         *)
(* A Get ends with an answer or an error, as Client.tla shows; an answer   *)
(* may be partial (Get_SNA). Writes to the storage succeed or fail.        *)
(***************************************************************************)
EXTENDS Naturals, Sequences, FiniteSets

CONSTANTS Coefs,           \* coefficients (0xD3) a meter may have
          Units,           \* units (0xE1) a meter may have
          NoUnit,          \* UnitKWh = 0: no unit, or a code nobody knows
          Services,        \* properties a meter's property map may hold
          InfBuffer,       \* capacity of the client's infCh
          MaxRuns          \* bound: times the jobs' timers fire

ASSUME CollectorAssumption ==
  /\ Coefs \subseteq Nat \ {0}
  /\ NoUnit \notin Units
  /\ Services \subseteq {"power", "total", "min1", "status", "scheduled"}
  /\ InfBuffer \in Nat /\ MaxRuns \in Nat

Jobs == {"power", "energy", "status", "meta", "energy30", "inf"}
Params == [coef : Coefs \cup {0, 1}, unit : Units \cup {NoUnit}]
NoParams == [coef |-> 0, unit |-> NoUnit]    \* MeterParams{}

VARIABLES
  run, supports,           \* Run's control; propMap
  params,                  \* c.params, NoParams while nil
  pc, loaded,              \* each job's control; the factors it works with
  infCh, props,            \* notifications; what is left of the one in hand
  cancelled,               \* the group context is done
  meterMap, coef, unit,    \* the meter; coef 0: it has no coefficient
  runs,                    \* bound: timers left
  energy,                  \* history: the factors of every energy ever written
  minute                   \* history: the factors of what this run of the
                           \* minute job has written
meter == <<meterMap, coef, unit>>
history == <<energy, minute>>
vars == <<run, supports, params, pc, loaded, infCh, props, cancelled, meter, runs,
          history>>

Init ==
  /\ run = "map" /\ supports = {} /\ params = NoParams
  /\ pc = [j \in Jobs |-> "none"] /\ loaded = [j \in Jobs |-> NoParams]
  /\ infCh = <<>> /\ props = <<>>
  /\ cancelled = FALSE
  /\ meterMap \in SUBSET Services /\ coef \in Coefs \cup {0} /\ unit \in Units
  /\ runs = MaxRuns /\ energy = {} /\ minute = {}

Goto(j, label) == pc' = [pc EXCEPT ![j] = label]

(* A mutant: Valid looks at the coefficient only.                          *)
BugUnitUnchecked(p) == p.coef > 0

Valid(p) == p.coef > 0 /\ p.unit # NoUnit

-----------------------------------------------------------------------------
(* Run *)

(* fetchPropertyMap; Run returns if it fails, and main ends with it.       *)
FetchPropertyMap ==
  /\ run = "map"
  /\ \/ run' = "meta" /\ supports' = meterMap /\ Goto("meta", "get") /\ UNCHANGED cancelled
     \/ run' = "failed" /\ cancelled' = TRUE /\ UNCHANGED <<supports, pc>>
  /\ UNCHANGED <<params, loaded, infCh, props, meter, runs, history>>

Wanted == {"meta", "inf"}
  \cup {j \in {"power", "status"} : j \in supports}
  \cup (IF supports \cap {"total", "min1"} # {} THEN {"energy"} ELSE {})
  \cup (IF "scheduled" \in supports THEN {"energy30"} ELSE {})

(* The jobs start once the first refreshMeta is over, whatever its end.    *)
StartJobs ==
  /\ run = "meta" /\ pc["meta"] = "idle"
  /\ run' = "jobs"
  /\ pc' = [j \in Jobs |-> IF j \in Wanted THEN "idle" ELSE "none"]
  /\ UNCHANGED <<supports, params, loaded, infCh, props, cancelled, meter, runs, history>>

(* errgroup: Wait returns when every goroutine has.                        *)
RunReturns ==
  /\ run = "jobs" /\ \A j \in Jobs : pc[j] = "none"
  /\ run' = "stopped"
  /\ UNCHANGED <<supports, params, pc, loaded, infCh, props, cancelled, meter, runs,
                 history>>

-----------------------------------------------------------------------------
(* tick, tickAt: a timer fires and the job runs. The minute job loads the  *)
(* factors first, and begins with the first property the meter has.        *)
FirstStep(j) == IF j # "energy" THEN "get"
                ELSE IF "total" \in supports THEN "getTotal" ELSE "getMin1"

TimerFires(j) ==
  /\ run = "jobs" /\ pc[j] = "idle" /\ j # "inf" /\ runs > 0
  /\ runs' = runs - 1
  /\ Goto(j, FirstStep(j))
  /\ loaded' = IF j = "energy" THEN [loaded EXCEPT ![j] = params] ELSE loaded
  /\ minute' = IF j = "energy" THEN {} ELSE minute
  /\ UNCHANGED <<run, supports, params, infCh, props, cancelled, meter, energy>>

(* A mutant: the handler of notifications does not look at the context.    *)
BugOnlyTimersStop(j) ==
  /\ run = "jobs" /\ pc[j] = "idle" /\ cancelled /\ j # "inf"
  /\ Goto(j, "none")
  /\ UNCHANGED <<run, supports, params, loaded, infCh, props, cancelled, meter, runs,
                 history>>

(* ... or the context is done; select picks either when both are ready.    *)
JobStops(j) ==
  /\ run = "jobs" /\ pc[j] = "idle" /\ cancelled
  /\ Goto(j, "none")
  /\ UNCHANGED <<run, supports, params, loaded, infCh, props, cancelled, meter, runs,
                 history>>

(* A mutant: without looking at the property map.                          *)
BugAsksUnsupported == "getMin1"

(* pollEnergyMinute goes on with its second property if the meter has it.  *)
AfterTotal == IF "min1" \in supports THEN "getMin1" ELSE "idle"

(* A job gives up or has nothing to write: an error, no data, a property   *)
(* missing or malformed, factors that are not valid. The minute job goes   *)
(* on all the same.                                                        *)
NothingToWrite(j) ==
  /\ pc[j] \in {"get", "getTotal", "getMin1"}
  /\ Goto(j, IF pc[j] = "getTotal" THEN AfterTotal ELSE "idle")
  /\ UNCHANGED <<run, supports, params, loaded, infCh, props, cancelled, meter, runs,
                 history>>

(* pollPower and pollStatus get a value that counts.                       *)
GotValue(j) ==
  /\ j \in {"power", "status"} /\ pc[j] = "get"
  /\ Goto(j, "write")
  /\ UNCHANGED <<run, supports, params, loaded, infCh, props, cancelled, meter, runs,
                 history>>

(* A mutant: the factors are loaded after each Get.                        *)
BugLoadsLate ==
  /\ pc["energy"] \in {"getTotal", "getMin1"}
  /\ Valid(params)
  /\ loaded' = [loaded EXCEPT !["energy"] = params]
  /\ Goto("energy", IF pc["energy"] = "getTotal" THEN "writeTotal" ELSE "writeMin1")
  /\ UNCHANGED <<run, supports, params, infCh, props, cancelled, meter, runs, history>>

(* toEnergy and toEnergy1Min, with the factors loaded before the Get.      *)
GotMinute ==
  /\ pc["energy"] \in {"getTotal", "getMin1"}
  /\ Valid(loaded["energy"])
  /\ Goto("energy", IF pc["energy"] = "getTotal" THEN "writeTotal" ELSE "writeMin1")
  /\ UNCHANGED <<run, supports, params, loaded, infCh, props, cancelled, meter, runs,
                 history>>

(* pollEnergy30 -> writeScheduled30: the factors are loaded after the Get. *)
GotScheduled ==
  /\ pc["energy30"] = "get" /\ Valid(params)
  /\ loaded' = [loaded EXCEPT !["energy30"] = params]
  /\ Goto("energy30", "write")
  /\ UNCHANGED <<run, supports, params, infCh, props, cancelled, meter, runs, history>>

(* refreshMeta: the answer, in full or in part, replaces the factors.      *)
(* toMeta starts from coefficient 1 and no unit, and overwrites what the   *)
(* answer holds.                                                           *)

ToParams(hasCoef, hasUnit) ==
  [coef |-> IF hasCoef THEN coef ELSE 1, unit |-> IF hasUnit THEN unit ELSE NoUnit]

GotMeta ==
  /\ pc["meta"] = "get"
  /\ \E hasCoef \in IF coef = 0 THEN {FALSE} ELSE BOOLEAN,
        hasUnit \in BOOLEAN :
       params' = ToParams(hasCoef, hasUnit)
  /\ Goto("meta", "write")
  /\ UNCHANGED <<run, supports, loaded, infCh, props, cancelled, meter, runs, history>>

(* A write returns; one that failed may have reached the storage.          *)
Store(j, isEnergy, isMinute) ==
  \/ UNCHANGED history
  \/ /\ isEnergy
     /\ energy' = energy \cup {loaded[j]}
     /\ minute' = IF isMinute THEN minute \cup {loaded[j]} ELSE minute

WriteReturns(j) ==
  /\ j # "inf" /\ pc[j] \in {"write", "writeTotal", "writeMin1"}
  /\ Store(j, j \in {"energy", "energy30"}, j = "energy")
  /\ Goto(j, IF pc[j] = "writeTotal" THEN AfterTotal ELSE "idle")
  /\ UNCHANGED <<run, supports, params, loaded, infCh, props, cancelled, meter, runs>>

-----------------------------------------------------------------------------
(* handleINF: one notification at a time, one property after the other.    *)
TakeINF ==
  /\ run = "jobs" /\ pc["inf"] = "idle" /\ infCh # <<>>
  /\ props' = Head(infCh) /\ infCh' = Tail(infCh)
  /\ Goto("inf", "handle")
  /\ UNCHANGED <<run, supports, params, loaded, cancelled, meter, runs, history>>

(* The next property is one to write: a half-hour value when the factors   *)
(* are valid, a fault status.                                              *)
HandleINF ==
  /\ pc["inf"] = "handle" /\ props # <<>>
  /\ \/ Head(props) = "scheduled" /\ Valid(params)
     \/ Head(props) = "status"
  /\ loaded' = [loaded EXCEPT !["inf"] = params]
  /\ Goto("inf", "write")
  /\ UNCHANGED <<run, supports, params, infCh, props, cancelled, meter, runs, history>>

(* A mutant: a half-hour value waits for valid factors.                    *)
BugWaitsForFactors ==
  /\ pc["inf"] = "handle" /\ props # <<>>
  /\ Head(props) = "scheduled" => Valid(params)
  /\ props' = Tail(props)
  /\ UNCHANGED <<run, supports, params, pc, loaded, infCh, cancelled, meter, runs, history>>

(* It is not: another property, no data, malformed, factors not valid.     *)
SkipINF ==
  /\ pc["inf"] = "handle" /\ props # <<>>
  /\ props' = Tail(props)
  /\ UNCHANGED <<run, supports, params, pc, loaded, infCh, cancelled, meter, runs, history>>

INFWritten ==
  /\ pc["inf"] = "write"
  /\ Store("inf", Head(props) = "scheduled", FALSE)
  /\ props' = Tail(props)
  /\ Goto("inf", "handle")
  /\ UNCHANGED <<run, supports, params, loaded, infCh, cancelled, meter, runs>>

INFDone ==
  /\ pc["inf"] = "handle" /\ props = <<>>
  /\ Goto("inf", "idle")
  /\ UNCHANGED <<run, supports, params, loaded, infCh, props, cancelled, meter, runs,
                 history>>

-----------------------------------------------------------------------------
(* The client's receive loop, and signals. *)

Notifications == {<<"scheduled">>, <<"status">>, <<"scheduled", "status">>}

Notified ==
  /\ Len(infCh) < InfBuffer /\ runs > 0
  /\ runs' = runs - 1
  /\ \E n \in Notifications : infCh' = Append(infCh, n)
  /\ UNCHANGED <<run, supports, params, pc, loaded, props, cancelled, meter, history>>

Shutdown ==
  /\ ~cancelled
  /\ cancelled' = TRUE
  /\ UNCHANGED <<run, supports, params, pc, loaded, infCh, props, meter, runs, history>>

-----------------------------------------------------------------------------
JobStep(j) == TimerFires(j) \/ JobStops(j) \/ NothingToWrite(j) \/ GotValue(j)
              \/ WriteReturns(j)

INFStep == TakeINF \/ HandleINF \/ SkipINF \/ INFWritten \/ INFDone

Next ==
  \/ FetchPropertyMap \/ StartJobs \/ RunReturns
  \/ (\E j \in Jobs : JobStep(j)) \/ GotMinute \/ GotScheduled \/ GotMeta
  \/ INFStep \/ Notified \/ Shutdown

Spec == Init /\ [][Next]_vars

(* Gets and writes return (the request and write time-outs) and goroutines *)
(* run. A select with two branches ready does not always take the same:    *)
(* MaxRuns, which ends timers and notifications, stands for that, and weak *)
(* fairness is enough. Timers, notifications and signals may never come.   *)
Fairness ==
  /\ WF_vars(FetchPropertyMap \/ StartJobs \/ RunReturns)
  /\ \A j \in Jobs \ {"inf"} :
       WF_vars(NothingToWrite(j) \/ WriteReturns(j) \/ JobStops(j))
  /\ WF_vars(INFStep \/ JobStops("inf"))

FairSpec == Spec /\ Fairness

-----------------------------------------------------------------------------
(* Properties *)

(* What a job can be at: each its own steps; the minute job only those for *)
(* the properties of the map, though Wanted starts it for either of them.  *)
MinuteSteps ==
  {l \in {"getTotal", "writeTotal"} : "total" \in supports}
  \cup {l \in {"getMin1", "writeMin1"} : "min1" \in supports}

Steps(j) == {"idle"} \cup
  (CASE j = "energy" -> MinuteSteps
     [] j = "inf"    -> {"handle", "write"}
     [] OTHER        -> {"get", "write"})

OnlySupportedJobs == \A j \in Jobs : pc[j] = "none" \/ (j \in Wanted /\ pc[j] \in Steps(j))

Labels == {"none", "idle", "get", "getTotal", "getMin1", "write", "writeTotal",
           "writeMin1", "handle"}

Types ==
  /\ run \in {"map", "meta", "jobs", "failed", "stopped"}
  /\ supports \subseteq Services /\ meterMap \subseteq Services
  /\ params \in Params /\ loaded \in [Jobs -> Params]
  /\ pc \in [Jobs -> Labels]
  /\ infCh \in Seq(Notifications) /\ Len(infCh) <= InfBuffer
  /\ props \in Seq({"scheduled", "status"})
  /\ cancelled \in BOOLEAN
  /\ coef \in Coefs \cup {0} /\ unit \in Units
  /\ runs \in 0..MaxRuns
  /\ energy \subseteq Params /\ minute \subseteq energy

(* Every variable has its type, and no job runs or asks for a property     *)
(* that the meter's property map does not call for.                        *)
TypeOK == Types /\ OnlySupportedJobs

(* No energy is ever converted with a unit that is not the meter's: not    *)
(* before the first refreshMeta, not after a failed or partial one, and    *)
(* not while one replaces the factors under a job that has loaded them.    *)
UnitNeverWrong == \A p \in energy : p.unit = unit

(* model.go:54 - the coefficient counts as 1 when the meter has none; a    *)
(* meter that has one is not read as if it had none.                       *)
OneOnlyWithoutCoefficient == \A p \in energy : p.coef = 1 => coef \in {0, 1}

(* The two energies one run of the minute job writes are converted alike,  *)
(* though a refreshMeta may store new factors between its two Gets.        *)
MinuteConvertedAlike == Cardinality(minute) <= 1

(* The notifications the client queues are taken out again, whatever they  *)
(* hold and even if no factors were ever fetched: a full infCh, where the  *)
(* client drops, does not stay full.                                       *)
NotificationsDrained ==
  (Len(infCh) = InfBuffer) ~> (Len(infCh) < InfBuffer \/ cancelled)

(* Once the context is done every job ends and Run returns, from whatever  *)
(* Get, write or notification they were at.                                *)
ShutdownCompletes == cancelled ~> (run \in {"failed", "stopped"})
=============================================================================
