------------------------------ MODULE Reading ------------------------------
(***************************************************************************)
(* One job of internal/collector from its timer to the storage: the meter  *)
(* answers a Get, the answer comes as an ERXUDP line, becomes a payload    *)
(* (reader.go), a frame (frame.go), a value (decode.go) and a point in the *)
(* storage (influx.go). The half-hour job is started by tickAt, the others *)
(* by a ticker or at start-up; minutes are counted from a full hour.       *)
(*                                                                         *)
(* The meter means something by its answer (meant); what arrives may be    *)
(* partial or damaged. That an answer belongs to its request is Client's   *)
(* concern, that jobs run side by side is Collector's.                     *)
(***************************************************************************)
EXTENDS Echonet, FiniteSets

CONSTANTS Watts, Amps, Raws,   \* measured values: int32, int16, four bytes
          Coefs,               \* coefficients, four bytes
          Units,               \* units, as powers of ten
          MapBase, MapExtra,   \* property maps: MapBase or nothing, with some
                               \* codes of MapExtra
          JobTime,             \* bound: minutes a job takes
          MaxTime              \* bound: minutes in a behaviour

(* What is measured is never one of the codes for "no value"; a behaviour   *)
(* is long enough to start in any minute of an hour.                       *)
ASSUME ReadingAssumption ==
  /\ \A n \in Watts : n \in Int /\ -2147483647 <= n /\ n <= 2147483645
  /\ \A n \in Amps : n \in Int /\ -32768 <= n /\ n <= 32767 /\ n # 32766
  /\ Raws \cup Coefs \subseteq [1..4 -> 0..255] /\ NoData32 \notin Raws
  /\ MapBase \cup MapExtra \subseteq 128..255
  /\ Units \subseteq (-4)..4
  /\ JobTime \in 0..24 /\ MaxTime \in Nat /\ MaxTime >= 59

Zero == <<0, 0, 0, 0>>
One == <<0, 0, 0, 1>>
Params == [coef : Coefs \cup {Zero, One}, unit : {{}} \cup {{u} : u \in Units}]

Requested == [power |-> <<EPC.Power, EPC.Current>>, energy |-> <<EPC.Fwd>>,
              min1 |-> <<EPC.Min1>>, energy30 |-> <<EPC.Scheduled>>,
              status |-> <<EPC.Fault>>, map |-> <<EPC.Map>>,
              meta |-> <<EPC.Coefficient, EPC.Unit>>]
Jobs == DOMAIN Requested
Energies == {"energy", "min1", "energy30"}

(* The jobs that call getPartial. *)
Partial == {"power", "energy", "min1", "meta"}

VARIABLES
  job, params,             \* the job; c.params
  stage,                   \* where its reading is
  now, mark,               \* the clock; when the half-hour timer fires
  meant, given, damage,    \* the answer: values, codes the meter could give,
                           \* what happened to it on the way
  data,                    \* the line, payload or frame
  stored,                  \* the point written (or map kept), if any
  last                     \* history: the half hour polled last, -1 at first
answer == <<meant, given, damage, data>>
clock == <<now, mark>>
vars == <<job, params, stage, clock, answer, stored, last>>

-----------------------------------------------------------------------------
(* tickAt *)
Minutes == <<5, 35>>

(* The marks nextMinuteMark looks at, in its order: this hour's, the next. *)
Candidate(t, i) == t - (t % 60) + 60 * ((i - 1) \div 2) + Minutes[1 + ((i - 1) % 2)]

(* A mutant: cand.After(now) with equality.                                *)
BugNotAfter(t) ==
  Candidate(t, CHOOSE i \in 1..4 : /\ Candidate(t, i) >= t
                                   /\ \A j \in 1..(i - 1) : Candidate(t, j) < t)

(* The first of them after t. *)
NextMinuteMark(t) ==
  Candidate(t, CHOOSE i \in 1..4 : /\ Candidate(t, i) > t
                                   /\ \A j \in 1..(i - 1) : Candidate(t, j) <= t)

HalfHour(t) == t \div 30
ClockOf(h) == <<7, 234, 6, 15, (h \div 2) % 24, 30 * (h % 2), 0>>

Init ==
  /\ job \in Jobs
  /\ params \in IF job \in Energies THEN Params ELSE {[coef |-> Zero, unit |-> {}]}
  /\ stage = "sleep"
  /\ now \in IF job = "energy30" THEN 0..59 ELSE {0}
  /\ mark = IF job = "energy30" THEN NextMinuteMark(now) ELSE 0
  /\ meant = <<>> /\ given = {} /\ damage = "none" /\ data = <<>>
  /\ stored = {} /\ last = -1

(* Time passes; a timer that is due fires first.                           *)
Tick ==
  /\ job = "energy30" /\ now < MaxTime
  /\ now < (IF stage = "sleep" THEN mark ELSE mark + JobTime)
  /\ now' = now + 1
  /\ UNCHANGED <<job, params, stage, mark, answer, stored, last>>

Fire ==
  /\ stage = "sleep" /\ now >= mark
  /\ stage' = "get"
  /\ last' = IF job = "energy30" THEN HalfHour(now) ELSE last
  /\ UNCHANGED <<job, params, clock, answer, stored>>

(* The job returned, with or without an error. *)
Sleep ==
  /\ stage = "done"
  /\ stage' = "sleep"
  /\ mark' = IF job = "energy30" THEN NextMinuteMark(now) ELSE mark
  /\ meant' = <<>> /\ given' = {} /\ damage' = "none" /\ data' = <<>> /\ stored' = {}
  /\ UNCHANGED <<job, params, now, last>>

-----------------------------------------------------------------------------
(* The meter. *)
Options(S) == {{}} \cup {{v} : v \in S}
SomeTime == ClockOf(21)

Values(epc) ==
  CASE epc = EPC.Power       -> Options(Watts)
    [] epc = EPC.Current     -> [r : Options(Amps), t : Options(Amps)]
    [] epc = EPC.Fwd         -> Options(Raws)
    [] epc = EPC.Min1        -> [time : {SomeTime}, fwd : Options(Raws), rev : Options(Raws)]
    [] epc = EPC.Scheduled   -> [time : {ClockOf(HalfHour(now))}, raw : Options(Raws)]
    [] epc = EPC.Fault       -> BOOLEAN
    [] epc = EPC.Map         -> {b \cup e : b \in {{}, MapBase}, e \in SUBSET MapExtra}
    [] epc = EPC.Coefficient -> Coefs
    [] epc = EPC.Unit        -> Options(Units)

(* How the meter writes value v: the codes ECHONET Lite has for it.        *)
BE32(n) == BE16(n \div 65536) \o BE16(n)
Raw(v) == IF v = {} THEN NoData32 ELSE CHOOSE b \in v : TRUE
Tenths(v) == IF v = {} THEN <<127, 254>> ELSE BE16(CHOOSE n \in v : TRUE)

(* A property map: the codes in ascending order, or 16 bytes of 8 bits. *)
Code(S, n) == CHOOSE c \in S : Cardinality({d \in S : d < c}) = n - 1
Row(S, i) == CHOOSE b \in 0..255 : \A k \in 0..7 : Bit(b, k) <=> 128 + 16 * k + i \in S

Wires(epc, v) ==
  CASE epc = EPC.Power       -> IF v = {} THEN NoPower ELSE {BE32(n) : n \in v}
    [] epc = EPC.Current     -> {Tenths(v.r) \o Tenths(v.t)}
    [] epc = EPC.Fwd         -> {Raw(v)}
    [] epc = EPC.Min1        -> {v.time \o Raw(v.fwd) \o Raw(v.rev)}
    [] epc = EPC.Scheduled   -> {v.time \o Raw(v.raw)}
    [] epc = EPC.Fault       -> {IF v THEN <<65>> ELSE <<66>>}
    [] epc = EPC.Map         -> {<<Cardinality(v)>> \o
                                 IF Cardinality(v) < 16
                                 THEN [n \in 1..Cardinality(v) |-> Code(v, n)]
                                 ELSE [i \in 1..16 |-> Row(v, i - 1)]}
    [] epc = EPC.Coefficient -> {v}
    [] epc = EPC.Unit        -> IF v = {} THEN {<<5>>, <<238>>}
                                ELSE {<<IF n > 0 THEN n + 9 ELSE -n>> : n \in v}

Line(payload) == [fields |-> 9, lport |-> 3610, secured |-> "1", hex |-> TRUE,
                  datalen |-> Len(payload), payload |-> payload]

(* A line may lose a field or a digit on the serial port, hold what is no  *)
(* digit, or be another datagram; the frame in it may be cut, have another *)
(* header, or carry more than its properties. Left out is a digit that     *)
(* turned into another: neither line nor frame has a checksum, and the     *)
(* value is stored.                                                        *)
Damaged(payload, d) ==
  CASE d = "none"   -> {Line(payload)}
    [] d = "fields" -> {[Line(payload) EXCEPT !.fields = 8]}
    [] d = "port"   -> {[Line(payload) EXCEPT !.lport = 716]}
    [] d = "plain"  -> {[Line(payload) EXCEPT !.secured = "0"]}
    [] d = "hex"    -> {[Line(payload) EXCEPT !.hex = FALSE]}
    [] d = "cut"    -> {[Line(payload) EXCEPT !.payload = SubSeq(@, 1, Len(@) - 1)]}
    [] d = "frame"  -> {Line(SubSeq(payload, 1, n)) : n \in 0..(Len(payload) - 1)}
    [] d = "header" -> {Line([payload EXCEPT ![2] = 130])}
    [] d = "tail"   -> {Line(payload \o <<EPC.Power, 0>>)}
Damages == {"none", "fields", "port", "plain", "hex", "cut", "frame", "header", "tail"}

(* Get_Res, or Get_SNA with empty values for what the meter cannot give.   *)
Answer(g, props) ==
  [tid |-> 1, seoj |-> EOJMeter, deoj |-> EOJController,
   esv |-> IF g = ToSet(Requested[job]) THEN ESV.GetRes ELSE ESV.GetSNA, props |-> props]

Answers(v, g) ==
  LET codes == Requested[job]
      edts(i) == IF codes[i] \in g THEN Wires(codes[i], v[codes[i]]) ELSE {<<>>}
  IN  {s \in [DOMAIN codes -> UNION {edts(i) : i \in DOMAIN codes}] :
         \A i \in DOMAIN codes : s[i] \in edts(i)}

(* At most two codes are asked for. *)
Meanings ==
  LET codes == Requested[job]
      First == Values(codes[1])
      Second == IF Len(codes) = 1 THEN {{}} ELSE Values(codes[2])
  IN  {[e \in ToSet(codes) |-> IF e = codes[1] THEN p[1] ELSE p[2]] : p \in First \X Second}

MeterAnswers ==
  /\ stage = "get"
  /\ given' \in SUBSET ToSet(Requested[job])
  /\ meant' \in Meanings
  /\ damage' \in Damages
  /\ \E edts \in Answers(meant', given') :
       data' \in Damaged(Encode(Answer(given', [i \in DOMAIN edts |->
                    [epc |-> Requested[job][i], edt |-> edts[i]]])), damage')
  /\ stage' = "line"
  /\ UNCHANGED <<job, params, clock, stored, last>>

(* Or not, or too late: the job returns with its deadline's error.         *)
NoAnswer ==
  /\ stage = "get"
  /\ stage' = "done" /\ damage' = "lost"
  /\ UNCHANGED <<job, params, clock, meant, given, data, stored, last>>

-----------------------------------------------------------------------------
(* The line. One that is dropped leaves the request to its deadline.       *)
Acceptable(l) ==
  l.fields >= 9 /\ l.lport = 3610 /\ l.secured = "1" /\ l.hex /\ Len(l.payload) = l.datalen

HandleERXUDP ==
  /\ stage = "line"
  /\ IF Acceptable(data) THEN stage' = "payload" /\ data' = data.payload
                         ELSE stage' = "done" /\ UNCHANGED data
  /\ UNCHANGED <<job, params, clock, meant, given, damage, stored, last>>

(* Client.Run, dispatch, Get: a Get_SNA is an error, which getPartial      *)
(* takes for an answer.                                                    *)
Accepts(f) ==
  /\ IsResponse(f.esv)
  /\ f.esv \in {ESV.GetSNA, ESV.SetCSNA} =>
       f.esv = ESV.GetSNA /\ job \in Partial /\ f.props # <<>>

Dispatch ==
  /\ stage = "payload"
  /\ LET d == Decode(data) IN
       IF d.ok /\ Accepts(d.frame) THEN stage' = "frame" /\ data' = d.frame
                                   ELSE stage' = "done" /\ UNCHANGED data
  /\ UNCHANGED <<job, params, clock, meant, given, damage, stored, last>>

-----------------------------------------------------------------------------
(* The values, as sets of at most one; an error leaves nothing to write.   *)
The(S) == CHOOSE x \in S : TRUE
Field(epc, Decoder(_)) ==
  IF EDT(data, epc) = {} THEN Error ELSE Decoder(The(EDT(data, epc)))

ToPower ==
  LET p == Field(EPC.Power, DecodeInstantPower)
      c == IF EDT(data, EPC.Current) = {} THEN [ok |-> TRUE, r |-> {}, t |-> {}]
           ELSE Field(EPC.Current, DecodeCurrent)
  IN  IF p.ok /\ c.ok THEN {[watt |-> p.watt, r |-> c.r, t |-> c.t]} ELSE {}

(* A mutant: a point that lacks one phase counts as empty.                 *)
BugHasAll(p) == p.watt # {} /\ p.r # {} /\ p.t # {}

(* influx.Writer: a point without a field is not written.                  *)
HasData(p) == p.watt \cup p.r \cup p.t # {}

Valid == params.coef # Zero /\ params.unit # {}
EnergyPoint(time, raw) == [time |-> time, raw |-> raw, factors |-> params]
ToEnergy(time, raw) == IF Valid THEN {EnergyPoint(time, w) : w \in raw} ELSE {}

ToEnergyTotal == LET d == Field(EPC.Fwd, DecodeCumulativeEnergy)
                 IN  IF d.ok THEN ToEnergy(<<>>, d.raw) ELSE {}
ToEnergy1Min == LET d == Field(EPC.Min1, DecodeCumulative1Min)
                IN  IF d.ok THEN ToEnergy(d.time, d.fwd) ELSE {}
ToEnergy30 == LET d == Field(EPC.Scheduled, DecodeScheduled30)
              IN  IF d.ok THEN ToEnergy(d.time, d.raw) ELSE {}

ToStatus == {e[1] = 65 : e \in {e \in EDT(data, EPC.Fault) : Len(e) = 1}}

ToMeta ==
  LET coef == {e \in EDT(data, EPC.Coefficient) : Len(e) = 4}
      unit == {e \in EDT(data, EPC.Unit) : Len(e) = 1}
  IN  {[coef |-> IF coef = {} THEN One ELSE The(coef),
        unit |-> UNION {UnitKwh(e[1]) : e \in unit}]}

ToMap == LET d == Field(EPC.Map, DecodePropertyMap) IN IF d.ok THEN {d.epcs} ELSE {}

(* The job's conversion and its Write; refreshMeta and fetchPropertyMap    *)
(* keep what they read.                                                    *)
Store ==
  /\ stage = "frame"
  /\ stage' = "done"
  /\ \/ job = "power" /\ stored' = {p \in ToPower : HasData(p)}
     \/ job = "energy" /\ stored' = ToEnergyTotal
     \/ job = "min1" /\ stored' = ToEnergy1Min
     \/ job = "energy30" /\ stored' = ToEnergy30
     \/ job = "status" /\ stored' = ToStatus
     \/ job = "meta" /\ stored' = ToMeta
     \/ job = "map" /\ stored' = ToMap
  /\ UNCHANGED <<job, params, clock, answer, last>>

Next ==
  \/ Tick \/ Fire \/ Sleep \/ MeterAnswers \/ NoAnswer
  \/ HandleERXUDP \/ Dispatch \/ Store

Spec == Init /\ [][Next]_vars

-----------------------------------------------------------------------------
(* What the meter's answer says, without a byte of it.                     *)
Given(epc, none) == IF epc \in given THEN meant[epc] ELSE none
Points(time, raw) == {EnergyPoint(time, w) : w \in IF Valid THEN raw ELSE {}}

Expected ==
  CASE meant = <<>> -> {}
    [] job = "power" ->
         LET c == Given(EPC.Current, [r |-> {}, t |-> {}])
             p == [watt |-> Given(EPC.Power, {}), r |-> c.r, t |-> c.t]
         IN  IF p = [watt |-> {}, r |-> {}, t |-> {}] THEN {} ELSE {p}
    [] job = "energy" -> Points(<<>>, Given(EPC.Fwd, {}))
    [] job = "min1" -> IF given = {} THEN {} ELSE Points(meant[EPC.Min1].time, meant[EPC.Min1].fwd)
    [] job = "energy30" -> IF given = {} THEN {}
                           ELSE Points(meant[EPC.Scheduled].time, meant[EPC.Scheduled].raw)
    [] job = "status" -> {meant[e] : e \in given}
    [] job = "map" -> {meant[e] : e \in given}
    [] job = "meta" -> {[coef |-> Given(EPC.Coefficient, One), unit |-> Given(EPC.Unit, {})]}

(* Every variable has its type; the timer stands at a mark, a point is one *)
(* at most and a property map holds property codes only.                   *)
TypeOK ==
  /\ job \in Jobs /\ params \in Params
  /\ stage \in {"sleep", "get", "line", "payload", "frame", "done"}
  /\ now \in 0..MaxTime /\ (job = "energy30" => mark % 60 \in {5, 35})
  /\ given \subseteq ToSet(Requested[job]) /\ damage \in Damages \cup {"lost"}
  /\ last \in (-1)..HalfHour(MaxTime)
  /\ Cardinality(stored) <= 1
  /\ job = "map" => \A epcs \in stored : epcs \subseteq 128..255

(* What is written is what the meter measured, sign, no-data codes, time,  *)
(* factors and the table of the property map included; a coefficient that  *)
(* was not read counts as 1, a value that was not read is left out.        *)
StoredIsMeasured == stored \subseteq Expected

(* An answer in full reaches the storage whatever bytes follow it.         *)
FullAnswerStored ==
  stage = "done" /\ damage \in {"none", "tail"} /\ given = ToSet(Requested[job])
    => stored = Expected

(* Of a line or a frame that is cut, malformed or not for us nothing is    *)
(* written, not even a part that can still be read.                        *)
DamagedDropped == stage = "done" /\ damage \notin {"none", "tail"} => stored = {}

(* tickAt polls each half hour's value once: none twice, none left out,    *)
(* however long a job takes within its bound and whenever it is started.   *)
EachHalfHourPolledOnce ==
  [][job = "energy30" /\ stage = "sleep" /\ stage' = "get"
       => last' = last + 1 \/ last = -1]_vars

(* getPartial says "partial response; using available properties"          *)
(* (jobs.go:18): what a Get_SNA answer does hold is written.               *)
PartialAnswerUsed ==
  stage = "done" /\ damage = "none" /\ job \in Partial => stored = Expected
=============================================================================
