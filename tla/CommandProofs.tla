--------------------------- MODULE CommandProofs ---------------------------
(***************************************************************************)
(* What is proved of the serial commands: for every set of scripts, every  *)
(* size of the channels and of an EPANDESC block and any number of         *)
(* commands, events and faults.                                            *)
(***************************************************************************)
EXTENDS Command, SequenceTheorems, FiniteSetTheorems, TLAPS

-----------------------------------------------------------------------------
(* The invariant *)

Todo == [kind : Kinds, of : Nat]
Held == rd \in {"taken", "process"}       \* the reader has a line in its hands
Locking == {c \in Callers : pc[c] = "lock"}

(* TypeOK by parts: the callers ... *)
CallersOK ==
  /\ cmdMu \in Callers \cup {Nobody}
  /\ pc \in [Callers -> {"idle", "lock", "echo", "wait"}]
  /\ kind \in [Callers -> Kinds] /\ num \in [Callers -> Nat]
  /\ script \in Seq(Kinds) /\ clean \in [Callers -> BOOLEAN]
  /\ result \in [Callers -> Line \cup {NoLine}]
  /\ response \in [Callers -> Seq(Line)]

(* ... the parser, where an EPANDESC block that is not over lacks a line   *)
(* and a line that is kept back ends in CR ...                             *)
ParserOK ==
  /\ state \in {"normal", "epandesc", "address", "product"}
  /\ seen \in {"normal", "epandesc", "address", "product"}
  /\ rd \in {"ready", "taken", "process", "settle"}
  /\ fields \in 0..Fields
  /\ state = "epandesc" \/ (rd = "process" /\ seen = "epandesc") => fields < Fields
LinesOK ==
  /\ line \in Line \cup {NoLine} /\ (Held => line \in Line)
  /\ partial \in Line \cup {NoLine} /\ (partial # NoLine => EndsInCR(partial))
  /\ results \in Seq(Line) /\ Len(results) <= ResultBuffer
  /\ responses \in Seq(Line) /\ Len(responses) <= ResponseBuffer

(* ... the module, whose EVENTs answer no command ...                      *)
Lines == {l \in Line : l.kind = "event" => l.of = 0}
ModuleOK ==
  /\ wire \in Seq(Lines) /\ todo \in Seq(Todo)
  /\ \A i \in 1..Len(todo) : todo[i].of \in 1..written
FlagsOK ==
  /\ cr \in BOOLEAN /\ echo \in BOOLEAN /\ echoing \in BOOLEAN /\ scanning \in BOOLEAN

(* ... and the bounds.                                                     *)
BoundsOK ==
  /\ written \in Nat /\ written + Cardinality(Locking) <= MaxCommands
  /\ unanswered \subseteq 1..MaxCommands
  /\ events \in 0..MaxEvents /\ faults \in 0..MaxFaults

TypeInv == CallersOK /\ ParserOK /\ LinesOK /\ ModuleOK /\ FlagsOK /\ BoundsOK

(* exec holds cmdMu from the write to its return, and has no result yet.   *)
Exclusive == \A c \in Callers : Busy(c) <=> cmdMu = c
NoResultYet == \A c \in Callers : pc[c] # "idle" => result[c] = NoLine

(* What a command that started on a quiet line finds there: lines of its   *)
(* own, an address only if it asked for one, and what nobody asked for,    *)
(* which is no result; and the parser in its mode or in one that waits for *)
(* a result.                                                               *)
Own(c, l) == l.of = num[c] /\ (l.kind = "address" => kind[c] = "address")
Foreign(l) == l.of = 0 /\ l.kind \in {"event", "epandesc", "field"}
LinesFor(c) == {l \in Line : Own(c, l) \/ Foreign(l)}
ResultsFor(c) ==
  {l \in Line : l.of = num[c] \/ (l.of = 0 /\ kind[c] \in {"address", "option"})}
ModesFor(c) == {"normal", "epandesc", ModeOf(kind[c])}

QuietStart(c) ==
  /\ todo \in Seq({t \in Todo : t.of = num[c] /\ t.kind = kind[c]})
  /\ wire \in Seq(LinesFor(c))
  /\ Held => line \in LinesFor(c)
  /\ rd = "process" => seen \in ModesFor(c)
  /\ partial # NoLine => Own(c, partial)
  /\ results \in Seq(ResultsFor(c))
  /\ state \in ModesFor(c)

(* The line that ends a command, wherever it is. An address ends one only  *)
(* in the parser's mode for it, in which it stays until there is a result. *)
Final(c, l) == l.of = num[c] /\ l.kind \in {"ok", "fail", "okCR", "okValue", "address"}
HasFinal(c, s) == \E i \in 1..Len(s) : Final(c, s[i])
Due(c) == \/ todo # <<>>
          \/ HasFinal(c, wire)
          \/ Held /\ Final(c, line)
          \/ Final(c, partial)
AddressMode(c) ==
  kind[c] = "address" /\ results = <<>> =>
    state = "address" /\ rd # "settle" /\ (rd = "process" => seen = "address")

OwnInv == \A c \in Callers : Busy(c) /\ clean[c] => QuietStart(c)
AnswerInv ==
  \A c \in Callers : Busy(c) /\ clean[c] =>
    /\ AddressMode(c)
    /\ num[c] \notin unanswered => Due(c) \/ results # <<>>

-----------------------------------------------------------------------------
(* Sequences of lines *)

LEMMA Bounds ==
  /\ ResultBuffer \in Nat \ {0} /\ ResponseBuffer \in Nat \ {0} /\ Fields \in Nat \ {0}
  /\ MaxCommands \in Nat /\ MaxEvents \in Nat /\ MaxFaults \in Nat
  /\ NoLine \notin Line
BY CommandAssumption DEF NoLine, Line, LineKinds

LEMMA Received ==
  ASSUME NEW S, NEW s \in Seq(S), s # <<>>
  PROVE  Head(s) \in S /\ Tail(s) \in Seq(S) /\ Len(Tail(s)) <= Len(s)
BY HeadTailProperties, LenProperties

(* A channel takes an item or drops it; it is not empty afterwards.        *)
LEMMA Pushed ==
  ASSUME NEW S, NEW s \in Seq(S), NEW x \in S, NEW n \in Nat \ {0}
  PROVE  /\ Push(s, x, n) \in Seq(S) /\ Push(s, x, n) # <<>>
         /\ Len(s) <= n => Len(Push(s, x, n)) <= n
<1>1. Append(s, x) \in Seq(S) /\ Len(Append(s, x)) = Len(s) + 1 /\ Len(s) \in Nat
  BY AppendProperties, LenProperties
<1>2. CASE Len(s) < n
  BY <1>1, <1>2, EmptySeq DEF Push
<1>3. CASE ~(Len(s) < n)
  BY <1>1, <1>3, EmptySeq DEF Push
<1> QED  BY <1>2, <1>3

LEMMA NotEmptied ==
  ASSUME NEW S, NEW s \in Seq(S), NEW t \in Seq(S)
  PROVE  s \o t \in Seq(S) /\ (s # <<>> => s \o t # <<>>)
BY ConcatProperties, ConcatEqualIffEmpty

(* The answer to a command is of its number and ends in a line that ends   *)
(* the command.                                                            *)
AnswersTo(k, n) ==
  {l \in Line : l.of = n /\ l.kind # "event" /\ (l.kind = "address" => k = "address")}

LEMMA AnswerType ==
  ASSUME NEW k \in Kinds, NEW n \in Nat
  PROVE  /\ AnswerLines(k, n) \in Seq(AnswersTo(k, n))
         /\ L("fail", n) \in AnswersTo(k, n)
         /\ \E i \in 1..Len(AnswerLines(k, n)) :
              /\ AnswerLines(k, n)[i].of = n
              /\ AnswerLines(k, n)[i].kind \in {"ok", "fail", "okCR", "okValue", "address"}
<1> DEFINE S == AnswersTo(k, n)
           e == IF echoing THEN <<L("echo", n)>> ELSE <<>>
           a == IF k = "address" THEN <<L("address", n)>>
                ELSE IF k = "option" THEN <<L("okValue", n)>>
                ELSE IF k = "setOption" THEN <<L("okCR", n)>>
                ELSE IF k \in {"probe", "version"} THEN <<L("version", n), L("ok", n)>>
                ELSE <<L("ok", n)>>
           F(l) == l.of = n /\ l.kind \in {"ok", "fail", "okCR", "okValue", "address"}
<1>1. /\ \A j \in {"echo", "okValue", "okCR", "version", "ok", "fail"} : L(j, n) \in S
      /\ k = "address" => L("address", n) \in S
  BY DEF AnswersTo, L, Line, LineKinds
<1>2. e \in Seq(S)
  BY <1>1
<1>3. a \in Seq(S) /\ Len(a) \in Nat
  BY <1>1
<1>4. \E i \in 1..Len(a) : F(a[i])
  <2>1. CASE k \in {"probe", "version"}
    BY <2>1 DEF L
  <2>2. CASE k \notin {"probe", "version"}
    BY <2>2 DEF L
  <2> QED  BY <2>1, <2>2
<1>5. AnswerLines(k, n) = e \o a
  BY DEF AnswerLines
<1>6. PICK i \in 1..Len(a) : F(a[i])
  BY <1>4
<1>7. /\ Len(e \o a) = Len(e) + Len(a) /\ Len(e) \in Nat
      /\ (e \o a)[Len(e) + i] = a[i] /\ e \o a \in Seq(S)
  BY <1>2, <1>3, <1>6, ConcatProperties, LenProperties
<1>8. Len(e) + i \in 1..Len(e \o a)
  BY <1>3, <1>6, <1>7
<1> QED  BY <1>1, <1>5, <1>6, <1>7, <1>8

LEMMA BlockType ==
  /\ Block \in Seq({l \in Line : Foreign(l)})
  /\ Front(Block) \in Seq({l \in Line : Foreign(l)})
  /\ L("event", 0) \in {l \in Line : Foreign(l)}
<1> DEFINE S == {l \in Line : Foreign(l)}
           f == [i \in 1..Fields |-> L("field", 0)]
<1>1. \A j \in {"event", "epandesc", "field"} : L(j, 0) \in S
  BY DEF L, Line, LineKinds, Foreign
<1>2. f \in Seq(S)
  BY <1>1, IsASeq, Bounds
<1>3. <<L("epandesc", 0)>> \in Seq(S)
  BY <1>1
<1>4. Block \in Seq(S)
  BY <1>2, <1>3, ConcatProperties DEF Block
<1>5. Len(Block) \in Nat
  BY <1>4, LenProperties
<1>6. Front(Block) \in Seq(S)
  <2>1. CASE Len(Block) = 0
    BY <1>4, <2>1, SubSeqEmpty, EmptySeq DEF Front
  <2>2. CASE Len(Block) # 0
    <3>1. \A i \in 1..(Len(Block) - 1) : i \in 1..Len(Block)
      BY <1>5
    <3> QED  BY <1>4, <1>5, <2>2, <3>1, SubSeqProperties DEF Front
  <2> QED  BY <2>1, <2>2
<1> QED  BY <1>1, <1>4, <1>6

-----------------------------------------------------------------------------
(* Type correctness *)

(* The callers that wait for cmdMu, before one more waits or one has it.   *)
LEMMA LockingCount ==
  /\ IsFiniteSet(Locking) /\ Cardinality(Locking) \in Nat
  /\ \A c \in Locking : Cardinality(Locking \ {c}) = Cardinality(Locking) - 1
  /\ \A c \in Callers : Cardinality(Locking \cup {c}) <= Cardinality(Locking) + 1
<1>1. IsFiniteSet({"manager"} \cup {"client"})
  BY FS_Singleton, FS_AddElement
<1>2. Callers = {"manager"} \cup {"client"}
  BY DEF Callers
<1>3. Locking \subseteq Callers
  BY DEF Locking
<1>4. IsFiniteSet(Locking)
  BY <1>1, <1>2, <1>3, FS_Subset
<1>5. Cardinality(Locking) \in Nat
  BY <1>4, FS_CardinalityType
<1> QED  BY <1>4, <1>5, FS_AddElement, FS_RemoveElement

LEMMA TypesImply == TypeInv => TypeOK
<1> SUFFICES ASSUME TypeInv PROVE TypeOK
  OBVIOUS
<1>1. written \in 0..MaxCommands
  BY LockingCount, Bounds DEF TypeInv, BoundsOK
<1>2. wire \in Seq(Line) /\ \A i \in 1..Len(todo) : todo[i].kind \in Kinds
  <2>1. wire \in Seq(Lines) /\ todo \in Seq(Todo)
    BY DEF TypeInv, ModuleOK
  <2>2. \A i \in 1..Len(wire) : wire[i] \in Line
    BY <2>1, ElementOfSeq DEF Lines
  <2>3. \A i \in 1..Len(todo) : todo[i] \in Todo
    BY <2>1, ElementOfSeq
  <2> QED  BY <2>1, <2>2, <2>3, LenProperties DEF Todo
<1> QED
  BY <1>1, <1>2 DEF TypeInv, CallersOK, ParserOK, LinesOK, FlagsOK, BoundsOK, TypeOK

LEMMA TypeInit == Init => TypeInv
<1> SUFFICES ASSUME Init PROVE TypeInv
  OBVIOUS
<1>1. CallersOK
  BY EmptySeq DEF Init, CallersOK, Kinds
<1>2. ParserOK
  BY Bounds DEF Init, ParserOK
<1>3. LinesOK /\ ModuleOK
  BY Bounds, EmptySeq DEF Init, Held, LinesOK, ModuleOK
<1>4. FlagsOK
  BY DEF Init, FlagsOK
<1>5. BoundsOK
  <2>1. Locking = {}
    BY DEF Init, Locking
  <2> QED  BY <2>1, Bounds, FS_EmptySet DEF Init, BoundsOK
<1> QED  BY <1>1, <1>2, <1>3, <1>4, <1>5 DEF TypeInv

LEMMA CallersStep == TypeInv /\ [Next]_vars => CallersOK'
<1> SUFFICES ASSUME TypeInv, [Next]_vars PROVE CallersOK'
  OBVIOUS
<1> USE DEF callers
<1>0. CallersOK
  BY DEF TypeInv
<1>1. ASSUME NEW c \in Callers, Begin(c) PROVE CallersOK'
  <2>1. kind' \in [Callers -> Kinds] /\ script' \in Seq(Kinds)
    <3>1. CASE c = "client"
      BY <1>0, <1>1, <3>1 DEF Begin, CallersOK, Kinds
    <3>2. CASE c # "client"
      <4>1. PICK s \in IF script = <<>> THEN Scripts ELSE {script} :
              kind' = [kind EXCEPT ![c] = Head(s)] /\ script' = Tail(s)
        BY <1>1, <3>2 DEF Begin
      <4>2. s \in Seq(Kinds) /\ s # <<>>
        BY <1>0, <4>1, CommandAssumption DEF CallersOK
      <4>3. Head(s) \in Kinds /\ Tail(s) \in Seq(Kinds)
        BY <4>2, Received
      <4> QED  BY <1>0, <4>1, <4>3 DEF CallersOK
    <3> QED  BY <3>1, <3>2
  <2> QED  BY <1>0, <1>1, <2>1, EmptySeq DEF Begin, CallersOK
<1>2. ASSUME NEW c \in Callers, Write(c) PROVE CallersOK'
  <2>1. Quiet \in BOOLEAN /\ written + 1 \in Nat
    BY DEF Quiet, TypeInv, BoundsOK
  <2> QED  BY <1>0, <1>2, <2>1 DEF Write, CallersOK
<1>3. ASSUME NEW c \in Callers, SkipEcho(c) PROVE CallersOK'
  BY <1>0, <1>3 DEF SkipEcho, CallersOK
<1>4. ASSUME NEW c \in Callers, NEW f \in BOOLEAN, Return(c, f),
             result' \in [Callers -> Line \cup {NoLine}],
             response' \in [Callers -> Seq(Line)]
      PROVE  CallersOK'
  <2>1. script' \in Seq(Kinds)
    <3>1. <<"probe">> \in Seq(Kinds) /\ script \in Seq(Kinds)
      BY <1>0 DEF CallersOK, Kinds
    <3>2. <<"probe">> \o script \in Seq(Kinds)
      BY <3>1, ConcatProperties
    <3> QED  BY <1>4, <3>1, <3>2, EmptySeq DEF Return
  <2> QED  BY <1>0, <1>4, <2>1 DEF Return, CallersOK
<1>5. ASSUME NEW c \in Callers, TakeResult(c) PROVE CallersOK'
  <2>1. Head(results) \in Line /\ responses \in Seq(Line)
    BY <1>5, Received DEF TakeResult, TypeInv, LinesOK
  <2>2. /\ result' \in [Callers -> Line \cup {NoLine}]
        /\ response' \in [Callers -> Seq(Line)]
    BY <1>0, <1>5, <2>1 DEF TakeResult, CallersOK
  <2>3. Return(c, Head(results).kind = "fail")
    BY <1>5 DEF TakeResult
  <2> QED  BY <1>4, <2>2, <2>3
<1>6. ASSUME NEW c \in Callers, GiveUp(c) PROVE CallersOK'
  <2>1. /\ result' \in [Callers -> Line \cup {NoLine}]
        /\ response' \in [Callers -> Seq(Line)]
    BY <1>0, <1>6 DEF GiveUp, CallersOK
  <2> QED  BY <1>4, <1>6, <2>1 DEF GiveUp
<1>7. ASSUME UNCHANGED callers PROVE CallersOK'
  BY <1>0, <1>7 DEF CallersOK
<1>8. CASE ReaderStep \/ ModuleAnswers \/ ScanReports \/ Unasked \/ UNCHANGED vars
  BY <1>7, <1>8 DEF ReaderStep, ReadLine, ReadState, ProcessLine, Settle,
     ModuleAnswers, ScanReports, Unasked, Outside, vars
<1> QED  BY <1>1, <1>2, <1>3, <1>5, <1>6, <1>8 DEF Next, CallerStep

LEMMA ParserStep == TypeInv /\ [Next]_vars => ParserOK'
<1> SUFFICES ASSUME TypeInv, [Next]_vars PROVE ParserOK'
  OBVIOUS
<1> USE DEF parser, reader
<1>0. ParserOK /\ Fields \in Nat \ {0}
  BY Bounds DEF TypeInv
<1>1. ASSUME NEW c \in Callers, Write(c) PROVE ParserOK'
  BY <1>0, <1>1 DEF Write, ModeOf, ParserOK
<1>2. CASE ReadLine
  BY <1>0, <1>2 DEF ReadLine, ParserOK
<1>r. CASE ReadState
  BY <1>0, <1>r DEF ReadState, ParserOK
<1>3. CASE ProcessLine
  <2>1. UNCHANGED seen /\ rd = "process"
    BY <1>3 DEF ProcessLine
  <2>2. CASE ProcessNormal
    BY <1>0, <2>1, <2>2 DEF ProcessNormal, AsNormal, ParserOK
  <2>3. CASE ProcessEpandesc
    BY <1>0, <2>1, <2>3 DEF ProcessEpandesc, ParserOK
  <2>4. CASE LeaveEpandesc
    BY <1>0, <2>1, <2>4 DEF LeaveEpandesc, ParserOK
  <2>5. CASE ProcessAddress \/ ProcessProduct
    BY <1>0, <2>1, <2>5 DEF ProcessAddress, ProcessProduct, ParserOK
  <2> QED  BY <1>3, <2>2, <2>3, <2>4, <2>5 DEF ProcessLine
<1>4. CASE Settle
  BY <1>0, <1>4 DEF Settle, ParserOK
<1>5. ASSUME UNCHANGED <<state, fields, rd, seen>> PROVE ParserOK'
  BY <1>0, <1>5 DEF ParserOK
<1>6. ASSUME NEW c \in Callers, Begin(c) \/ SkipEcho(c) \/ TakeResult(c) \/ GiveUp(c)
      PROVE  ParserOK'
  BY <1>5, <1>6 DEF Begin, SkipEcho, TakeResult, GiveUp, Return
<1>7. CASE ModuleAnswers \/ ScanReports \/ Unasked \/ UNCHANGED vars
  BY <1>5, <1>7 DEF ModuleAnswers, ScanReports, Unasked, Outside, vars
<1> QED  BY <1>1, <1>2, <1>r, <1>3, <1>4, <1>6, <1>7 DEF Next, CallerStep, ReaderStep

LEMMA LinesStep == TypeInv /\ [Next]_vars => LinesOK'
<1> SUFFICES ASSUME TypeInv, [Next]_vars PROVE LinesOK'
  OBVIOUS
<1> USE DEF channels, reader
<1>0. LinesOK /\ ResultBuffer \in Nat \ {0} /\ ResponseBuffer \in Nat \ {0}
  BY Bounds DEF TypeInv
<1>a. \A x \in Line : /\ Push(results, x, ResultBuffer) \in Seq(Line)
                      /\ Len(Push(results, x, ResultBuffer)) <= ResultBuffer
                      /\ Push(responses, x, ResponseBuffer) \in Seq(Line)
                      /\ Len(Push(responses, x, ResponseBuffer)) <= ResponseBuffer
  BY <1>0, Pushed DEF LinesOK
<1>b. <<>> \in Seq(Line) /\ Len(<<>>) = 0 /\ 0 <= ResultBuffer /\ 0 <= ResponseBuffer
  BY <1>0, EmptySeq
<1>1. ASSUME NEW c \in Callers, Write(c) PROVE LinesOK'
  BY <1>0, <1>1, <1>b DEF Write, DrainResponses, LinesOK, Held
<1>2. ASSUME NEW c \in Callers, SkipEcho(c) PROVE LinesOK'
  <2>1. \/ responses' = responses
        \/ responses # <<>> /\ responses' = Tail(responses)
        \/ responses # <<>> /\ responses' = Push(Tail(responses), Head(responses), ResponseBuffer)
    <3>1. CASE responses # <<>>
      <4>1. CASE Head(responses).kind = "echo" /\ Head(responses).of = num[c]
        BY <1>2, <3>1, <4>1 DEF SkipEcho
      <4>2. CASE ~(Head(responses).kind = "echo" /\ Head(responses).of = num[c])
        BY <1>2, <3>1, <4>2 DEF SkipEcho
      <4> QED  BY <4>1, <4>2
    <3>2. CASE responses = <<>>
      BY <1>2, <3>2 DEF SkipEcho
    <3> QED  BY <3>1, <3>2
  <2>2. responses # <<>> => /\ Tail(responses) \in Seq(Line) /\ Head(responses) \in Line
                            /\ Len(Tail(responses)) <= ResponseBuffer
    BY <1>0, Received, LenProperties DEF LinesOK
  <2>3. responses' \in Seq(Line) /\ Len(responses') <= ResponseBuffer
    BY <1>0, <2>1, <2>2, Pushed DEF LinesOK
  <2> QED  BY <1>0, <1>2, <2>3 DEF SkipEcho, LinesOK, Held
<1>3. ASSUME NEW c \in Callers, TakeResult(c) PROVE LinesOK'
  <2>1. Tail(results) \in Seq(Line) /\ Len(Tail(results)) <= ResultBuffer
    BY <1>0, <1>3, Received, LenProperties DEF TakeResult, LinesOK
  <2> QED  BY <1>0, <1>3, <1>b, <2>1 DEF TakeResult, Return, LinesOK, Held
<1>4. CASE ReadLine
  <2>1. wire # <<>> => Head(wire) \in Line
    BY Received DEF TypeInv, ModuleOK, Lines
  <2>2. UNCHANGED <<results, responses>>
    BY <1>4 DEF ReadLine
  <2>3. /\ line' \in Line \cup {NoLine} /\ (Held' => line' \in Line)
        /\ partial' \in Line \cup {NoLine} /\ (partial' # NoLine => EndsInCR(partial'))
    BY <1>0, <1>4, <2>1 DEF ReadLine, LinesOK, Held
  <2> QED  BY <1>0, <2>2, <2>3 DEF LinesOK
<1>5. CASE ProcessLine
  <2>1. /\ line \in Line /\ line' = NoLine /\ ~Held' /\ UNCHANGED partial
        /\ [kind |-> "ok", of |-> line.of] \in Line
    BY <1>0, <1>5 DEF ProcessLine, ProcessNormal, AsNormal, ProcessEpandesc, LeaveEpandesc,
       ProcessAddress, ProcessProduct, LinesOK, Held, Line, LineKinds
  <2>2. /\ \/ results' = results
           \/ \E x \in Line : results' = Push(results, x, ResultBuffer)
        /\ responses' = responses \/ responses' = Push(responses, line, ResponseBuffer)
    <3>1. CASE ProcessNormal \/ LeaveEpandesc
      BY <2>1, <3>1 DEF ProcessNormal, AsNormal, LeaveEpandesc
    <3>2. CASE ProcessEpandesc
      BY <3>2 DEF ProcessEpandesc
    <3>3. CASE ProcessAddress \/ ProcessProduct
      BY <2>1, <3>3 DEF ProcessAddress, ProcessProduct
    <3> QED  BY <1>5, <3>1, <3>2, <3>3 DEF ProcessLine
  <2>3. results' \in Seq(Line) /\ Len(results') <= ResultBuffer
    BY <1>0, <1>a, <2>2 DEF LinesOK
  <2>4. responses' \in Seq(Line) /\ Len(responses') <= ResponseBuffer
    BY <1>0, <1>a, <2>1, <2>2 DEF LinesOK
  <2> QED  BY <1>0, <2>1, <2>3, <2>4 DEF LinesOK
<1>6. ASSUME UNCHANGED <<line, partial, results, responses>>, Held' => Held
      PROVE  LinesOK'
  BY <1>0, <1>6 DEF LinesOK
<1>7. ASSUME NEW c \in Callers, Begin(c) \/ GiveUp(c) PROVE LinesOK'
  BY <1>6, <1>7 DEF Begin, GiveUp, Return, Held
<1>8. CASE ReadState \/ Settle \/ ModuleAnswers \/ ScanReports \/ Unasked \/ UNCHANGED vars
  BY <1>6, <1>8 DEF Held, ReadState, Settle, ModuleAnswers, ScanReports, Unasked, Outside, vars
<1> QED  BY <1>1, <1>2, <1>3, <1>4, <1>5, <1>7, <1>8 DEF Next, CallerStep, ReaderStep

LEMMA ModuleStep == TypeInv /\ [Next]_vars => ModuleOK' /\ FlagsOK'
<1> SUFFICES ASSUME TypeInv, [Next]_vars PROVE ModuleOK' /\ FlagsOK'
  OBVIOUS
<1> USE DEF module, parser
<1>0. /\ wire \in Seq(Lines) /\ todo \in Seq(Todo)
      /\ \A i \in 1..Len(todo) : todo[i].of \in 1..written
      /\ FlagsOK /\ written \in Nat
  BY DEF TypeInv, ModuleOK, BoundsOK
<1>a. ASSUME UNCHANGED <<wire, todo, written, cr, echo, echoing, scanning>>
      PROVE  ModuleOK' /\ FlagsOK'
  BY <1>0, <1>a DEF ModuleOK, FlagsOK
<1>1. ASSUME NEW c \in Callers, Write(c) PROVE ModuleOK' /\ FlagsOK'
  <2>1. [kind |-> kind[c], of |-> written + 1] \in Todo
    BY <1>0 DEF TypeInv, CallersOK, Todo
  <2>2. /\ todo' = Append(todo, [kind |-> kind[c], of |-> written + 1]) /\ written' = written + 1
        /\ wire' = <<>> \/ wire' = wire
        /\ UNCHANGED <<echoing, scanning>> /\ UNCHANGED echo
        /\ cr' = (kind[c] \in {"option", "setOption"})
    BY <1>1 DEF Write
  <2>3. todo' \in Seq(Todo) /\ wire' \in Seq(Lines)
    BY <1>0, <2>1, <2>2, AppendProperties, EmptySeq
  <2>4. \A i \in 1..Len(todo') : todo'[i].of \in 1..written'
    <3>1. /\ Len(todo') = Len(todo) + 1 /\ todo'[Len(todo) + 1].of = written + 1
          /\ \A i \in 1..Len(todo) : todo'[i] = todo[i]
          /\ Len(todo) \in Nat
      BY <1>0, <2>1, <2>2, AppendProperties, LenProperties
    <3> QED  BY <1>0, <2>2, <3>1
  <2>5. FlagsOK'
    <3>1. echo' \in BOOLEAN /\ echoing' \in BOOLEAN /\ scanning' \in BOOLEAN
      BY <1>0, <2>2 DEF FlagsOK
    <3>2. cr' \in BOOLEAN
      BY <2>2
    <3> QED  BY <3>1, <3>2 DEF FlagsOK
  <2> QED  BY <2>3, <2>4, <2>5 DEF ModuleOK
<1>2. ASSUME NEW c \in Callers, SkipEcho(c) \/ TakeResult(c) \/ GiveUp(c)
      PROVE  ModuleOK' /\ FlagsOK'
  BY <1>a, <1>2 DEF SkipEcho, TakeResult, GiveUp, Return, bounds
<1>3. ASSUME NEW c \in Callers, Begin(c) PROVE ModuleOK' /\ FlagsOK'
  <2>1. UNCHANGED <<wire, todo, written, cr, echoing, scanning>> /\ echo' \in BOOLEAN
    BY <1>0, <1>3 DEF Begin, StoresEcho, FlagsOK
  <2> QED  BY <1>0, <2>1 DEF ModuleOK, FlagsOK
<1>4. CASE ReadLine
  <2>1. UNCHANGED <<todo, written, cr, echo, echoing, scanning>>
    BY <1>4 DEF ReadLine, bounds
  <2>2. wire' \in Seq(Lines)
    BY <1>0, <1>4, Received DEF ReadLine
  <2> QED  BY <1>0, <2>1, <2>2 DEF ModuleOK, FlagsOK
<1>5. CASE ReadState \/ ProcessLine \/ Settle \/ UNCHANGED vars
  BY <1>a, <1>5 DEF ReadState, ProcessLine, Settle, bounds, vars
<1>6. CASE ModuleAnswers
  <2> DEFINE k == Head(todo).kind
             n == Head(todo).of
  <2>1. /\ todo # <<>> /\ todo' = Tail(todo) /\ UNCHANGED <<written, cr, echo>>
        /\ \/ wire' = wire \o AnswerLines(k, n)
           \/ wire' = Append(wire, L("fail", n))
           \/ UNCHANGED wire
        /\ echoing' \in BOOLEAN /\ scanning' \in BOOLEAN
    BY <1>0, <1>6 DEF ModuleAnswers, Outside, FlagsOK
  <2>2. Head(todo) \in Todo /\ todo' \in Seq(Todo)
    BY <1>0, <2>1, Received
  <2>3. AnswerLines(k, n) \in Seq(AnswersTo(k, n)) /\ L("fail", n) \in AnswersTo(k, n)
    BY <2>2, AnswerType DEF Todo
  <2>4. AnswersTo(k, n) \subseteq Lines
    BY DEF AnswersTo, Lines
  <2>5. AnswerLines(k, n) \in Seq(Lines) /\ L("fail", n) \in Lines
    BY <2>3, <2>4, SeqMonotonic
  <2>6. wire' \in Seq(Lines)
    <3>1. wire \o AnswerLines(k, n) \in Seq(Lines)
      BY <1>0, <2>5, ConcatProperties
    <3>2. Append(wire, L("fail", n)) \in Seq(Lines)
      BY <1>0, <2>5, AppendProperties
    <3> QED  BY <1>0, <2>1, <3>1, <3>2
  <2>7. \A i \in 1..Len(todo') : todo'[i].of \in 1..written'
    <3>1. /\ Len(todo) \in Nat \ {0} /\ Len(todo') = Len(todo) - 1
          /\ \A i \in 1..Len(todo') : todo'[i] = todo[i + 1]
      BY <1>0, <2>1, HeadTailProperties, EmptySeq
    <3> QED  BY <1>0, <2>1, <3>1
  <2> QED  BY <1>0, <2>1, <2>2, <2>6, <2>7 DEF ModuleOK, FlagsOK
<1>7. CASE ScanReports \/ Unasked
  <2>1. /\ \/ wire' = (wire \o Block) \o <<L("event", 0)>>
           \/ wire' = (wire \o Front(Block)) \o <<L("event", 0)>>
           \/ wire' = Append(wire, L("event", 0))
        /\ UNCHANGED <<todo, written, cr, echo, echoing>> /\ scanning' \in BOOLEAN
    BY <1>0, <1>7 DEF ScanReports, Unasked, Outside, FlagsOK
  <2>2. {l \in Line : Foreign(l)} \subseteq Lines
    BY DEF Foreign, Lines
  <2>3. Block \in Seq(Lines) /\ Front(Block) \in Seq(Lines) /\ L("event", 0) \in Lines
    BY <2>2, BlockType, SeqMonotonic
  <2>4. <<L("event", 0)>> \in Seq(Lines)
    BY <2>3
  <2>5. wire' \in Seq(Lines)
    <3>1. wire \o Block \in Seq(Lines) /\ wire \o Front(Block) \in Seq(Lines)
      BY <1>0, <2>3, ConcatProperties
    <3>2. /\ (wire \o Block) \o <<L("event", 0)>> \in Seq(Lines)
          /\ (wire \o Front(Block)) \o <<L("event", 0)>> \in Seq(Lines)
      BY <2>4, <3>1, ConcatProperties
    <3>3. Append(wire, L("event", 0)) \in Seq(Lines)
      BY <1>0, <2>3, AppendProperties
    <3> QED  BY <2>1, <3>2, <3>3
  <2> QED  BY <1>0, <2>1, <2>5 DEF ModuleOK, FlagsOK
<1> QED  BY <1>1, <1>2, <1>3, <1>4, <1>5, <1>6, <1>7 DEF Next, CallerStep, ReaderStep

LEMMA BoundsStep == TypeInv /\ [Next]_vars => BoundsOK'
<1> SUFFICES ASSUME TypeInv, [Next]_vars PROVE BoundsOK'
  OBVIOUS
<1> USE DEF bounds, callers, module
<1>0. BoundsOK /\ CallersOK /\ MaxCommands \in Nat /\ MaxEvents \in Nat /\ MaxFaults \in Nat
  BY Bounds DEF TypeInv
<1>a. ASSUME faults' = faults \/ Fault PROVE faults' \in 0..MaxFaults
  BY <1>0, <1>a DEF Fault, BoundsOK
<1>b. ASSUME UNCHANGED <<written, unanswered, events>>, faults' = faults \/ Fault,
             Locking' = Locking
      PROVE  BoundsOK'
  BY <1>0, <1>a, <1>b DEF BoundsOK
<1>1. ASSUME NEW c \in Callers, Begin(c) PROVE BoundsOK'
  <2>1. /\ Locking' = Locking \cup {c}
        /\ written + Cardinality(Locking) < MaxCommands
        /\ UNCHANGED <<written, unanswered, events>> /\ (faults' = faults \/ Fault)
    BY <1>0, <1>1 DEF Begin, Locking, CallersOK
  <2>2. Cardinality(Locking') <= Cardinality(Locking) + 1 /\ Cardinality(Locking') \in Nat
    <3>1. IsFiniteSet(Locking')
      BY <2>1, LockingCount, FS_AddElement
    <3> QED  BY <2>1, <3>1, LockingCount, FS_CardinalityType
  <2> QED  BY <1>0, <1>a, <2>1, <2>2, LockingCount DEF BoundsOK
<1>2. ASSUME NEW c \in Callers, Write(c) PROVE BoundsOK'
  <2>1. c \in Locking /\ Locking' = Locking \ {c} /\ written' = written + 1
        /\ UNCHANGED <<unanswered, events, faults>>
    BY <1>0, <1>2 DEF Write, Locking, CallersOK
  <2> QED  BY <1>0, <2>1, LockingCount DEF BoundsOK
<1>3. ASSUME NEW c \in Callers, SkipEcho(c) \/ TakeResult(c) \/ GiveUp(c) PROVE BoundsOK'
  <2>1. Locking' = Locking
    BY <1>0, <1>3 DEF SkipEcho, TakeResult, GiveUp, Return, Locking, CallersOK
  <2> QED  BY <1>b, <1>3, <2>1 DEF SkipEcho, TakeResult, GiveUp, Return
<1>4. CASE ReaderStep \/ UNCHANGED vars
  BY <1>b, <1>4 DEF ReaderStep, ReadLine, ReadState, ProcessLine, Settle, vars, Locking
<1>5. CASE ModuleAnswers
  <2>1. /\ UNCHANGED <<written, events, pc>> /\ (faults' = faults \/ Fault) /\ todo # <<>>
        /\ unanswered' = unanswered \/ unanswered' = unanswered \cup {Head(todo).of}
    BY <1>5 DEF ModuleAnswers, Outside
  <2>2. Head(todo).of \in 1..written
    <3>1. todo \in Seq(Todo) /\ \A i \in 1..Len(todo) : todo[i].of \in 1..written
      BY DEF TypeInv, ModuleOK
    <3> QED  BY <2>1, <3>1, HeadTailProperties, EmptySeq
  <2>3. Head(todo).of \in 1..MaxCommands
    BY <1>0, <2>2, LockingCount DEF BoundsOK
  <2> QED  BY <1>0, <1>a, <2>1, <2>3 DEF BoundsOK, Locking
<1>6. CASE ScanReports \/ Unasked
  <2>1. /\ UNCHANGED <<written, unanswered, pc>> /\ (faults' = faults \/ Fault)
        /\ events' = events \/ (events > 0 /\ events' = events - 1)
    BY <1>6 DEF ScanReports, Unasked, Outside
  <2> QED  BY <1>0, <1>a, <2>1 DEF BoundsOK, Locking
<1> QED  BY <1>1, <1>2, <1>3, <1>4, <1>5, <1>6 DEF Next, CallerStep

LEMMA TypeStep == TypeInv /\ [Next]_vars => TypeInv'
BY CallersStep, ParserStep, LinesStep, ModuleStep, BoundsStep DEF TypeInv

(* Every variable keeps its type: in particular the channels stay within   *)
(* their capacity and a block within its lines, wherever the parser's      *)
(* state is switched.                                                      *)
THEOREM CommandTypeCorrect == Spec => []TypeOK
BY TypesImply, TypeInit, TypeStep, PTL DEF Spec

-----------------------------------------------------------------------------
(* A result is the command's own. *)

ResultInv == Exclusive /\ NoResultYet /\ OwnResult /\ OwnInv

LEMMA ResultInit == Init => ResultInv
<1> SUFFICES ASSUME Init PROVE ResultInv
  OBVIOUS
<1>1. \A c \in Callers : pc[c] = "idle" /\ ~Busy(c) /\ result[c] = NoLine /\ cmdMu # c
  BY DEF Init, Busy, Callers, Nobody
<1> QED  BY <1>1 DEF ResultInv, Exclusive, NoResultYet, OwnResult, OwnInv

(* Who is where, and who has which result.                                 *)
LEMMA ExclusiveStep ==
  ASSUME TypeInv, ResultInv, [Next]_vars
  PROVE  Exclusive' /\ NoResultYet'
<1> USE DEF callers
<1>0. /\ cmdMu \in Callers \cup {Nobody} /\ Nobody \notin Callers
      /\ pc \in [Callers -> {"idle", "lock", "echo", "wait"}]
      /\ result \in [Callers -> Line \cup {NoLine}]
      /\ \A c \in Callers : Busy(c) <=> cmdMu = c
      /\ \A c \in Callers : pc[c] # "idle" => result[c] = NoLine
  BY DEF TypeInv, CallersOK, ResultInv, Exclusive, NoResultYet, Callers, Nobody
<1>1. ASSUME NEW c \in Callers, Begin(c) PROVE Exclusive' /\ NoResultYet'
  BY <1>0, <1>1 DEF Begin, Exclusive, NoResultYet, Busy
<1>2. ASSUME NEW c \in Callers, Write(c) PROVE Exclusive' /\ NoResultYet'
  BY <1>0, <1>2 DEF Write, Exclusive, NoResultYet, Busy
<1>3. ASSUME NEW c \in Callers, SkipEcho(c) PROVE Exclusive' /\ NoResultYet'
  BY <1>0, <1>3 DEF SkipEcho, Exclusive, NoResultYet, Busy
<1>4. ASSUME NEW c \in Callers, TakeResult(c) \/ GiveUp(c) PROVE Exclusive' /\ NoResultYet'
  <2>1. /\ pc[c] = "wait" /\ pc' = [pc EXCEPT ![c] = "idle"] /\ cmdMu' = Nobody
        /\ \A d \in Callers : d # c => result'[d] = result[d]
    BY <1>0, <1>4 DEF TakeResult, GiveUp, Return
  <2> QED  BY <1>0, <2>1 DEF Exclusive, NoResultYet, Busy
<1>5. ASSUME UNCHANGED callers PROVE Exclusive' /\ NoResultYet'
  BY <1>0, <1>5 DEF Exclusive, NoResultYet, Busy
<1>6. CASE ReaderStep \/ ModuleAnswers \/ ScanReports \/ Unasked \/ UNCHANGED vars
  BY <1>5, <1>6 DEF ReaderStep, ReadLine, ReadState, ProcessLine, Settle,
     ModuleAnswers, ScanReports, Unasked, Outside, vars
<1> QED  BY <1>1, <1>2, <1>3, <1>4, <1>6 DEF Next, CallerStep

(* A result is taken from a channel that holds the command's own.          *)
LEMMA OwnResultStep ==
  ASSUME TypeInv, ResultInv, [Next]_vars
  PROVE  OwnResult'
<1> USE DEF callers
<1>0. CallersOK /\ OwnResult /\ NoLine \notin Line
  BY Bounds DEF TypeInv, ResultInv
<1>1. ASSUME NEW c \in Callers, Begin(c) PROVE OwnResult'
  <2>1. /\ result' = [result EXCEPT ![c] = NoLine] /\ UNCHANGED <<num, clean>>
        /\ \A d \in Callers : d # c => kind'[d] = kind[d]
    BY <1>0, <1>1 DEF Begin, CallersOK
  <2> QED  BY <1>0, <2>1 DEF OwnResult, CallersOK
<1>2. ASSUME NEW c \in Callers, Write(c) PROVE OwnResult'
  <2>1. /\ pc[c] = "lock" /\ UNCHANGED <<kind, result>>
        /\ \A d \in Callers : d # c => num'[d] = num[d] /\ clean'[d] = clean[d]
    BY <1>0, <1>2 DEF Write, CallersOK
  <2>2. result[c] = NoLine
    BY <2>1 DEF ResultInv, NoResultYet
  <2> QED  BY <1>0, <2>1, <2>2 DEF OwnResult
<1>3. ASSUME NEW c \in Callers, TakeResult(c) PROVE OwnResult'
  <2>1. /\ results # <<>> /\ result' = [result EXCEPT ![c] = Head(results)]
        /\ UNCHANGED <<kind, num, clean>> /\ Busy(c)
    BY <1>3 DEF TakeResult, Return, Busy
  <2>2. ASSUME clean[c]
        PROVE  \/ Head(results).of = num[c]
               \/ Head(results).of = 0 /\ kind[c] \in {"address", "option"}
    <3>1. results \in Seq(ResultsFor(c))
      BY <2>1, <2>2 DEF ResultInv, OwnInv, QuietStart
    <3>2. Head(results) \in ResultsFor(c)
      BY <2>1, <3>1, Received
    <3> QED  BY <3>2 DEF ResultsFor
  <2> QED  BY <1>0, <2>1, <2>2 DEF OwnResult, CallersOK
<1>4. ASSUME UNCHANGED <<kind, num, result, clean>> PROVE OwnResult'
  BY <1>0, <1>4 DEF OwnResult
<1>5. ASSUME NEW c \in Callers, SkipEcho(c) \/ GiveUp(c) PROVE OwnResult'
  BY <1>4, <1>5 DEF SkipEcho, GiveUp, Return
<1>6. CASE ReaderStep \/ ModuleAnswers \/ ScanReports \/ Unasked \/ UNCHANGED vars
  BY <1>4, <1>6 DEF ReaderStep, ReadLine, ReadState, ProcessLine, Settle,
     ModuleAnswers, ScanReports, Unasked, Outside, vars
<1> QED  BY <1>1, <1>2, <1>3, <1>5, <1>6 DEF Next, CallerStep

(* A command that is written on a quiet line finds nothing on it that      *)
(* could become a result.                                                  *)
LEMMA QuietWrite ==
  ASSUME TypeInv, NEW c \in Callers, Write(c), Quiet PROVE QuietStart(c)'
<1>1. /\ num'[c] = written + 1 /\ kind' = kind /\ kind[c] \in Kinds /\ written \in Nat
      /\ todo = <<>> /\ rd = "ready" /\ rd' = rd /\ partial = NoLine
      /\ wire' = <<>> \/ wire' = wire
      /\ partial' = NoLine /\ results' = <<>> /\ state' = ModeOf(kind[c])
      /\ todo' = Append(todo, [kind |-> kind[c], of |-> written + 1])
  BY DEF Write, Quiet, DrainResponses, TypeInv, CallersOK, BoundsOK, reader
<1>2. todo' \in Seq({t \in Todo : t.of = num'[c] /\ t.kind = kind'[c]})
  <2>1. [kind |-> kind[c], of |-> written + 1]
        \in {t \in Todo : t.of = num'[c] /\ t.kind = kind'[c]}
    BY <1>1 DEF Todo
  <2> QED  BY <1>1, <2>1, EmptySeq, AppendProperties
<1>3. wire' \in Seq(LinesFor(c)')
  <2>1. wire \in Seq(Lines) /\ \A i \in 1..Len(wire) : wire[i].kind = "event"
    BY DEF TypeInv, ModuleOK, Quiet
  <2>2. \A i \in 1..Len(wire) : wire[i] \in LinesFor(c)'
    BY <2>1, ElementOfSeq DEF Lines, LinesFor, Foreign
  <2>3. wire \in Seq(LinesFor(c)')
    BY <2>1, <2>2, LenProperties
  <2> QED  BY <1>1, <2>3, EmptySeq
<1>4. results' \in Seq(ResultsFor(c)')
  BY <1>1, EmptySeq
<1>5. state' \in ModesFor(c)'
  BY <1>1 DEF ModesFor, ModeOf
<1> QED  BY <1>1, <1>2, <1>3, <1>4, <1>5 DEF QuietStart, Held

(* What changes while a command waits: the steps that are not its own      *)
(* start or end.                                                           *)
LEMMA StillWaiting ==
  ASSUME TypeInv, Exclusive, [Next]_vars, NEW c \in Callers, Busy(c)', ~Write(c)
  PROVE  /\ Busy(c) /\ num'[c] = num[c] /\ kind'[c] = kind[c] /\ clean'[c] = clean[c]
         /\ \/ SkipEcho(c) \/ ReadLine \/ ReadState \/ ProcessLine \/ Settle
            \/ ModuleAnswers \/ ScanReports \/ Unasked
            \/ UNCHANGED <<parser, channels, reader, module>>
<1> USE DEF callers
<1>0. CallersOK /\ Nobody \notin Callers
  BY DEF TypeInv, Callers, Nobody
<1>1. ASSUME NEW d \in Callers, Write(d) PROVE FALSE
  <2>1. d # c /\ cmdMu = Nobody /\ pc'[c] = pc[c]
    BY <1>0, <1>1 DEF Write, CallersOK
  <2> QED  BY <1>0, <2>1 DEF Exclusive, Busy
<1>2. ASSUME NEW d \in Callers, TakeResult(d) \/ GiveUp(d) PROVE FALSE
  <2>1. pc[d] = "wait" /\ pc' = [pc EXCEPT ![d] = "idle"]
    BY <1>2 DEF TakeResult, GiveUp, Return
  <2>2. cmdMu = d /\ (c # d => cmdMu = c)
    BY <1>0, <2>1 DEF Exclusive, Busy, CallersOK
  <2> QED  BY <1>0, <2>1, <2>2 DEF Busy, CallersOK
<1>3. ASSUME NEW d \in Callers, Begin(d)
      PROVE  /\ Busy(c) /\ num'[c] = num[c] /\ kind'[c] = kind[c] /\ clean'[c] = clean[c]
             /\ UNCHANGED <<parser, channels, reader, module>>
  <2>1. /\ pc' = [pc EXCEPT ![d] = "lock"]
        /\ UNCHANGED <<num, clean, parser, channels, reader, module>>
        /\ \A e \in Callers : e # d => kind'[e] = kind[e]
    BY <1>0, <1>3 DEF Begin, CallersOK
  <2> QED  BY <1>0, <2>1 DEF Busy, CallersOK
<1>4. ASSUME NEW d \in Callers, SkipEcho(d)
      PROVE  /\ Busy(c) /\ num'[c] = num[c] /\ kind'[c] = kind[c] /\ clean'[c] = clean[c]
             /\ SkipEcho(c)
  <2>1. pc[d] = "echo" /\ pc' = [pc EXCEPT ![d] = "wait"] /\ UNCHANGED <<num, clean, kind>>
    BY <1>4 DEF SkipEcho
  <2>2. cmdMu = d /\ (c # d => cmdMu = c)
    BY <1>0, <2>1 DEF Exclusive, Busy, CallersOK
  <2> QED  BY <1>0, <1>4, <2>1, <2>2 DEF Busy
<1>5. ASSUME UNCHANGED callers
      PROVE  Busy(c) /\ num'[c] = num[c] /\ kind'[c] = kind[c] /\ clean'[c] = clean[c]
  BY <1>5 DEF Busy
<1>6. CASE ReaderStep \/ ModuleAnswers \/ ScanReports \/ Unasked
  BY <1>5, <1>6 DEF ReaderStep, ReadLine, ReadState, ProcessLine, Settle,
     ModuleAnswers, ScanReports, Unasked, Outside
<1>7. CASE UNCHANGED vars
  BY <1>5, <1>7 DEF vars
<1> QED  BY <1>1, <1>2, <1>3, <1>4, <1>6, <1>7 DEF Next, CallerStep

LEMMA OwnInvStep ==
  ASSUME TypeInv, ResultInv, [Next]_vars PROVE OwnInv'
<1> SUFFICES ASSUME NEW c \in Callers, Busy(c)', clean'[c] PROVE QuietStart(c)'
  BY DEF OwnInv
<1> DEFINE T == {t \in Todo : t.of = num[c] /\ t.kind = kind[c]}
<1>1. CASE Write(c)
  <2>1. Quiet
    BY <1>1 DEF Write, TypeInv, CallersOK
  <2> QED  BY <1>1, <2>1, QuietWrite
<1>2. CASE ~Write(c)
  <2>1. /\ Busy(c) /\ num'[c] = num[c] /\ kind'[c] = kind[c] /\ clean[c]
        /\ \/ SkipEcho(c) \/ ReadLine \/ ReadState \/ ProcessLine \/ Settle
           \/ ModuleAnswers \/ ScanReports \/ Unasked
           \/ UNCHANGED <<parser, channels, reader, module>>
    BY <1>2, StillWaiting DEF ResultInv
  <2>2. /\ todo \in Seq(T) /\ wire \in Seq(LinesFor(c)) /\ results \in Seq(ResultsFor(c))
        /\ Held => line \in LinesFor(c)
        /\ rd = "process" => seen \in ModesFor(c)
        /\ partial # NoLine => Own(c, partial)
        /\ state \in ModesFor(c)
    BY <2>1 DEF ResultInv, OwnInv, QuietStart
  <2>a. ASSUME todo' \in Seq(T), wire' \in Seq(LinesFor(c)), results' \in Seq(ResultsFor(c)),
               Held' => line' \in LinesFor(c), rd' = "process" => seen' \in ModesFor(c),
               partial' # NoLine => Own(c, partial'),
               state' \in ModesFor(c)
        PROVE  QuietStart(c)'
    BY <2>1, <2>a DEF QuietStart, LinesFor, ResultsFor, ModesFor, Own
  <2>3. CASE SkipEcho(c) \/ Settle \/ UNCHANGED <<parser, channels, reader, module>>
    <3>1. /\ UNCHANGED <<todo, wire, results, line, seen, partial>>
          /\ (Held' => Held) /\ (rd' = "process" => rd = "process")
          /\ state' = state \/ state' = "normal"
      BY <2>3 DEF Held, SkipEcho, Settle, parser, reader, module, channels
    <3> QED  BY <2>2, <2>a, <3>1 DEF ModesFor
  <2>4. CASE ReadLine
    <3>1. UNCHANGED <<todo, results, state>> /\ rd' # "process"
      BY <2>4 DEF ReadLine, parser, channels
    <3>2. wire # <<>> => Head(wire) \in LinesFor(c) /\ Tail(wire) \in Seq(LinesFor(c))
      BY <2>2, Received
    <3>3. partial # NoLine => partial \in LinesFor(c)
      BY <2>2 DEF TypeInv, LinesOK, LinesFor
    <3>4. wire' \in Seq(LinesFor(c))
      BY <2>2, <2>4, <3>2 DEF ReadLine
    <3>5. /\ Held' => line' \in LinesFor(c)
          /\ partial' # NoLine => Own(c, partial')
      <4>1. rd = "ready"
        BY <2>4 DEF ReadLine
      <4>2. CASE partial # NoLine
        BY <2>4, <3>3, <4>2 DEF ReadLine, Held
      <4>3. CASE partial = NoLine
        <5>1. wire # <<>>
          BY <2>4, <4>3 DEF ReadLine
        <5>2. EndsInCR(Head(wire)) => Own(c, Head(wire))
          BY <3>2, <5>1 DEF EndsInCR, LinesFor, Foreign
        <5> QED  BY <2>4, <3>2, <4>1, <4>3, <5>1, <5>2 DEF ReadLine, Held
      <4> QED  BY <4>2, <4>3
    <3> QED  BY <2>2, <2>a, <3>1, <3>4, <3>5
  <2>r. CASE ReadState
    BY <2>2, <2>a, <2>r DEF ReadState, Held, parser, channels, module
  <2>5. CASE ProcessLine
    <3>1. /\ UNCHANGED <<todo, wire, partial>> /\ ~Held' /\ rd' # "process"
          /\ line \in LinesFor(c) /\ seen \in ModesFor(c) /\ line \in Line
      BY <2>2, <2>5 DEF ProcessLine, ProcessNormal, AsNormal, ProcessEpandesc, LeaveEpandesc,
         ProcessAddress, ProcessProduct, module, TypeInv, LinesOK, Held
    <3>2. ResultBuffer \in Nat \ {0}
      BY Bounds
    <3>3. \A x \in ResultsFor(c) : Push(results, x, ResultBuffer) \in Seq(ResultsFor(c))
      BY <2>2, <3>2, Pushed
    <3>4. Ok(line) \/ line.kind = "fail" => line \in ResultsFor(c)
      BY <3>1 DEF Ok, LinesFor, Foreign, Own, ResultsFor
    <3>5. results' \in Seq(ResultsFor(c)) /\ state' \in ModesFor(c)
      <4>1. CASE ProcessNormal \/ LeaveEpandesc
        BY <2>2, <3>3, <3>4, <4>1 DEF ProcessNormal, AsNormal, LeaveEpandesc, ModesFor
      <4>2. CASE ProcessEpandesc
        BY <2>2, <4>2 DEF ProcessEpandesc, channels, ModesFor
      <4>3. CASE ProcessAddress
        <5>1. kind[c] = "address"
          BY <3>1, <4>3 DEF ProcessAddress, ModesFor, ModeOf
        <5>2. [kind |-> "ok", of |-> line.of] \in ResultsFor(c)
          BY <3>1, <5>1 DEF LinesFor, Own, Foreign, ResultsFor, Line, LineKinds
        <5> QED  BY <2>2, <3>3, <3>4, <4>3, <5>2 DEF ProcessAddress
      <4>4. CASE ProcessProduct
        <5>1. kind[c] = "option"
          BY <3>1, <4>4 DEF ProcessProduct, ModesFor, ModeOf
        <5>2. line \in ResultsFor(c)
          BY <3>1, <5>1 DEF LinesFor, Own, Foreign, ResultsFor
        <5> QED  BY <2>2, <3>3, <4>4, <5>2 DEF ProcessProduct
      <4> QED  BY <2>5, <4>1, <4>2, <4>3, <4>4 DEF ProcessLine
    <3> QED  BY <2>2, <2>a, <3>1, <3>5
  <2>6. CASE ModuleAnswers \/ ScanReports \/ Unasked
    <3>1. UNCHANGED <<results, line, seen, rd, partial, state>>
      BY <2>6 DEF ModuleAnswers, ScanReports, Unasked, Outside, parser, channels, reader
    <3>2. todo' \in Seq(T) /\ wire' \in Seq(LinesFor(c))
      <4>1. CASE ModuleAnswers
        <5> DEFINE k == Head(todo).kind
                   n == Head(todo).of
        <5>1. /\ todo # <<>> /\ todo' = Tail(todo)
              /\ \/ wire' = wire \o AnswerLines(k, n)
                 \/ wire' = Append(wire, L("fail", n))
                 \/ UNCHANGED wire
          BY <4>1 DEF ModuleAnswers
        <5>2. Head(todo) \in T /\ todo' \in Seq(T)
          BY <2>2, <5>1, Received
        <5>3. AnswerLines(k, n) \in Seq(AnswersTo(k, n)) /\ L("fail", n) \in AnswersTo(k, n)
          BY <5>2, AnswerType DEF Todo
        <5>4. AnswersTo(k, n) \subseteq LinesFor(c)
          BY <5>2 DEF AnswersTo, LinesFor, Own
        <5>5. AnswerLines(k, n) \in Seq(LinesFor(c)) /\ L("fail", n) \in LinesFor(c)
          BY <5>3, <5>4, SeqMonotonic
        <5>6. /\ wire \o AnswerLines(k, n) \in Seq(LinesFor(c))
              /\ Append(wire, L("fail", n)) \in Seq(LinesFor(c))
          BY <2>2, <5>5, ConcatProperties, AppendProperties
        <5> QED  BY <2>2, <5>1, <5>2, <5>6
      <4>2. CASE ScanReports \/ Unasked
        <5>1. {l \in Line : Foreign(l)} \subseteq LinesFor(c)
          BY DEF LinesFor
        <5>2. /\ Block \in Seq(LinesFor(c)) /\ Front(Block) \in Seq(LinesFor(c))
              /\ L("event", 0) \in LinesFor(c)
          BY <5>1, BlockType, SeqMonotonic
        <5>3. <<L("event", 0)>> \in Seq(LinesFor(c))
          BY <5>2
        <5>4. /\ (wire \o Block) \o <<L("event", 0)>> \in Seq(LinesFor(c))
              /\ (wire \o Front(Block)) \o <<L("event", 0)>> \in Seq(LinesFor(c))
              /\ Append(wire, L("event", 0)) \in Seq(LinesFor(c))
          <6>1. /\ wire \o Block \in Seq(LinesFor(c))
                /\ wire \o Front(Block) \in Seq(LinesFor(c))
            BY <2>2, <5>2, ConcatProperties
          <6>2. Append(wire, L("event", 0)) \in Seq(LinesFor(c))
            BY <2>2, <5>2, AppendProperties
          <6> QED  BY <5>3, <6>1, <6>2, ConcatProperties
        <5>5. todo' = todo
          BY <4>2 DEF ScanReports, Unasked
        <5>6. \/ wire' = (wire \o Block) \o <<L("event", 0)>>
              \/ wire' = (wire \o Front(Block)) \o <<L("event", 0)>>
              \/ wire' = Append(wire, L("event", 0))
          BY <4>2 DEF ScanReports, Unasked
        <5> QED  BY <2>2, <5>4, <5>5, <5>6
      <4> QED  BY <2>6, <4>1, <4>2
    <3> QED  BY <2>2, <2>a, <3>1, <3>2 DEF Held
  <2> QED  BY <2>1, <2>3, <2>4, <2>r, <2>5, <2>6
<1> QED  BY <1>1, <1>2

LEMMA ResultStep ==
  ASSUME TypeInv, ResultInv, [Next]_vars PROVE ResultInv'
BY ExclusiveStep, OwnResultStep, OwnInvStep DEF ResultInv

(* A command that is written when no line of an earlier one is under way   *)
(* returns its own result, for any scripts, sizes of the channels and      *)
(* number of earlier commands, time-outs and events, except in the two     *)
(* modes in which any line is the answer.                                  *)
THEOREM CommandOwnResult == Spec => []OwnResult
<1>1. TypeInv /\ ResultInv /\ [Next]_vars => TypeInv' /\ ResultInv'
  BY TypeStep, ResultStep
<1>2. ResultInv => OwnResult
  BY DEF ResultInv
<1> QED  BY <1>1, <1>2, TypeInit, ResultInit, PTL DEF Spec

-----------------------------------------------------------------------------
(* The answer is not lost. *)

LEMMA FinalKept ==
  ASSUME NEW c, NEW s \in Seq(Line), NEW t \in Seq(Line), HasFinal(c, s) PROVE HasFinal(c, s \o t)
<1>1. PICK i \in 1..Len(s) : Final(c, s[i])
  BY DEF HasFinal
<1>2. /\ Len(s \o t) = Len(s) + Len(t) /\ Len(s) \in Nat /\ Len(t) \in Nat
      /\ (s \o t)[i] = s[i]
  BY <1>1, ConcatProperties, LenProperties
<1>3. i \in 1..Len(s \o t)
  BY <1>1, <1>2
<1> QED  BY <1>1, <1>2, <1>3 DEF HasFinal

LEMMA FinalComes ==
  ASSUME NEW c, NEW s \in Seq(Line), NEW t \in Seq(Line), HasFinal(c, t) PROVE HasFinal(c, s \o t)
<1>1. PICK i \in 1..Len(t) : Final(c, t[i])
  BY DEF HasFinal
<1>2. /\ Len(s \o t) = Len(s) + Len(t) /\ Len(s) \in Nat /\ Len(t) \in Nat
      /\ (s \o t)[Len(s) + i] = t[i]
  BY <1>1, ConcatProperties, LenProperties
<1>3. Len(s) + i \in 1..Len(s \o t)
  BY <1>1, <1>2
<1> QED  BY <1>1, <1>2, <1>3 DEF HasFinal

LEMMA FinalReceived ==
  ASSUME NEW c, NEW s \in Seq(Line), HasFinal(c, s)
  PROVE  s # <<>> /\ (Final(c, Head(s)) \/ HasFinal(c, Tail(s)))
<1>1. PICK i \in 1..Len(s) : Final(c, s[i])
  BY DEF HasFinal
<1>2. s # <<>>
  BY <1>1, EmptySeq
<1>3. /\ Head(s) = s[1] /\ Len(s) \in Nat /\ Len(Tail(s)) = Len(s) - 1
      /\ \A j \in 1..Len(Tail(s)) : Tail(s)[j] = s[j + 1]
  BY <1>2, HeadTailProperties, LenProperties
<1>4. i = 1 \/ (i - 1 \in 1..Len(Tail(s)) /\ Tail(s)[i - 1] = s[i])
  BY <1>1, <1>3
<1> QED  BY <1>1, <1>2, <1>3, <1>4 DEF HasFinal

LEMMA AnswerInit == Init => AnswerInv
BY DEF Init, AnswerInv, Busy

(* A line that ends the command does it when it is processed: it becomes a *)
(* result in whatever state the parser is in.                              *)
LEMMA FinalBecomesResult ==
  ASSUME TypeInv, NEW c \in Callers, QuietStart(c), AddressMode(c), ProcessLine
  PROVE  /\ Final(c, line) => results' # <<>>
         /\ results # <<>> => results' # <<>>
         /\ kind[c] = "address" => results' # <<>>
<1>1. /\ line \in Line /\ line \in LinesFor(c) /\ results \in Seq(Line) /\ rd = "process"
      /\ [kind |-> "ok", of |-> line.of] \in Line /\ ResultBuffer \in Nat \ {0}
  BY Bounds DEF ProcessLine, QuietStart, TypeInv, LinesOK, Held, Line, LineKinds
<1>2. \A x \in Line : Push(results, x, ResultBuffer) # <<>>
  BY <1>1, Pushed
<1>3. kind[c] = "address" /\ results = <<>> => seen = "address"
  BY <1>1 DEF AddressMode
<1>4. Final(c, line) /\ line.kind = "address" => kind[c] = "address"
  BY <1>1 DEF Final, LinesFor, Own, Foreign
<1>5. CASE ProcessAddress \/ ProcessProduct
  BY <1>1, <1>2, <1>5 DEF ProcessAddress, ProcessProduct
<1>6. CASE ProcessNormal \/ LeaveEpandesc
  <2>1. seen # "address" /\ (Ok(line) \/ line.kind = "fail" => results' # <<>>)
        /\ (results' = results \/ results' # <<>>)
    BY <1>1, <1>2, <1>6 DEF ProcessNormal, AsNormal, LeaveEpandesc
  <2> QED  BY <1>3, <1>4, <2>1 DEF Final, Ok
<1>7. CASE ProcessEpandesc
  <2>1. seen # "address" /\ results' = results /\ HasColon(line)
    BY <1>7 DEF ProcessEpandesc, channels
  <2> QED  BY <1>3, <1>4, <2>1 DEF Final, HasColon
<1> QED  BY <1>5, <1>6, <1>7 DEF ProcessLine

LEMMA AnswerStep ==
  ASSUME TypeInv, ResultInv, AnswerInv, [Next]_vars PROVE AnswerInv'
<1> SUFFICES ASSUME NEW c \in Callers, Busy(c)', clean'[c]
             PROVE  /\ AddressMode(c)'
                    /\ num'[c] \notin unanswered' => Due(c)' \/ results' # <<>>
  BY DEF AnswerInv
<1>1. CASE Write(c)
  <2>1. /\ Quiet /\ UNCHANGED <<kind, rd>> /\ state' = ModeOf(kind[c])
        /\ todo' = Append(todo, [kind |-> kind[c], of |-> written + 1]) /\ todo \in Seq(Todo)
        /\ [kind |-> kind[c], of |-> written + 1] \in Todo
    BY <1>1 DEF Write, TypeInv, CallersOK, ModuleOK, BoundsOK, Todo, reader
  <2>2. AddressMode(c)'
    BY <2>1 DEF AddressMode, ModeOf, Quiet
  <2>3. todo' # <<>>
    BY <2>1, AppendProperties, EmptySeq
  <2> QED  BY <2>2, <2>3 DEF Due
<1>2. CASE ~Write(c)
  <2>1. /\ Busy(c) /\ num'[c] = num[c] /\ kind'[c] = kind[c] /\ clean[c]
        /\ \/ SkipEcho(c) \/ ReadLine \/ ReadState \/ ProcessLine \/ Settle
           \/ ModuleAnswers \/ ScanReports \/ Unasked
           \/ UNCHANGED <<parser, channels, reader, module>>
    BY <1>2, StillWaiting DEF ResultInv
  <2>2. /\ QuietStart(c) /\ AddressMode(c)
        /\ num[c] \notin unanswered => Due(c) \/ results # <<>>
    BY <2>1 DEF ResultInv, OwnInv, AnswerInv
  <2>3. wire \in Seq(Line)
    <3>1. Lines \subseteq Line
      BY DEF Lines
    <3> QED  BY <3>1, SeqMonotonic DEF TypeInv, ModuleOK
  <2>4. CASE SkipEcho(c) \/ Settle \/ UNCHANGED <<parser, channels, reader, module>>
    <3>1. /\ UNCHANGED <<todo, wire, results, line, seen, partial, unanswered>>
          /\ \/ UNCHANGED <<rd, state>>
             \/ rd = "settle" /\ rd' = "ready"
      BY <2>4 DEF SkipEcho, Settle, parser, reader, module, channels
    <3>2. AddressMode(c)'
      BY <2>1, <2>2, <3>1 DEF AddressMode
    <3> QED  BY <2>1, <2>2, <3>1, <3>2 DEF Due, Final, HasFinal, Held
  <2>r. CASE ReadState
    <3>1. /\ UNCHANGED <<todo, wire, results, line, partial, state, unanswered>>
          /\ rd = "taken" /\ rd' = "process" /\ seen' = state
      BY <2>r DEF ReadState, parser, module, channels
    <3>2. AddressMode(c)'
      BY <2>1, <2>2, <3>1 DEF AddressMode
    <3> QED  BY <2>1, <2>2, <3>1, <3>2 DEF Due, Final, HasFinal, Held
  <2>5. CASE ReadLine
    <3>1. /\ UNCHANGED <<todo, results, state, unanswered>> /\ rd = "ready"
          /\ rd' \in {"ready", "taken"}
      BY <2>5 DEF ReadLine, parser, channels
    <3>2. AddressMode(c)'
      BY <2>1, <2>2, <3>1 DEF AddressMode
    <3>3. CASE partial # NoLine
      <4>1. Held' /\ line' = partial
        BY <2>5, <3>3 DEF ReadLine, Held
      <4>2. Final(c, partial)
        BY <2>2, <3>3 DEF QuietStart, Own, TypeInv, LinesOK, EndsInCR, Final
      <4> QED  BY <2>1, <3>2, <4>1, <4>2 DEF Due, Final
    <3>4. CASE partial = NoLine
      <4>1. /\ wire # <<>> /\ wire' = Tail(wire)
            /\ \/ partial' = Head(wire)
               \/ line' = Head(wire) /\ Held'
        BY <2>5, <3>4 DEF ReadLine, Held
      <4>2. ~Final(c, partial)
        BY <3>4 DEF Final, NoLine
      <4>3. ASSUME num[c] \notin unanswered, results = <<>> PROVE Due(c)'
        <5>1. todo # <<>> \/ HasFinal(c, wire)
          BY <2>2, <3>1, <4>2, <4>3 DEF Due, Held
        <5>2. CASE todo # <<>>
          BY <3>1, <5>2 DEF Due
        <5>3. CASE Final(c, Head(wire))
          BY <2>1, <4>1, <5>3 DEF Due, Final
        <5>4. CASE HasFinal(c, Tail(wire))
          BY <2>1, <4>1, <5>4 DEF Due, HasFinal, Final
        <5> QED  BY <2>3, <5>1, <5>2, <5>3, <5>4, FinalReceived
      <4> QED  BY <2>1, <3>1, <3>2, <4>3
    <3> QED  BY <3>3, <3>4
  <2>6. CASE ProcessLine
    <3>1. UNCHANGED <<todo, wire, partial, unanswered>>
      BY <2>6 DEF ProcessLine, module
    <3>2. AddressMode(c)'
      BY <2>1, <2>2, <2>6, FinalBecomesResult DEF AddressMode
    <3>3. ASSUME num[c] \notin unanswered, results' = <<>> PROVE Due(c)'
      <4>1. results = <<>> /\ ~Final(c, line)
        BY <2>2, <2>6, <3>3, FinalBecomesResult
      <4>2. todo # <<>> \/ HasFinal(c, wire) \/ Final(c, partial)
        BY <2>2, <3>3, <4>1 DEF Due
      <4> QED  BY <2>1, <3>1, <4>2 DEF Due, HasFinal, Final
    <3> QED  BY <2>1, <3>1, <3>2, <3>3
  <2>7. CASE ModuleAnswers \/ ScanReports \/ Unasked
    <3>1. UNCHANGED <<results, line, seen, rd, partial, state>>
      BY <2>7 DEF ModuleAnswers, ScanReports, Unasked, Outside, parser, channels, reader
    <3>2. AddressMode(c)'
      BY <2>1, <2>2, <3>1 DEF AddressMode
    <3>3. CASE ModuleAnswers
      <4> DEFINE k == Head(todo).kind
                 n == Head(todo).of
      <4>1. /\ todo # <<>>
            /\ \/ wire' = wire \o AnswerLines(k, n)
               \/ wire' = Append(wire, L("fail", n))
               \/ unanswered' = unanswered \cup {n}
        BY <3>3 DEF ModuleAnswers
      <4>2. k \in Kinds /\ n \in Nat /\ n = num[c]
        BY <2>2, <4>1, Received DEF QuietStart, Todo
      <4>3. AnswersTo(k, n) \subseteq Line
        BY DEF AnswersTo
      <4>4. AnswerLines(k, n) \in Seq(Line) /\ L("fail", n) \in Line
        BY <4>2, <4>3, AnswerType, SeqMonotonic
      <4>5. CASE wire' = wire \o AnswerLines(k, n)
        <5>1. HasFinal(c, AnswerLines(k, n))
          <6>1. PICK i \in 1..Len(AnswerLines(k, n)) :
                  /\ AnswerLines(k, n)[i].of = n
                  /\ AnswerLines(k, n)[i].kind \in {"ok", "fail", "okCR", "okValue", "address"}
            BY <4>2, AnswerType
          <6> QED  BY <4>2, <6>1 DEF HasFinal, Final
        <5>2. HasFinal(c, wire')
          BY <2>3, <4>4, <4>5, <5>1, FinalComes
        <5> QED  BY <2>1, <3>2, <5>2 DEF Due, HasFinal, Final
      <4>6. CASE wire' = Append(wire, L("fail", n))
        <5>1. Len(wire') \in 1..Len(wire') /\ Final(c, wire'[Len(wire')])
          BY <2>3, <4>2, <4>4, <4>6, AppendProperties, LenProperties DEF Final, L
        <5>2. HasFinal(c, wire')
          BY <5>1 DEF HasFinal
        <5> QED  BY <2>1, <3>2, <5>2 DEF Due, HasFinal, Final
      <4>7. CASE unanswered' = unanswered \cup {n}
        BY <2>1, <3>2, <4>2, <4>7
      <4> QED  BY <4>1, <4>5, <4>6, <4>7
    <3>4. CASE ScanReports \/ Unasked
      <4>1. {l \in Line : Foreign(l)} \subseteq Line
        OBVIOUS
      <4>2. /\ Block \in Seq(Line) /\ Front(Block) \in Seq(Line) /\ L("event", 0) \in Line
        BY <4>1, BlockType, SeqMonotonic
      <4>3. <<L("event", 0)>> \in Seq(Line)
        BY <4>2
      <4>4. /\ UNCHANGED <<todo, unanswered>>
            /\ \/ wire' = (wire \o Block) \o <<L("event", 0)>>
               \/ wire' = (wire \o Front(Block)) \o <<L("event", 0)>>
               \/ wire' = wire \o <<L("event", 0)>>
        BY <2>3, <3>4, <4>2, AppendIsConcat DEF ScanReports, Unasked
      <4>5. HasFinal(c, wire) => HasFinal(c, wire')
        <5>1. wire \o Block \in Seq(Line) /\ wire \o Front(Block) \in Seq(Line)
          BY <2>3, <4>2, ConcatProperties
        <5>2. HasFinal(c, wire) => /\ HasFinal(c, wire \o Block)
                                   /\ HasFinal(c, wire \o Front(Block))
                                   /\ HasFinal(c, wire \o <<L("event", 0)>>)
          BY <2>3, <4>2, <4>3, FinalKept
        <5>3. HasFinal(c, wire) => /\ HasFinal(c, (wire \o Block) \o <<L("event", 0)>>)
                                   /\ HasFinal(c, (wire \o Front(Block)) \o <<L("event", 0)>>)
          BY <4>3, <5>1, <5>2, FinalKept
        <5> QED  BY <4>4, <5>2, <5>3
      <4> QED  BY <2>1, <2>2, <3>1, <3>2, <4>4, <4>5 DEF Due, HasFinal, Final, Held
    <3> QED  BY <2>7, <3>3, <3>4
  <2> QED  BY <2>1, <2>4, <2>r, <2>5, <2>6, <2>7
<1> QED  BY <1>1, <1>2

(* The answer to such a command stays due, on the line, in the reader's    *)
(* hands or in the channel, until exec returns: the parser does not lose   *)
(* it, whoever switches its state and however the lines end.               *)
THEOREM CommandAnswerReachesCaller == Spec => []AnswerReachesCaller
<1>1. ASSUME TypeInv, ResultInv, AnswerInv PROVE AnswerReachesCaller
  <2> SUFFICES ASSUME NEW c \in Callers, Busy(c), clean[c], num[c] \notin unanswered,
                      results = <<>>
               PROVE  AnswerComing(c)
    BY DEF AnswerReachesCaller
  <2>1. Due(c) /\ QuietStart(c)
    BY <1>1 DEF AnswerInv, ResultInv, OwnInv
  <2>2. CASE todo # <<>>
    <3>1. 1 \in 1..Len(todo) /\ todo[1].of = num[c]
      BY <2>1, <2>2, EmptySeq, ElementOfSeq DEF QuietStart
    <3> QED  BY <3>1 DEF AnswerComing
  <2> QED  BY <2>1, <2>2 DEF Due, HasFinal, Final, AnswerComing, Answer
<1>2. /\ Init => TypeInv /\ ResultInv /\ AnswerInv
      /\ TypeInv /\ ResultInv /\ AnswerInv /\ [Next]_vars => TypeInv' /\ ResultInv' /\ AnswerInv'
  BY TypeInit, ResultInit, AnswerInit, TypeStep, ResultStep, AnswerStep
<1> QED  BY <1>1, <1>2, PTL DEF Spec

-----------------------------------------------------------------------------
(* The address. *)

(* The module has stopped echoing when it comes to SKLL64: initModule sends *)
(* SKSREG SFE 0 before connect.                                            *)
EchoOff == \A i \in 1..Len(todo) : todo[i].kind = "address" => ~echoing

(* A command for the address, on a quiet line, returns its address and     *)
(* nothing else, or a line that nobody asked for came before it.           *)
AddressUnlessDisturbed ==
  \A c \in Callers :
    clean[c] /\ kind[c] = "address" /\ Ok(result[c]) =>
      response[c] = <<L("address", num[c])>> \/ result[c].of = 0

Event == L("event", 0)
OwnLines(n) == {L("address", n), L("fail", n)}
Events(s) == \A i \in 1..Len(s) : s[i] = Event
OneOwn(n, s) ==
  \E i \in 1..Len(s) : s[i] \in OwnLines(n) /\ \A j \in 1..Len(s) : j # i => s[j] = Event

(* No line has been taken for the answer yet; the answer is still to be    *)
(* given, on the wire, in the reader's hand, or will not come ...          *)
InHand(S) == Held => line \in S
Awaited(n) ==
  /\ results = <<>> /\ responses = <<>> /\ state = "address" /\ rd # "settle"
  /\ (rd = "process" => seen = "address") /\ partial = NoLine /\ ~scanning
  /\ \/ todo # <<>> /\ Tail(todo) = <<>> /\ Events(wire) /\ InHand({Event})
     \/ todo = <<>> /\ OneOwn(n, wire) /\ InHand({Event})
     \/ todo = <<>> /\ Events(wire) /\ InHand(OwnLines(n) \cup {Event})

(* ... the answer was taken, and what comes after it changes nothing ...   *)
Taken(n) ==
  /\ todo = <<>> /\ Events(wire) /\ ~scanning /\ partial = NoLine
  /\ InHand({Event}) /\ (rd = "process" => seen = "normal")
  /\ results = <<L("ok", n)>> /\ responses = <<L("address", n)>>
  /\ state = "normal" \/ rd = "settle"

(* ... or another line was, or a FAIL.                                     *)
OtherTaken == results # <<>> /\ (Head(results).of = 0 \/ Head(results).kind = "fail")

AddressInv ==
  \A c \in Callers : Busy(c) /\ clean[c] /\ kind[c] = "address" =>
    Awaited(num[c]) \/ Taken(num[c]) \/ OtherTaken

LEMMA AddressLines ==
  ASSUME NEW n \in Nat
  PROVE  /\ OwnLines(n) \cup {Event, L("ok", n), L("ok", 0)} \subseteq Line
         /\ L("address", n).kind = "address" /\ L("fail", n).kind = "fail"
         /\ L("ok", n).kind = "ok" /\ L("ok", n).of = n /\ L("ok", 0).of = 0
         /\ Event.kind = "event" /\ Event.of = 0 /\ L("address", n).of = n
         /\ \A l \in OwnLines(n) \cup {Event} : ~EndsInCR(l) /\ l # NoLine
BY DEF OwnLines, Event, L, Line, LineKinds, EndsInCR, NoLine

LEMMA EventsReceived ==
  ASSUME NEW s \in Seq(Line), s # <<>>, Events(s)
  PROVE  Head(s) = Event /\ Events(Tail(s))
<1>1. /\ Len(s) \in Nat \ {0} /\ Head(s) = s[1] /\ Len(Tail(s)) = Len(s) - 1
      /\ \A j \in 1..Len(Tail(s)) : Tail(s)[j] = s[j + 1]
  BY HeadTailProperties, LenProperties, EmptySeq
<1>2. \A j \in 1..Len(Tail(s)) : j + 1 \in 1..Len(s)
  BY <1>1
<1> QED  BY <1>1, <1>2 DEF Events

LEMMA OneOwnReceived ==
  ASSUME NEW n, NEW s \in Seq(Line), OneOwn(n, s)
  PROVE  /\ s # <<>>
         /\ \/ Head(s) \in OwnLines(n) /\ Events(Tail(s))
            \/ Head(s) = Event /\ OneOwn(n, Tail(s))
<1>1. PICK i \in 1..Len(s) : s[i] \in OwnLines(n) /\ \A j \in 1..Len(s) : j # i => s[j] = Event
  BY DEF OneOwn
<1>2. s # <<>>
  BY <1>1, EmptySeq
<1>3. /\ Len(s) \in Nat \ {0} /\ Head(s) = s[1] /\ Len(Tail(s)) = Len(s) - 1
      /\ \A j \in 1..Len(Tail(s)) : Tail(s)[j] = s[j + 1] /\ j + 1 \in 1..Len(s)
  BY <1>2, HeadTailProperties, LenProperties, EmptySeq
<1>4. CASE i = 1
  <2>1. \A j \in 1..Len(Tail(s)) : j + 1 # i
    BY <1>3, <1>4
  <2> QED  BY <1>1, <1>2, <1>3, <1>4, <2>1 DEF Events
<1>5. CASE i # 1
  <2>1. 1 \in 1..Len(s) /\ i - 1 \in 1..Len(Tail(s)) /\ (i - 1) + 1 = i
    BY <1>1, <1>3, <1>5
  <2>2. Head(s) = Event /\ Tail(s)[i - 1] \in OwnLines(n)
    BY <1>1, <1>3, <1>5, <2>1
  <2>3. \A j \in 1..Len(Tail(s)) : j # i - 1 => Tail(s)[j] = Event
    BY <1>1, <1>3
  <2> QED  BY <1>2, <2>1, <2>2, <2>3 DEF OneOwn
<1> QED  BY <1>4, <1>5

LEMMA LinesAppended ==
  ASSUME NEW n, NEW s \in Seq(Line), NEW x \in Line
  PROVE  /\ Events(s) /\ x = Event => Events(Append(s, x))
         /\ OneOwn(n, s) /\ x = Event => OneOwn(n, Append(s, x))
         /\ Events(s) /\ x \in OwnLines(n) => OneOwn(n, Append(s, x))
<1> DEFINE t == Append(s, x)
<1>1. /\ Len(s) \in Nat /\ Len(t) = Len(s) + 1 /\ t[Len(s) + 1] = x
      /\ \A i \in 1..Len(s) : t[i] = s[i]
  BY AppendProperties, LenProperties
<1>2. /\ Len(s) + 1 \in 1..Len(t) /\ 1..Len(s) \subseteq 1..Len(t)
      /\ \A i \in 1..Len(t) : i # Len(s) + 1 => i \in 1..Len(s)
  BY <1>1
<1> HIDE DEF t
<1>3. Events(s) /\ x = Event => Events(t)
  BY <1>1, <1>2 DEF Events
<1>4. ASSUME OneOwn(n, s), x = Event PROVE OneOwn(n, t)
  <2>1. PICK i \in 1..Len(s) : s[i] \in OwnLines(n) /\ \A j \in 1..Len(s) : j # i => s[j] = Event
    BY <1>4 DEF OneOwn
  <2>2. i \in 1..Len(t) /\ t[i] \in OwnLines(n)
    BY <1>1, <1>2, <2>1
  <2>3. \A j \in 1..Len(t) : j # i => t[j] = Event
    BY <1>1, <1>2, <1>4, <2>1
  <2> QED  BY <2>2, <2>3 DEF OneOwn
<1>5. Events(s) /\ x \in OwnLines(n) => OneOwn(n, t)
  BY <1>1, <1>2 DEF Events, OneOwn
<1> QED  BY <1>3, <1>4, <1>5 DEF t

LEMMA PushedFirst ==
  ASSUME NEW x \in Line, NEW m \in Nat \ {0}
  PROVE  Push(<<>>, x, m) = <<x>> /\ <<x>> # <<>> /\ Head(<<x>>) = x /\ Tail(<<x>>) = <<>>
BY EmptySeq DEF Push

LEMMA PushedBehind ==
  ASSUME NEW s \in Seq(Line), s # <<>>, NEW x \in Line, NEW m \in Nat \ {0}
  PROVE  Push(s, x, m) # <<>> /\ Head(Push(s, x, m)) = Head(s)
<1>1. /\ Append(s, x) \in Seq(Line) /\ Append(s, x) # <<>> /\ Append(s, x)[1] = s[1]
      /\ Head(s) = s[1]
  BY AppendProperties, LenProperties, HeadTailProperties, EmptySeq
<1>2. Head(Append(s, x)) = Append(s, x)[1]
  BY <1>1, HeadTailProperties
<1> QED  BY <1>1, <1>2 DEF Push

(* A line that was taken first stays first. *)
LEMMA OtherStays ==
  ASSUME TypeInv, OtherTaken,
         \/ UNCHANGED results
         \/ \E x \in Line : results' = Push(results, x, ResultBuffer)
  PROVE  OtherTaken'
<1>1. results \in Seq(Line) /\ results # <<>> /\ ResultBuffer \in Nat \ {0}
  BY Bounds DEF TypeInv, LinesOK, OtherTaken
<1>2. results' # <<>> /\ Head(results') = Head(results)
  BY <1>1, PushedBehind
<1> QED  BY <1>2 DEF OtherTaken

(* The first line is processed: it is the address, or something else is    *)
(* taken for it.                                                           *)
LEMMA AddressProcessed ==
  ASSUME TypeInv, NEW n \in Nat, Awaited(n), ProcessLine
  PROVE  Taken(n)' \/ OtherTaken'
<1> USE AddressLines
<1>0. ResultBuffer \in Nat \ {0} /\ ResponseBuffer \in Nat \ {0}
  BY Bounds
<1>1. /\ rd = "process" /\ seen = "address" /\ results = <<>> /\ responses = <<>>
      /\ line \in OwnLines(n) \cup {Event} /\ UNCHANGED <<todo, wire, scanning, partial>>
      /\ partial = NoLine /\ ~scanning
  BY DEF ProcessLine, Awaited, Held, InHand, module
<1>2. ProcessAddress
  BY <1>1 DEF ProcessLine, ProcessNormal, ProcessEpandesc, LeaveEpandesc, ProcessProduct
<1>3. CASE line = Event
  <2>1. line.kind # "fail" /\ [kind |-> "ok", of |-> line.of] = L("ok", 0)
    BY <1>3 DEF L
  <2>2. results' = Push(<<>>, L("ok", 0), ResultBuffer)
    BY <1>1, <1>2, <2>1 DEF ProcessAddress
  <2>3. L("ok", 0) \in Line
    OBVIOUS
  <2>4. results' = <<L("ok", 0)>> /\ results' # <<>> /\ Head(results') = L("ok", 0)
    BY <1>0, <2>2, <2>3, PushedFirst
  <2> QED  BY <2>4 DEF OtherTaken
<1>4. CASE line = L("fail", n)
  <2>1. results' = Push(<<>>, line, ResultBuffer) /\ line \in Line
    BY <1>1, <1>2, <1>4 DEF ProcessAddress, OwnLines
  <2>2. results' # <<>> /\ Head(results') = line
    BY <1>0, <2>1, PushedFirst
  <2> QED  BY <1>4, <2>2 DEF OtherTaken
<1>5. CASE line = L("address", n)
  <2>1. line.kind # "fail" /\ [kind |-> "ok", of |-> line.of] = L("ok", n)
    BY <1>5 DEF L
  <2>2. /\ results' = Push(<<>>, L("ok", n), ResultBuffer) /\ rd' = "settle"
        /\ responses' = Push(<<>>, L("address", n), ResponseBuffer)
    BY <1>1, <1>2, <1>5, <2>1 DEF ProcessAddress
  <2>3. L("ok", n) \in Line /\ L("address", n) \in Line
    BY DEF OwnLines
  <2>4. results' = <<L("ok", n)>> /\ responses' = <<L("address", n)>>
    BY <1>0, <2>2, <2>3, PushedFirst
  <2>5. line # Event
    BY <1>5
  <2>6. todo = <<>> /\ Events(wire)
    BY <1>1, <2>5 DEF Awaited, Held, InHand
  <2> QED  BY <1>1, <2>2, <2>4, <2>6 DEF Held, InHand, Taken, Events
<1> QED  BY <1>1, <1>3, <1>4, <1>5 DEF OwnLines

(* What is processed after the address changes nothing. *)
LEMMA NothingAfterAddress ==
  ASSUME NEW n \in Nat, Taken(n), ProcessLine
  PROVE  Taken(n)'
<1>1. /\ rd = "process" /\ seen = "normal" /\ line = Event /\ line.kind = "event"
      /\ UNCHANGED <<todo, wire, scanning, partial>>
  BY AddressLines DEF ProcessLine, Held, InHand, Taken, module
<1>2. ProcessNormal
  BY <1>1 DEF ProcessLine, ProcessEpandesc, LeaveEpandesc, ProcessAddress, ProcessProduct
<1>3. UNCHANGED <<results, responses, state>> /\ rd' = "ready"
  BY <1>1, <1>2 DEF ProcessNormal, AsNormal, Ok
<1> QED  BY <1>1, <1>3 DEF Held, InHand, Taken, Events

LEMMA AddressRead ==
  ASSUME TypeInv, NEW n \in Nat, Awaited(n) \/ Taken(n), ReadLine
  PROVE  Awaited(n)' \/ Taken(n)'
<1> USE AddressLines
<1>1. wire \in Seq(Line)
  <2>1. Lines \subseteq Line
    BY DEF Lines
  <2> QED  BY <2>1, SeqMonotonic DEF TypeInv, ModuleOK
<1>2. /\ rd = "ready" /\ partial = NoLine /\ wire # <<>> /\ wire' = Tail(wire)
      /\ UNCHANGED <<seen, todo, scanning, results, responses, state>>
      /\ ~EndsInCR(Head(wire)) => line' = Head(wire) /\ rd' = "taken" /\ partial' = NoLine
  BY DEF ReadLine, Awaited, Taken, parser, channels
<1>3. CASE Events(wire)
  <2>1. Head(wire) = Event /\ Events(Tail(wire))
    BY <1>1, <1>2, <1>3, EventsReceived
  <2>2. /\ line' = Event /\ rd' = "taken" /\ partial' = NoLine /\ Events(wire)'
        /\ InHand({Event})' /\ InHand(OwnLines(n) \cup {Event})'
    BY <1>2, <2>1 DEF Held, InHand, Events
  <2>3. CASE Awaited(n)
    BY <1>2, <1>3, <2>2, <2>3 DEF Awaited, Held
  <2>4. CASE Taken(n)
    BY <1>2, <2>2, <2>4 DEF Taken, Held
  <2> QED  BY <2>3, <2>4
<1>4. CASE ~Events(wire)
  <2>1. Awaited(n) /\ OneOwn(n, wire) /\ todo = <<>>
    BY <1>4 DEF Awaited, Taken
  <2>2. \/ Head(wire) \in OwnLines(n) /\ Events(Tail(wire))
        \/ Head(wire) = Event /\ OneOwn(n, Tail(wire))
    BY <1>1, <2>1, OneOwnReceived
  <2>3. line' = Head(wire) /\ rd' = "taken" /\ partial' = NoLine
    BY <1>2, <2>2
  <2>4. \/ Events(wire)' /\ InHand(OwnLines(n) \cup {Event})'
        \/ OneOwn(n, wire)' /\ InHand({Event})'
    BY <1>2, <2>2, <2>3 DEF Held, InHand, Events, OneOwn
  <2> QED  BY <1>2, <2>1, <2>3, <2>4 DEF Awaited, Held
<1> QED  BY <1>3, <1>4

(* The module: it answers with the address, a FAIL or not at all.          *)
LEMMA AddressAnswered ==
  ASSUME TypeInv, NEW c \in Callers, NEW n \in Nat, n = num[c], QuietStart(c),
         kind[c] = "address", EchoOff, Awaited(n) \/ Taken(n),
         ModuleAnswers \/ ScanReports \/ Unasked
  PROVE  Awaited(n)' \/ Taken(n)'
<1> USE AddressLines
<1>1. wire \in Seq(Line) /\ Event \in Line
  <2>1. Lines \subseteq Line
    BY DEF Lines
  <2> QED  BY <2>1, SeqMonotonic DEF TypeInv, ModuleOK
<1>2. UNCHANGED <<results, responses, line, seen, rd, partial, state>>
  BY DEF ModuleAnswers, ScanReports, Unasked, Outside, parser, channels, reader
<1>3. ~ScanReports
  BY DEF Awaited, Taken, ScanReports
<1>4. CASE Unasked
  <2>1. wire' = Append(wire, Event) /\ UNCHANGED <<todo, scanning>>
    BY <1>4 DEF Unasked, Event
  <2>2. Events(wire) => Events(wire)'
    <3>1. Events(wire) => Events(Append(wire, Event))
      BY <1>1, LinesAppended
    <3>2. Events(wire') = Events(wire)'
      BY DEF Events
    <3> QED  BY <2>1, <3>1, <3>2
  <2>3. OneOwn(n, wire) => OneOwn(n, wire)'
    <3>1. OneOwn(n, wire) => OneOwn(n, Append(wire, Event))
      BY <1>1, LinesAppended
    <3>2. OneOwn(n, wire') = OneOwn(n, wire)'
      BY DEF OneOwn
    <3> QED  BY <2>1, <3>1, <3>2
  <2> QED  BY <1>2, <2>1, <2>2, <2>3 DEF Awaited, Taken, Held, InHand
<1>5. CASE ModuleAnswers
  <2>1. /\ todo # <<>> /\ Awaited(n) /\ Tail(todo) = <<>> /\ Events(wire) /\ InHand({Event})
        /\ todo' = <<>>
    BY <1>5 DEF ModuleAnswers, Awaited, Taken
  <2>2. Head(todo).of = n /\ Head(todo).kind = "address"
    <3>1. todo \in Seq({t \in Todo : t.of = num[c] /\ t.kind = kind[c]})
      BY DEF QuietStart
    <3> QED  BY <2>1, <3>1, Received
  <2>3. ~echoing
    <3>1. 1 \in 1..Len(todo) /\ Head(todo) = todo[1]
      BY <2>1, HeadTailProperties, EmptySeq DEF TypeInv, ModuleOK
    <3> QED  BY <2>2, <3>1 DEF EchoOff
  <2>4. /\ \/ wire' = wire \o AnswerLines("address", n)
           \/ wire' = Append(wire, L("fail", n))
           \/ wire' = wire
        /\ ~scanning'
    <3> DEFINE k == Head(todo).kind
               scans == k = "scan" \/ (scanning /\ k # "reset")
    <3>1. scanning = FALSE
      BY <2>1 DEF Awaited, TypeInv, FlagsOK
    <3>2. \/ wire' = wire \o AnswerLines(k, Head(todo).of) /\ scanning' = scans
          \/ wire' = Append(wire, L("fail", Head(todo).of)) /\ scanning' = scanning
          \/ wire' = wire /\ scanning' = scanning
      BY <1>5 DEF ModuleAnswers
    <3>3. scans = FALSE
      BY <2>2, <3>1
    <3> HIDE DEF scans
    <3>4. scanning' = FALSE
      BY <3>1, <3>2, <3>3
    <3>5. ~scanning'
      BY <3>4
    <3> QED  BY <2>2, <3>2, <3>5
  <2>5. wire \o AnswerLines("address", n) = Append(wire, L("address", n))
    <3>1. AnswerLines("address", n) = <<L("address", n)>>
      <4>1. AnswerLines("address", n) = <<>> \o <<L("address", n)>>
        BY <2>3 DEF AnswerLines
      <4>2. <<L("address", n)>> \in Seq(Line)
        BY DEF OwnLines
      <4> QED  BY <4>1, <4>2, ConcatEmptySeq
    <3>2. L("address", n) \in Line
      BY DEF OwnLines
    <3>3. Append(wire, L("address", n)) = wire \o <<L("address", n)>>
      BY <1>1, <3>2, AppendIsConcat
    <3> QED  BY <3>1, <3>3
  <2>6. OneOwn(n, wire)' \/ Events(wire)'
    <3>1. CASE wire' = wire
      BY <2>1, <3>1 DEF Events
    <3>2. ASSUME NEW x \in OwnLines(n), wire' = Append(wire, x) PROVE OneOwn(n, wire)'
      <4>1. OneOwn(n, Append(wire, x))
        BY <1>1, <2>1, <3>2, LinesAppended
      <4> QED  BY <3>2, <4>1 DEF OneOwn
    <3> QED  BY <2>4, <2>5, <3>1, <3>2 DEF OwnLines
  <2>7. InHand({Event})' /\ InHand(OwnLines(n) \cup {Event})'
    BY <1>2, <2>1 DEF Held, InHand
  <2> QED  BY <1>2, <2>1, <2>4, <2>6, <2>7 DEF Awaited
<1> QED  BY <1>3, <1>4, <1>5

LEMMA AddressInvStep ==
  ASSUME TypeInv, ResultInv, AddressInv, EchoOff, [Next]_vars PROVE AddressInv'
<1> SUFFICES ASSUME NEW c \in Callers, Busy(c)', clean'[c], kind'[c] = "address"
             PROVE  Awaited(num[c])' \/ Taken(num[c])' \/ OtherTaken'
  BY DEF AddressInv
<1>1. CASE Write(c)
  <2>1. /\ Quiet /\ UNCHANGED <<kind, rd, scanning>> /\ state' = "address"
        /\ results' = <<>> /\ responses' = <<>> /\ rd = "ready" /\ ~scanning
        /\ partial = NoLine /\ partial' = NoLine /\ (wire' = <<>> \/ wire' = wire)
        /\ todo' = Append(<<>>, [kind |-> kind[c], of |-> written + 1])
    BY <1>1 DEF Write, Quiet, DrainResponses, ModeOf, TypeInv, CallersOK, reader
  <2>2. todo' # <<>> /\ Tail(todo') = <<>>
    BY <2>1
  <2>3. Events(wire)'
    <3>1. \A i \in 1..Len(wire) : wire[i] = Event
      <4>1. wire \in Seq(Lines) /\ \A i \in 1..Len(wire) : wire[i].kind = "event"
        BY <2>1 DEF TypeInv, ModuleOK, Quiet
      <4>2. \A l \in Lines : l.kind = "event" => l = Event
        BY DEF Lines, Line, Event, L
      <4> QED  BY <4>1, <4>2, ElementOfSeq
    <3> QED  BY <2>1, <3>1, EmptySeq DEF Events
  <2> QED  BY <2>1, <2>2, <2>3 DEF Awaited, Held, InHand
<1>2. CASE ~Write(c)
  <2>1. /\ Busy(c) /\ num'[c] = num[c] /\ kind[c] = "address" /\ clean[c]
        /\ \/ SkipEcho(c) \/ ReadLine \/ ReadState \/ ProcessLine \/ Settle
           \/ ModuleAnswers \/ ScanReports \/ Unasked
           \/ UNCHANGED <<parser, channels, reader, module>>
    BY <1>2, StillWaiting DEF ResultInv
  <2>0. PICK n \in Nat : n = num[c]
    BY DEF TypeInv, CallersOK
  <2>2. /\ Awaited(n) \/ Taken(n) \/ OtherTaken
        /\ QuietStart(c)
    BY <2>0, <2>1 DEF AddressInv, ResultInv, OwnInv
  <2> SUFFICES Awaited(n)' \/ Taken(n)' \/ OtherTaken'
    BY <2>0, <2>1
  <2>3. CASE SkipEcho(c)
    <3>1. UNCHANGED <<todo, wire, results, line, seen, rd, partial, state, scanning>>
      BY <2>3 DEF SkipEcho, parser, reader, module
    <3>2. CASE OtherTaken
      BY <3>1, <3>2 DEF OtherTaken
    <3>3. CASE Awaited(n)
      <4>1. responses' = responses
        BY <2>3, <3>3 DEF SkipEcho, Awaited
      <4> QED  BY <3>1, <3>3, <4>1 DEF Awaited, Events, OneOwn, Held, InHand
    <3>4. CASE Taken(n)
      <4>1. /\ L("address", n) \in Line /\ L("address", n).kind # "echo"
            /\ ResponseBuffer \in Nat \ {0}
        BY <2>2, AddressLines, Bounds DEF OwnLines
      <4>2. responses = <<L("address", n)>>
        BY <3>4 DEF Taken
      <4>3. Head(responses) = L("address", n) /\ Tail(responses) = <<>> /\ responses # <<>>
        BY <4>1, <4>2, PushedFirst
      <4>4. responses' = Push(<<>>, L("address", n), ResponseBuffer)
        BY <2>3, <4>1, <4>3 DEF SkipEcho
      <4>5. responses' = responses
        BY <4>1, <4>2, <4>4, PushedFirst
      <4> QED  BY <3>1, <3>4, <4>5 DEF Held, InHand, Taken, Events
    <3> QED  BY <2>2, <3>2, <3>3, <3>4
  <2>4. CASE ReadLine
    <3>1. OtherTaken => OtherTaken'
      BY <2>4 DEF ReadLine, OtherTaken, channels
    <3> QED  BY <2>2, <2>4, <3>1, AddressRead
  <2>9. CASE ReadState
    <3>1. /\ UNCHANGED <<todo, wire, results, responses, line, partial, state, scanning>>
          /\ rd = "taken" /\ rd' = "process" /\ seen' = state
      BY <2>9 DEF ReadState, parser, channels, module
    <3>2. InHand({Event})' = InHand({Event})
      BY <3>1 DEF Held, InHand
    <3>3. InHand(OwnLines(n) \cup {Event})' = InHand(OwnLines(n) \cup {Event})
      BY <3>1 DEF Held, InHand
    <3>4. CASE Awaited(n)
      BY <3>1, <3>2, <3>3, <3>4 DEF Awaited, Events, OneOwn
    <3>5. CASE Taken(n)
      BY <3>1, <3>2, <3>5 DEF Taken, Events
    <3>6. CASE OtherTaken
      BY <3>1, <3>6 DEF OtherTaken
    <3> QED  BY <2>2, <3>4, <3>5, <3>6
  <2>5. CASE ProcessLine
    <3>1. \/ UNCHANGED results
          \/ \E x \in Line : results' = Push(results, x, ResultBuffer)
      <4>1. line \in Line /\ [kind |-> "ok", of |-> line.of] \in Line
        BY <2>5 DEF ProcessLine, TypeInv, LinesOK, Held, Line, LineKinds
      <4> QED
        BY <2>5, <4>1 DEF ProcessLine, ProcessNormal, AsNormal, ProcessEpandesc, LeaveEpandesc,
           ProcessAddress, ProcessProduct, channels
    <3> QED  BY <2>2, <2>5, <3>1, OtherStays, AddressProcessed, NothingAfterAddress
  <2>6. CASE Settle
    <3>1. /\ UNCHANGED <<todo, wire, results, responses, line, seen, partial, scanning>>
          /\ rd = "settle" /\ rd' = "ready" /\ state' = "normal"
      BY <2>6 DEF Settle, channels, module
    <3> QED  BY <2>2, <3>1 DEF Awaited, Held, InHand, Taken, OtherTaken, Events
  <2>7. CASE ModuleAnswers \/ ScanReports \/ Unasked
    <3>1. OtherTaken => OtherTaken'
      BY <2>7 DEF ModuleAnswers, ScanReports, Unasked, Outside, OtherTaken, channels
    <3> QED  BY <2>0, <2>1, <2>2, <2>7, <3>1, AddressAnswered
  <2>8. CASE UNCHANGED <<parser, channels, reader, module>>
    BY <2>2, <2>8 DEF parser, channels, reader, module, Awaited, Taken, OtherTaken, Events,
       OneOwn, Held, InHand
  <2> QED  BY <2>1, <2>3, <2>4, <2>5, <2>6, <2>7, <2>8, <2>9
<1> QED  BY <1>1, <1>2

LEMMA AddressReturned ==
  ASSUME TypeInv, ResultInv, AddressInv, AddressUnlessDisturbed, [Next]_vars
  PROVE  AddressUnlessDisturbed'
<1> USE DEF callers
<1>0. CallersOK /\ ~Ok(NoLine)
  BY DEF TypeInv, Ok, NoLine
<1>1. ASSUME NEW c \in Callers, Begin(c) PROVE AddressUnlessDisturbed'
  <2>1. /\ result' = [result EXCEPT ![c] = NoLine] /\ UNCHANGED <<num, clean>>
        /\ \A d \in Callers : d # c => kind'[d] = kind[d] /\ response'[d] = response[d]
    BY <1>0, <1>1 DEF Begin, CallersOK
  <2> QED  BY <1>0, <2>1 DEF AddressUnlessDisturbed, CallersOK
<1>2. ASSUME NEW c \in Callers, Write(c) PROVE AddressUnlessDisturbed'
  <2>1. /\ pc[c] = "lock" /\ UNCHANGED <<kind, result, response>>
        /\ \A d \in Callers : d # c => num'[d] = num[d] /\ clean'[d] = clean[d]
    BY <1>0, <1>2 DEF Write, CallersOK
  <2>2. result[c] = NoLine
    BY <2>1 DEF ResultInv, NoResultYet
  <2> QED  BY <1>0, <2>1, <2>2 DEF AddressUnlessDisturbed
<1>3. ASSUME NEW c \in Callers, TakeResult(c) PROVE AddressUnlessDisturbed'
  <2>1. /\ results # <<>> /\ result' = [result EXCEPT ![c] = Head(results)]
        /\ Head(results).kind # "fail" => response' = [response EXCEPT ![c] = responses]
        /\ \A d \in Callers : d # c => response'[d] = response[d]
        /\ UNCHANGED <<kind, num, clean>> /\ Busy(c)
    BY <1>0, <1>3 DEF TakeResult, Return, Busy, CallersOK
  <2>2. ASSUME clean[c], kind[c] = "address", Ok(Head(results))
        PROVE  responses = <<L("address", num[c])>> \/ Head(results).of = 0
    <3>1. Awaited(num[c]) \/ Taken(num[c]) \/ OtherTaken
      BY <2>1, <2>2 DEF AddressInv
    <3> QED  BY <2>1, <2>2, <3>1 DEF Awaited, Taken, OtherTaken, Ok
  <2>3. Ok(Head(results)) => Head(results).kind # "fail"
    BY DEF Ok
  <2>4. /\ result'[c] = Head(results) /\ (Ok(Head(results)) => response'[c] = responses)
        /\ \A d \in Callers : d # c => result'[d] = result[d]
    BY <1>0, <2>1, <2>3 DEF CallersOK
  <2> QED  BY <2>1, <2>2, <2>4 DEF AddressUnlessDisturbed
<1>4. ASSUME UNCHANGED <<kind, num, result, response, clean>> PROVE AddressUnlessDisturbed'
  BY <1>0, <1>4 DEF AddressUnlessDisturbed
<1>5. ASSUME NEW c \in Callers, SkipEcho(c) \/ GiveUp(c) PROVE AddressUnlessDisturbed'
  BY <1>4, <1>5 DEF SkipEcho, GiveUp, Return
<1>6. CASE ReaderStep \/ ModuleAnswers \/ ScanReports \/ Unasked \/ UNCHANGED vars
  BY <1>4, <1>6 DEF ReaderStep, ReadLine, ReadState, ProcessLine, Settle,
     ModuleAnswers, ScanReports, Unasked, Outside, vars
<1> QED  BY <1>1, <1>2, <1>3, <1>5, <1>6 DEF Next, CallerStep

(* What reader.go:95 says of SKLL64 holds unless a line that nobody asked  *)
(* for comes between the command and its answer: then a command written on *)
(* a quiet line returns its address and nothing else, whatever scripts,    *)
(* commands, time-outs and events came before, once echoing is off. With   *)
(* it AddressIsAnAddress, which an EVENT breaks, is broken by nothing else. *)
THEOREM CommandAddressUnlessDisturbed == Spec /\ []EchoOff => []AddressUnlessDisturbed
<1>1. Init => AddressInv /\ AddressUnlessDisturbed
  <2>1. ~Ok(NoLine)
    BY DEF Ok, NoLine
  <2> QED  BY <2>1 DEF Init, AddressInv, AddressUnlessDisturbed, Busy
<1>2. TypeInv /\ ResultInv /\ AddressInv /\ AddressUnlessDisturbed /\ EchoOff /\ [Next]_vars
      => TypeInv' /\ ResultInv' /\ AddressInv' /\ AddressUnlessDisturbed'
  BY TypeStep, ResultStep, AddressInvStep, AddressReturned
<1> QED  BY <1>1, <1>2, TypeInit, ResultInit, PTL DEF Spec
=============================================================================
