------------------------------ MODULE Command ------------------------------
(***************************************************************************)
(* internal/transport/bp35a1: commands over the serial line (command.go)   *)
(* and the line parser that hands out their answers (reader.go).           *)
(*                                                                         *)
(* Two goroutines issue commands: the manager, one script (initModule,     *)
(* getVersions, connect, scan) after the other, and the client, whose      *)
(* SKSENDTOs sendMu serialises. cmdMu lets one command through at a time.  *)
(* Answers are lines like any other: the parser's state, set by exec for   *)
(* the command it is about to write, says how to read them.                *)
(*                                                                         *)
(* Commands are numbered in the order they are written. A line carries the *)
(* number of the command it answers, 0 if it answers none; the code cannot *)
(* see it.                                                                 *)
(***************************************************************************)
EXTENDS Naturals, Sequences, FiniteSets, SequencesExt

CONSTANTS Scripts,         \* what the manager runs: sequences of Kinds
          ResultBuffer,    \* capacity of results, 8
          ResponseBuffer,  \* capacity of responses, 32
          Fields,          \* lines of an EPANDESC block after its first, 6
          MaxCommands,     \* bound: commands written in a behaviour
          MaxEvents,       \* bound: EVENT and ERXUDP lines nobody asked for
          MaxFaults        \* bound: faults of the line or the module

(* SKVER during the baud rate search; SKVER; SKRESET; SKSREG SFE 0; SKSCAN;  *)
(* SKLL64; ROPT; WOPT; any other command, which just answers OK.           *)
Kinds == {"probe", "version", "reset", "echoOff", "scan", "address", "option",
          "setOption", "plain"}

ASSUME CommandAssumption ==
  /\ \A s \in Scripts : s \in Seq(Kinds) /\ s # <<>>
  /\ ResultBuffer \in Nat \ {0} /\ ResponseBuffer \in Nat \ {0}
  /\ Fields \in Nat \ {0}
  /\ MaxCommands \in Nat /\ MaxEvents \in Nat /\ MaxFaults \in Nat

Callers == {"manager", "client"}
Nobody == "nobody"

(* OK, FAIL, OK of WOPT (ended by CR only), OK of ROPT (with a value, and  *)
(* CR only), what starts with EVENT or ERXUDP, begins an EPANDESC block,   *)
(* is one of its "key:value"s, an IPv6 address, the version, or the        *)
(* command's own echo.                                                     *)
LineKinds == {"ok", "fail", "okCR", "okValue", "event", "epandesc", "field", "address",
              "version", "echo"}
Line == [kind : LineKinds, of : Nat]
NoLine == [kind |-> "none", of |-> 0]
HasColon(l) == l.kind \in {"event", "field", "address"}
Ok(l) == l.kind \in {"ok", "okCR", "okValue"}

VARIABLES
  cmdMu, pc,               \* owner of cmdMu; each caller's control
  kind, num, script,       \* each caller's command; the rest of the script
  result, response,        \* what exec returned last to each caller
  state, cr,               \* parser state; newline is CR, not CRLF
  results, responses,      \* the two channels
  echo,                    \* the echo flag
  rd, line, seen,          \* reader: control, the line in hand, the state it saw
  partial,                 \* buf: a line that ended in CR while newline is CRLF
  fields,                  \* lines of the current EPANDESC block seen
  todo, wire,              \* module: commands to answer; lines under way
  echoing, scanning,       \* module: echoes commands; a scan will report
  written, events, faults, \* bounds: commands so far, events and faults left
  clean,                   \* history: nothing was under way when the caller's
                           \* command was written
  unanswered               \* history: commands the module left without an answer
callers == <<cmdMu, pc, kind, num, script, result, response, clean>>
parser == <<state, cr, fields>>
channels == <<results, responses>>
reader == <<rd, line, seen, partial>>
module == <<todo, wire, echoing, scanning, unanswered>>
bounds == <<written, events, faults>>
vars == <<callers, parser, channels, echo, reader, module, bounds>>

Init ==
  /\ cmdMu = Nobody /\ pc = [c \in Callers |-> "idle"]
  /\ kind = [c \in Callers |-> "plain"] /\ num = [c \in Callers |-> 0]
  /\ script = <<>>
  /\ result = [c \in Callers |-> NoLine] /\ response = [c \in Callers |-> <<>>]
  /\ clean = [c \in Callers |-> TRUE]
  /\ state = "normal" /\ cr = FALSE /\ fields = 0
  /\ results = <<>> /\ responses = <<>>
  /\ echo \in BOOLEAN /\ echoing = echo
  /\ rd = "ready" /\ line = NoLine /\ seen = "normal" /\ partial = NoLine
  /\ todo = <<>> /\ wire = <<>> /\ scanning = FALSE /\ unanswered = {}
  /\ written = 0 /\ events = MaxEvents /\ faults = MaxFaults

Fault == faults > 0 /\ faults' = faults - 1

(* A mutant: the queue of lines grows without a limit.                     *)
BugPushUnbounded(ch, x, size) == Append(ch, x)

Push(ch, x, size) == IF Len(ch) < size THEN Append(ch, x) ELSE ch   \* send()

-----------------------------------------------------------------------------
(* The callers *)

(* initModule raises the echo flag before the baud rate search and lowers  *)
(* it after SKSREG SFE 0 has succeeded: between two commands, without      *)
(* cmdMu.                                                                  *)
StoresEcho(next) ==
  echo' = \/ next = "probe"
          \/ echo /\ ~(kind["manager"] = "echoOff"
                      /\ result["manager"].kind \notin {"none", "fail"})

(* The client sends a datagram; the manager goes on with its script, or    *)
(* starts one. It waits for the end of a scan unless it times out.         *)
Begin(c) ==
  /\ pc[c] = "idle"
  /\ written + Cardinality({d \in Callers : pc[d] = "lock"}) < MaxCommands
  /\ IF c = "client"
       THEN kind' = [kind EXCEPT ![c] = "plain"] /\ UNCHANGED <<script, echo, faults>>
       ELSE /\ \E s \in IF script = <<>> THEN Scripts ELSE {script} :
                 /\ kind' = [kind EXCEPT ![c] = Head(s)] /\ script' = Tail(s)
                 /\ StoresEcho(Head(s))
            /\ IF scanning THEN Fault ELSE UNCHANGED faults
  /\ pc' = [pc EXCEPT ![c] = "lock"]
  /\ result' = [result EXCEPT ![c] = NoLine] /\ response' = [response EXCEPT ![c] = <<>>]
  /\ UNCHANGED <<cmdMu, num, clean, parser, channels, reader, module, written, events>>

(* A mutant: SKLL64 forgotten in exec's switch.                            *)
BugNoAddressMode(k) == IF k = "option" THEN "product" ELSE "normal"

ModeOf(k) == IF k = "address" THEN "address"
             ELSE IF k = "option" THEN "product" ELSE "normal"

(* Nothing of an earlier command is under way: the module has answered and *)
(* reported all it will, only EVENTs are on the line, the reader has none  *)
(* in its hands and none is kept back in buf.                              *)
Quiet == /\ todo = <<>> /\ ~scanning
         /\ \A i \in 1..Len(wire) : wire[i].kind = "event"
         /\ rd = "ready" /\ partial = NoLine

(* A mutant: drainResponses forgets the results.                           *)
BugDrainsResponsesOnly == results' = results /\ responses' = <<>>

DrainResponses == results' = <<>> /\ responses' = <<>>

(* exec, up to the write: cmdMu, drainResponses, setMode, Write. The baud  *)
(* rate search empties buf and the port first.                             *)
Write(c) ==
  /\ pc[c] = "lock" /\ cmdMu = Nobody
  /\ cmdMu' = c
  /\ DrainResponses
  /\ state' = ModeOf(kind[c]) /\ cr' = (kind[c] \in {"option", "setOption"})
  /\ written' = written + 1 /\ num' = [num EXCEPT ![c] = written + 1]
  /\ clean' = [clean EXCEPT ![c] = Quiet]
  /\ IF kind[c] = "probe"
       THEN wire' = <<>> /\ partial' = NoLine
       ELSE UNCHANGED <<wire, partial>>
  /\ todo' = Append(todo, [kind |-> kind[c], of |-> written + 1])
  /\ pc' = [pc EXCEPT ![c] = IF echo THEN "echo" ELSE "wait"]
  /\ UNCHANGED <<kind, script, result, response, fields, echo, rd, line, seen, echoing,
                 scanning, unanswered, events, faults>>

(* skipEcho: one line, put back at the end if it is not the echo, or 1 s.  *)
SkipEcho(c) ==
  /\ pc[c] = "echo"
  /\ \/ /\ responses # <<>>
        /\ LET l == Head(responses)
           IN  responses' = IF l.kind = "echo" /\ l.of = num[c]
                              THEN Tail(responses)
                              ELSE Push(Tail(responses), l, ResponseBuffer)
     \/ /\ responses = <<>> /\ UNCHANGED responses
  /\ pc' = [pc EXCEPT ![c] = "wait"]
  /\ UNCHANGED <<cmdMu, kind, num, script, result, response, clean, parser, results,
                 echo, reader, module, bounds>>

(* A mutant: cmdMu is kept after an error.                                 *)
BugKeepsCmdMu(c, failed) ==
  /\ cmdMu' = IF failed THEN cmdMu ELSE Nobody
  /\ pc' = [pc EXCEPT ![c] = "idle"]
  /\ script' = IF failed /\ c = "manager" THEN <<>> ELSE script
  /\ UNCHANGED <<kind, num, clean, parser, reader, module, written, events>>

(* exec returns: the manager drops the rest of the script after an error,  *)
(* except the baud rate search, which tries again.                         *)
Return(c, failed) ==
  /\ cmdMu' = Nobody
  /\ pc' = [pc EXCEPT ![c] = "idle"]
  /\ IF failed /\ c = "manager"
       THEN script' = IF kind[c] = "probe" THEN <<"probe">> \o script ELSE <<>>
       ELSE UNCHANGED script
  /\ UNCHANGED <<kind, num, clean, parser, reader, module, written, events>>

(* A result: anything but FAIL is an OK; collectResponses takes all there  *)
(* is.                                                                     *)
TakeResult(c) ==
  /\ pc[c] = "wait" /\ results # <<>>
  /\ result' = [result EXCEPT ![c] = Head(results)]
  /\ results' = Tail(results)
  /\ IF Head(results).kind = "fail"
       THEN UNCHANGED <<response, responses>>
       ELSE /\ response' = [response EXCEPT ![c] = responses]
            /\ responses' = <<>>
  /\ Return(c, Head(results).kind = "fail")
  /\ UNCHANGED <<echo, faults>>

(* The result timer, or the context: a request's deadline runs from before *)
(* it waited for cmdMu. The answer may come all the same.                  *)
GiveUp(c) ==
  /\ pc[c] = "wait"
  /\ Return(c, TRUE)
  /\ UNCHANGED <<result, response, channels, echo, faults>>

-----------------------------------------------------------------------------
(* The reader: feed and processLine *)

(* A line that ends in CR is not a line while newline is CRLF: it sticks   *)
(* to what comes next, and what follows it is lost in it.                  *)
EndsInCR(l) == l.kind \in {"okCR", "okValue"}

ReadLine ==
  /\ rd = "ready"
  /\ \/ /\ partial # NoLine /\ cr
        /\ line' = partial /\ partial' = NoLine /\ rd' = "taken"
        /\ UNCHANGED wire
     \/ /\ wire # <<>> /\ ~(partial # NoLine /\ cr)
        /\ wire' = Tail(wire)
        /\ IF partial # NoLine
             THEN line' = partial /\ partial' = NoLine /\ rd' = "taken"
             ELSE IF EndsInCR(Head(wire)) /\ ~cr
               THEN partial' = Head(wire) /\ UNCHANGED <<line, rd>>
               ELSE line' = Head(wire) /\ rd' = "taken" /\ UNCHANGED partial
  /\ UNCHANGED <<callers, parser, channels, echo, seen, todo, echoing, scanning, unanswered,
                 bounds>>

(* processLine looks at the parser's state, which exec may have set since  *)
(* feed looked at newline.                                                 *)
ReadState ==
  /\ rd = "taken"
  /\ rd' = "process" /\ seen' = state
  /\ UNCHANGED <<callers, parser, channels, echo, line, partial, module, bounds>>

(* processNormal *)
AsNormal(l) ==
  /\ results' = IF Ok(l) \/ l.kind = "fail"
                  THEN Push(results, l, ResultBuffer) ELSE results
  /\ responses' = IF l.kind \in {"field", "address", "version", "echo"}
                    THEN Push(responses, l, ResponseBuffer) ELSE responses
  /\ IF l.kind = "epandesc"
       THEN fields' = 0 /\ state' = "epandesc"
       ELSE UNCHANGED <<fields, state>>
  /\ rd' = "ready"

ProcessNormal == seen = "normal" /\ AsNormal(line)

(* processEpandesc: a line with a colon is a field, or passed over.        *)
ProcessEpandesc ==
  /\ seen = "epandesc" /\ HasColon(line)
  /\ fields' = IF line.kind = "field" THEN fields + 1 ELSE fields
  /\ state' = IF fields' = Fields THEN "normal" ELSE state
  /\ rd' = "ready"
  /\ UNCHANGED channels

LeaveEpandesc ==
  /\ seen = "epandesc" /\ ~HasColon(line)
  /\ LET base == IF line.kind = "epandesc" THEN "epandesc" ELSE "normal"
     IN  /\ state' = base
         /\ fields' = IF base = "epandesc" THEN 0 ELSE fields
  /\ results' = IF Ok(line) \/ line.kind = "fail"
                  THEN Push(results, line, ResultBuffer) ELSE results
  /\ responses' = IF line.kind \in {"version", "echo"}
                    THEN Push(responses, line, ResponseBuffer) ELSE responses
  /\ rd' = "ready"

(* stateSKLL64: FAIL is the result, any other line the address, and OK.    *)
ProcessAddress ==
  /\ seen = "address"
  /\ IF line.kind = "fail"
       THEN /\ results' = Push(results, line, ResultBuffer)
            /\ UNCHANGED responses
       ELSE /\ responses' = Push(responses, line, ResponseBuffer)
            /\ results' = Push(results, [kind |-> "ok", of |-> line.of], ResultBuffer)
  /\ rd' = "settle"
  /\ UNCHANGED <<fields, state>>

(* stateProductRead: any line is the result, with a value if it has one.   *)
ProcessProduct ==
  /\ seen = "product"
  /\ responses' = IF line.kind = "okValue"
                    THEN Push(responses, line, ResponseBuffer) ELSE responses
  /\ results' = Push(results, line, ResultBuffer)
  /\ rd' = "settle"
  /\ UNCHANGED <<fields, state>>

ProcessLine ==
  /\ rd = "process"
  /\ ProcessNormal \/ ProcessEpandesc \/ LeaveEpandesc \/ ProcessAddress \/ ProcessProduct
  /\ line' = NoLine
  /\ UNCHANGED <<callers, cr, echo, seen, partial, module, bounds>>

(* setState(stateNormal), after the result has been handed out.            *)
Settle ==
  /\ rd = "settle"
  /\ state' = "normal" /\ rd' = "ready"
  /\ UNCHANGED <<callers, cr, fields, channels, echo, line, seen, partial, module, bounds>>

-----------------------------------------------------------------------------
(* The module *)

Outside == UNCHANGED <<callers, parser, channels, echo, reader, written>>
L(k, n) == [kind |-> k, of |-> n]

(* It answers the oldest command, after its echo.                          *)
AnswerLines(k, n) ==
  (IF echoing THEN <<L("echo", n)>> ELSE <<>>) \o
  (IF k = "address" THEN <<L("address", n)>>
   ELSE IF k = "option" THEN <<L("okValue", n)>>
   ELSE IF k = "setOption" THEN <<L("okCR", n)>>
   ELSE IF k \in {"probe", "version"} THEN <<L("version", n), L("ok", n)>>
   ELSE <<L("ok", n)>>)

ModuleAnswers ==
  /\ todo # <<>>
  /\ todo' = Tail(todo)
  /\ LET k == Head(todo).kind
         n == Head(todo).of
     IN  \/ /\ wire' = wire \o AnswerLines(k, n)
            /\ echoing' = (k = "reset" \/ (echoing /\ k # "echoOff"))
            /\ scanning' = (k = "scan" \/ (scanning /\ k # "reset"))
            /\ UNCHANGED <<unanswered, faults>>
         \/ /\ wire' = Append(wire, L("fail", n)) /\ Fault
            /\ UNCHANGED <<echoing, scanning, unanswered>>
         \/ /\ unanswered' = unanswered \cup {n} /\ Fault
            /\ UNCHANGED <<wire, echoing, scanning>>
  /\ UNCHANGED events
  /\ Outside

(* A scan reports a network, perhaps with a line lost, and is over.        *)
Block == <<L("epandesc", 0)>> \o [i \in 1..Fields |-> L("field", 0)]
ScanReports ==
  /\ scanning
  /\ scanning' = FALSE
  /\ \/ wire' = wire \o Block \o <<L("event", 0)>> /\ UNCHANGED faults
     \/ wire' = wire \o Front(Block) \o <<L("event", 0)>> /\ Fault
  /\ UNCHANGED <<todo, echoing, unanswered, events>>
  /\ Outside

(* EVENTs and datagrams come at any time between two lines.                *)
Unasked ==
  /\ events > 0
  /\ events' = events - 1
  /\ wire' = Append(wire, L("event", 0))
  /\ UNCHANGED <<todo, echoing, scanning, unanswered, faults>>
  /\ Outside

-----------------------------------------------------------------------------
ReaderStep == ReadLine \/ ReadState \/ ProcessLine \/ Settle
CallerStep(c) == Begin(c) \/ Write(c) \/ SkipEcho(c) \/ TakeResult(c) \/ GiveUp(c)
Next == (\E c \in Callers : CallerStep(c)) \/ ReaderStep
        \/ ModuleAnswers \/ ScanReports \/ Unasked

Spec == Init /\ [][Next]_vars

(* The goroutines run, the timers of skipEcho and exec fire, Go's mutex is *)
(* fair to those who wait for it. Nothing is assumed of the module.        *)
FairSpec ==
  /\ Spec
  /\ WF_vars(ReaderStep)
  /\ \A c \in Callers :
       SF_vars(Write(c)) /\ WF_vars(SkipEcho(c)) /\ WF_vars(TakeResult(c) \/ GiveUp(c))

-----------------------------------------------------------------------------
(* Properties *)

TypeOK ==
  /\ cmdMu \in Callers \cup {Nobody}
  /\ pc \in [Callers -> {"idle", "lock", "echo", "wait"}]
  /\ kind \in [Callers -> Kinds] /\ num \in [Callers -> Nat]
  /\ script \in Seq(Kinds) /\ clean \in [Callers -> BOOLEAN]
  /\ result \in [Callers -> Line \cup {NoLine}]
  /\ response \in [Callers -> Seq(Line)]
  /\ state \in {"normal", "epandesc", "address", "product"}
  /\ cr \in BOOLEAN /\ fields \in 0..Fields
  /\ results \in Seq(Line) /\ Len(results) <= ResultBuffer
  /\ responses \in Seq(Line) /\ Len(responses) <= ResponseBuffer
  /\ echo \in BOOLEAN /\ echoing \in BOOLEAN /\ scanning \in BOOLEAN
  /\ rd \in {"ready", "taken", "process", "settle"}
  /\ line \in Line \cup {NoLine} /\ partial \in Line \cup {NoLine}
  /\ seen \in {"normal", "epandesc", "address", "product"}
  /\ wire \in Seq(Line) /\ \A i \in 1..Len(todo) : todo[i].kind \in Kinds
  /\ written \in 0..MaxCommands /\ unanswered \subseteq 1..MaxCommands
  /\ events \in 0..MaxEvents /\ faults \in 0..MaxFaults

(* A command written on a quiet line returns its own result, whatever the  *)
(* other caller, events and time-outs did before: of what they left in the *)
(* channel drainResponses leaves nothing. The two modes that take any line *)
(* for the answer are the exception. Not every command is so lucky: what   *)
(* is still under way when a command is written comes after drainResponses *)
(* and is taken for its answer.                                            *)
OwnResult ==
  \A c \in Callers :
    clean[c] /\ result[c] # NoLine =>
      \/ result[c].of = num[c]
      \/ result[c].of = 0 /\ kind[c] \in {"address", "option"}

Answer(l, n) == l.of = n /\ l.kind # "echo"
AnswerComing(c) ==
  \/ \E i \in 1..Len(todo) : todo[i].of = num[c]
  \/ \E i \in 1..Len(wire) : Answer(wire[i], num[c])
  \/ Answer(line, num[c]) \/ Answer(partial, num[c])

Busy(c) == pc[c] \in {"echo", "wait"}

(* The answer of a command written on a quiet line is never lost on the    *)
(* way by the parser: it stays due, in the channel or behind another       *)
(* result, until exec returns, though exec switches the parser's state and *)
(* newline for it and an EPANDESC block before it may have stayed open.    *)
(* Nothing is said of a command that is written while the reader has a     *)
(* line in its hands, or one in buf: its mode may be undone by the reader, *)
(* its answer may be glued to that line, and it ends by the result timer.  *)
AnswerReachesCaller ==
  \A c \in Callers :
    Busy(c) /\ clean[c] /\ num[c] \notin unanswered =>
      AnswerComing(c) \/ results # <<>>

(* reader.go:95 - SKLL64 answers with an IPv6 address; so that is what its *)
(* caller, connect, gets when it succeeds.                                 *)
AddressIsAnAddress ==
  \A c \in Callers :
    clean[c] /\ kind[c] = "address" /\ Ok(result[c]) =>
      response[c] = <<[kind |-> "address", of |-> num[c]]>>

(* Every command ends and gives cmdMu to the next, whatever the module     *)
(* does.                                                                   *)
EveryCommandEnds == \A c \in Callers : (pc[c] # "idle") ~> (pc[c] = "idle")
=============================================================================
