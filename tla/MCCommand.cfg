\* The scripts against the client's commands: answers, parser modes, echo; and
\* neither caller is kept out by the other, by a module that does not answer or
\* by lines that wreck the parser's state.
SPECIFICATION FairSpec
CONSTANTS
  Scripts <- AllScripts
  ResultBuffer = 2
  ResponseBuffer = 2
  Fields = 2
  MaxCommands = 2
  MaxEvents = 1
  MaxFaults = 2
CHECK_DEADLOCK FALSE
INVARIANTS
  TypeOK
  
  
PROPERTIES
  EveryCommandEnds
