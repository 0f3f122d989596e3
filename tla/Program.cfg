SPECIFICATION Spec
CONSTANTS
  MaxDepth = 3
  MaxCount = 2
  MaxElements = 2
  MaxCalls = 2
  MaxErrors = 6
  Stacks = {"result", "errs", "temporary"}
  ClassOptions = {"no_duplicates"}
INVARIANTS TraceOfLastParse AnswerIsTrue ListsSound TraceIsPath
PROPERTIES ImplementsSession Finishes MembersKeepPromise
CHECK_DEADLOCK FALSE
