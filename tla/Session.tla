-------------------------------- MODULE Session --------------------------------
(***************************************************************************)
(* A program's calls of from_json(), from_json_file() and from_document()  *)
(* (from_json.hpp, dom.hpp) that share one ParsingResult and one           *)
(* ErrorStack (error.hpp): what the result and the returned bool say of    *)
(* the last call.                                                          *)
(*                                                                         *)
(* A call leaves one error for every level of the C++ value from the       *)
(* outermost to the one that failed.  Errors are named by call and level.  *)
(***************************************************************************)
EXTENDS Integers, Sequences, SequencesExt

CONSTANTS
  MaxCalls,      (* bound: parses and conversions                          *)
  MaxLevels      (* bound: errors of one call                              *)

VARIABLES
  code,          (* result.error_code()                                    *)
  stack,         (* result.error_stack(), head first                       *)
  errs,          (* the ErrorStack given to from_document                  *)
  returned,      (* what the last call returned                            *)
  call,          (* history: number of calls                               *)
  parse,         (* history: the last call that parsed                     *)
  function,      (* history: the function called last                      *)
  failed         (* history: errors of the last call, outermost first      *)

resultVars == <<code, stack>>
vars == <<code, stack, errs, returned, call, parse, function, failed>>

Codes == {"None", "Termination", "Malformed"}
Errors == [call : 1..MaxCalls, level : 1..MaxLevels]

(* ErrorStack::push() of each error in turn.                               *)
Pushed(stk, errors) == Reverse(errors) \o stk

(* The errors a handler pushes in ReapError(): its own link first, then    *)
(* the element's or the member's.                                          *)
Reaped(levels) == [n \in 1..levels |-> [call |-> call + 1, level |-> n]]

(* Reader::Parse and the handlers: a method that returned false has left   *)
(* an error, and a complete parse has left none.  A malformed text may     *)
(* leave errors of an unfinished object (MCObjectMalformed).               *)
Outcomes ==
  {<<"None", 0>>}
    \cup ({"Termination"} \X (1..MaxLevels))
    \cup ({"Malformed"} \X (0..MaxLevels))

has_error == code # "None" \/ stack # <<>>

-----------------------------------------------------------------------------

Init ==
  /\ code = "None"
  /\ stack = <<>>
  /\ errs = <<>>
  /\ returned = TRUE
  /\ call = 0
  /\ parse = 0
  /\ function = "none"
  /\ failed = <<>>

(* ParsingResult::set_result() and ReapError() on the empty stack.         *)
set_result(outcome, errors) ==
  /\ code' = outcome
  /\ stack' = Pushed(<<>>, errors)

Calls(name, errors) ==
  /\ call < MaxCalls
  /\ call' = call + 1
  /\ function' = name
  /\ failed' = errors

from_json ==
  \E outcome \in Outcomes :
    LET errors == Reaped(outcome[2])
    IN  /\ Calls("from_json", errors)
        /\ set_result(outcome[1], errors)
        /\ returned' = ~has_error'
        /\ parse' = call'
        /\ UNCHANGED errs

(* from_json_file() of a name that cannot be opened.                       *)
from_json_file_unopened ==
  /\ Calls("from_json_file", <<>>)
  /\ returned' = FALSE
  /\ UNCHANGED <<resultVars, errs, parse>>

(* The caller's ErrorStack is not emptied first.                           *)
from_document ==
  \E levels \in 0..MaxLevels :
    LET errors == Reaped(levels)
    IN  /\ Calls("from_document", errors)
        /\ errs' = Pushed(errs, errors)
        /\ returned' = (errs' = <<>>)
        /\ UNCHANGED <<resultVars, parse>>

(* ErrorStack::pop(): the caller takes the innermost error.                *)
pop ==
  /\ errs # <<>>
  /\ errs' = Tail(errs)
  /\ UNCHANGED <<resultVars, returned, call, parse, function, failed>>

Next ==
  \/ from_json
  \/ from_json_file_unopened
  \/ from_document
  \/ pop

Spec == Init /\ [][Next]_vars
-----------------------------------------------------------------------------

TypeOK ==
  /\ code \in Codes
  /\ stack \in Seq(Errors)
  /\ errs \in Seq(Errors)
  /\ returned \in BOOLEAN
  /\ call \in 0..MaxCalls
  /\ parse \in 0..MaxCalls
  /\ function \in {"none", "from_json", "from_json_file", "from_document"}
  /\ failed \in Seq(Errors)

(* The trace is that of the last parse, innermost level first, however     *)
(* often the result has been used before.                                  *)
TraceOfLastParse ==
  /\ \A i \in DOMAIN stack : stack[i] = [call |-> parse, level |-> Len(stack) + 1 - i]
  /\ function = "from_json" => Len(stack) = Len(failed)
  /\ code = "Termination" => stack # <<>>

(* What is returned agrees with the last call's errors: from_json() says   *)
(* what its result says, and from_document() never reports success for a   *)
(* conversion that failed (it may report failure for one that did not:     *)
(* the caller's ErrorStack may hold earlier errors).                       *)
AnswerIsTrue ==
  /\ function = "from_json" => (returned <=> code = "None" /\ failed = <<>>)
  /\ function = "from_document" /\ returned => failed = <<>>
=============================================================================
