-------------------------------- MODULE Program --------------------------------
(***************************************************************************)
(* A program that reads objects of a generated class with from_json() and  *)
(* from_document() (from_json.hpp, dom.hpp), into one ParsingResult and    *)
(* one ErrorStack.  The class has a boost::optional and a std::vector: its *)
(* handler is ObjectHandler, its members' are OptionalHandler and          *)
(* VectorHandler, each driven by what the class handler forwards to it.    *)
(*                                                                         *)
(* When the producer stops, the errors are reaped from handler to handler  *)
(* into the list of ErrorStack, and the caller prints and pops them.  Each *)
(* call is given a new object.  The text is left to the module JsonSource. *)
(***************************************************************************)
EXTENDS ErrorStack, SequencesExt

CONSTANTS
  MaxDepth,      (* bounds of JsonSource: nesting,                         *)
  MaxCount,      (* members of the object                                  *)
  MaxElements,   (* elements of the vector                                 *)
  MaxCalls,      (* bound: calls of one program                            *)
  ClassOptions   (* the options of the class definition                    *)

ASSUME ProgramAssumption ==
  /\ MaxDepth \in Nat /\ MaxCount \in Nat /\ MaxElements \in Nat
  /\ MaxCalls \in Nat
  /\ ClassOptions \subseteq {"no_duplicates", "strict"}
  /\ Stacks = {"result", "errs", "temporary"}

VARIABLES
  (* the class handler                                                     *)
  open, keyed, phase, count, state, depth, the_error, has, handlers,
  named, fedBy,
  (* the optional and its handler                                          *)
  optional, opt_handler, opt_depth, opt_fault, opt_preset, opt_text, opt_count,
  opt_noted,
  (* the vector and its handler                                            *)
  vec_state, vec_error, current, inner, value, base, vec_count, vec_noted,
  (* the calls                                                             *)
  pc,            (* what the program is doing, see Activities              *)
  asked,         (* whose ReapError() is next, see ReapSteps               *)
  it,            (* the iterator of operator<<                             *)
  code,          (* result.error_code()                                    *)
  returned,      (* what the last call returned                            *)
  function,      (* history: the function that ended last                  *)
  call,          (* history: number of calls ended or ending               *)
  parse,         (* history: the last call that parsed                     *)
  reaped         (* history: errors the last call has pushed               *)

classVars == <<open, keyed, phase, count, state, depth, has, handlers,
               named, fedBy, the_error>>
optVars == <<optional, opt_handler, opt_depth, opt_fault, opt_preset,
             opt_text, opt_count, opt_noted>>
vecVars == <<vec_state, vec_error, current, inner, value, base, vec_count,
             vec_noted>>
handlerVars == <<classVars, optVars, vecVars>>
callVars == <<code, returned, function, call, parse, reaped>>
vars == <<handlerVars, errorStackVars, callVars, pc, asked, it>>

Activities == {"idle", "from_json", "from_document", "clearing", "reaping",
               "printing"}
ReapSteps == {"class", "member", "element", "nobody"}

(* A member's handler as the class handler drives it: the key of a member  *)
(* that is complete gives its handler another value.                       *)
OpenOf(m) == handlers[m].fed
KeyedOf(m) == keyed /\ state = m /\ Len(open) > 1
PhaseOf(m) ==
  LET chosen == keyed /\ state = m /\ Len(open) = 1
  IN  CASE handlers[m].status = "fresh" -> "waiting"
        [] handlers[m].status = "busy" -> "reading"
        [] handlers[m].status = "failed" -> "terminated"
        [] OTHER -> IF chosen THEN "waiting" ELSE "done"

Opt == INSTANCE OptionalHandler WITH
  open <- OpenOf("optional"), keyed <- KeyedOf("optional"),
  phase <- PhaseOf("optional"), count <- opt_count, m_value <- optional,
  internal_handler <- opt_handler, depth <- opt_depth, fault <- opt_fault,
  preset <- opt_preset, text <- opt_text, noted <- opt_noted

Vec == INSTANCE VectorHandler WITH
  open <- OpenOf("sequence"), keyed <- KeyedOf("sequence"),
  phase <- PhaseOf("sequence"), count <- vec_count, container <- "vector",
  state <- vec_state, the_error <- vec_error, index <- 0,
  noted <- vec_noted, N <- 1, MaxCount <- MaxElements, MaxPrior <- MaxElements

(* HasError() of a member's handler, and what the class handler sees of it *)
(* in the middle of the member's value.                                    *)
ErrorOf(m) ==
  \/ m = "optional" /\ Opt!Error
  \/ m = "sequence" /\ vec_error # Vec!NoError

MemberNoted ==
  \E m \in {"optional", "sequence"} : handlers[m].status = "busy" /\ ErrorOf(m)

Class == INSTANCE ObjectHandler WITH
  Members <- {"optional", "sequence"}, Required <- {"sequence"},
  Unknown <- "unknown", options <- ClassOptions, earlier <- {},
  noted <- MemberNoted

-----------------------------------------------------------------------------

Init ==
  /\ ErrorStackInit
  /\ Class!Init
  /\ Opt!Init /\ optional = "null" /\ opt_count = 0
  /\ Vec!Init /\ value = <<>>
  /\ pc = "idle"
  /\ asked = "class"
  /\ it = Null
  /\ code = "None"
  /\ returned = TRUE
  /\ function = "none"
  /\ call = 0
  /\ parse = 0
  /\ reaped = 0

(* The next call's handlers and object.                                    *)
NewHandlers ==
  /\ open' = <<>> /\ keyed' = FALSE /\ phase' = "waiting" /\ count' = 0
  /\ state' = "unknown" /\ depth' = 0 /\ the_error' = Class!NoError
  /\ has' = Class!NoFlags /\ handlers' = Class!AllFresh
  /\ named' = <<>> /\ fedBy' = Class!NeverFed
  /\ optional' = "null" /\ opt_handler' = Opt!none /\ opt_depth' = 0
  /\ opt_fault' = FALSE /\ opt_preset' = FALSE
  /\ opt_text' = "none" /\ opt_count' = 0 /\ opt_noted' = FALSE
  /\ vec_state' = <<>> /\ vec_error' = Vec!NoError /\ current' = Vec!Blank
  /\ inner' = Vec!Fresh /\ value' = <<>> /\ base' = 0 /\ vec_count' = 0
  /\ vec_noted' = FALSE

Begin(name) ==
  /\ pc = "idle"
  /\ call < MaxCalls
  /\ pc' = name
  /\ UNCHANGED <<handlerVars, errorStackVars, callVars, asked, it>>

from_json == Begin("from_json")
from_document == Begin("from_document")

(* from_json_file() of a name that cannot be opened.                       *)
from_json_file_unopened ==
  /\ pc = "idle"
  /\ call < MaxCalls
  /\ call' = call + 1
  /\ function' = "from_json_file"
  /\ returned' = FALSE
  /\ reaped' = 0
  /\ UNCHANGED <<handlerVars, errorStackVars, pc, asked, it,
                 code, parse>>

(* The class handler calls the method of m's handler for this event.       *)
ForwardedTo(m) ==
  /\ state = m
  /\ keyed \/ Len(open) > 1
  /\ phase' # "malformed"

OptionalStep ==
  \/ ForwardedTo("optional") /\ Opt!Event /\ Opt!PartNotes
  \/ /\ ~ForwardedTo("optional")
     /\ \/ Opt!RepeatedMember /\ Opt!PartNotes
        \/ UNCHANGED optVars /\ UNCHANGED Opt!sourceVars

VectorStep ==
  \/ /\ ForwardedTo("sequence")
     /\ \/ Vec!Scalar
        \/ Vec!Key
        \/ Vec!StartArray
        \/ Vec!EndArray
        \/ Vec!StartObject
        \/ Vec!EndObject
     /\ Vec!PartNotes
  \/ /\ ~ForwardedTo("sequence")
     /\ \/ Vec!RepeatedMember /\ Vec!PartNotes
        \/ UNCHANGED vecVars /\ UNCHANGED Vec!sourceVars

(* One event: the class handler's step, and that of the member the event   *)
(* is forwarded to.  A document cannot be malformed.                       *)
Event ==
  /\ pc \in {"from_json", "from_document"}
  /\ Class!Event
  /\ pc = "from_document" => phase' # "malformed"
  /\ OptionalStep
  /\ VectorStep
  /\ UNCHANGED <<errorStackVars, callVars, pc, asked, it>>

-----------------------------------------------------------------------------
(* The end of the parse: set_result(), the chain of ReapError(), and the   *)
(* answer.                                                                 *)

Outcome == CASE phase = "done" -> "None"
             [] phase = "terminated" -> "Termination"
             [] phase = "malformed" -> "Malformed"

(* Parse() or Accept() has returned.                                       *)
Ended(name) ==
  /\ pc = name
  /\ phase \in {"done", "terminated", "malformed"}
  /\ function' = name
  /\ call' = call + 1
  /\ reaped' = 0
  /\ UNCHANGED <<handlerVars, asked, it, returned>>

(* Mutant: the errors of an earlier call are kept.                         *)
set_result_Keeps ==
  /\ Ended("from_json")
  /\ pc' = "clearing"
  /\ code' = Outcome
  /\ parse' = call'
  /\ UNCHANGED errorStackVars

(* ErrorStack().swap(stack): the temporary takes the earlier errors.       *)
set_result ==
  /\ Ended("from_json")
  /\ pc' = "clearing"
  /\ code' = Outcome
  /\ parse' = call'
  /\ swap("temporary", "result")

(* The temporary's destructor, then the way on to ReapError().             *)
ClearTemporary ==
  /\ pc = "clearing"
  /\ \/ /\ destroy_head("temporary")
        /\ UNCHANGED pc
     \/ /\ empty("temporary")
        /\ construct("temporary")
        /\ pc' = "reaping"
  /\ UNCHANGED <<handlerVars, callVars, asked, it>>

Accepted ==
  /\ Ended("from_document")
  /\ pc' = "reaping"
  /\ UNCHANGED <<errorStackVars, code, parse>>

(* Mutant: the errors always go to the ParsingResult.                      *)
Target_Result == "result"

(* The list that ReapError() is given.                                     *)
Target == IF function = "from_json" THEN "result" ELSE "errs"

NewError(type, member, index) ==
  [type |-> type, member |-> member, index |-> index,
   call |-> call, level |-> reaped + 1]

Pushes(e) ==
  /\ push(Target, e)
  /\ reaped' = reaped + 1

PushesNothing == UNCHANGED <<errorStackVars, reaped>>

Asks(from, to) ==
  /\ pc = "reaping"
  /\ asked = from
  /\ asked' = to
  /\ UNCHANGED <<pc, it, code, returned, function, call, parse, optVars>>

(* The class handler's ReapError(): its own error is released, and the     *)
(* switch on state chooses the member to ask.                              *)
ReapClass ==
  /\ \/ /\ the_error = Class!NoError
        /\ Asks("class", "nobody")
        /\ PushesNothing
     \/ /\ the_error # Class!NoError
        /\ Asks("class", "member")
        /\ Pushes(NewError(the_error.type, state, -1))
  /\ the_error' = Class!NoError
  /\ UNCHANGED <<open, keyed, phase, count, state, depth, has, handlers,
                 named, fedBy, vecVars>>

(* Mutant: the vector's handler does not ask its element's.                *)
ReapMember_LinkOnly ==
  /\ Asks("member", "nobody")
  /\ \/ /\ state = "sequence" /\ vec_error # Vec!NoError
        /\ Pushes(NewError(vec_error.type, "unknown", vec_error.at))
     \/ /\ state # "sequence" \/ vec_error = Vec!NoError
        /\ PushesNothing
  /\ UNCHANGED <<classVars, vecVars>>

(* The member's ReapError(): an optional has no error of its own.          *)
ReapMember ==
  /\ \/ /\ \/ state = "unknown"
           \/ state = "optional" /\ opt_handler = Opt!none
           \/ state = "sequence" /\ vec_error = Vec!NoError
        /\ Asks("member", "nobody")
        /\ PushesNothing
     \/ /\ state = "optional" /\ opt_handler # Opt!none
        /\ Asks("member", "element")
        /\ PushesNothing
     \/ /\ state = "sequence" /\ vec_error # Vec!NoError
        /\ Asks("member", "element")
        /\ Pushes(NewError(vec_error.type, "unknown", vec_error.at))
  /\ vec_error' = IF state = "sequence" THEN Vec!NoError ELSE vec_error
  /\ UNCHANGED <<classVars, vec_state, current, inner, value, base, vec_count,
                 vec_noted>>

ElementHasError ==
  IF state = "optional" THEN Opt!HasError(opt_handler) ELSE Vec!HasError(inner)

(* The element's handler, whatever it is, has at most one more error here. *)
ReapElement ==
  /\ Asks("element", "nobody")
  /\ \/ ElementHasError /\ Pushes(NewError("FINAL", "unknown", -1))
     \/ ~ElementHasError /\ PushesNothing
  /\ UNCHANGED <<classVars, vecVars>>

has_error == code # "None" \/ ~empty("result")

(* Mutant: from_document answers by the result's code.                     *)
Answer_CodeOnly == code = "None"

Answer == IF function = "from_json" THEN ~has_error ELSE empty("errs")

Return ==
  /\ pc = "reaping"
  /\ asked = "nobody"
  /\ returned' = Answer
  /\ pc' = "idle"
  /\ asked' = "class"
  /\ NewHandlers
  /\ UNCHANGED <<errorStackVars, code, function, call, parse, reaped, it>>

-----------------------------------------------------------------------------
(* What the caller does with the errors.                                   *)

(* operator<<                                                              *)
PrintTrace ==
  /\ pc = "idle"
  /\ \E s \in {"result", "errs"} : it' = head[s]
  /\ pc' = "printing"
  /\ UNCHANGED <<handlerVars, errorStackVars, callVars, asked>>

PrintNext ==
  /\ pc = "printing"
  /\ \/ it # Null /\ it' = next[it] /\ UNCHANGED pc
     \/ it = Null /\ pc' = "idle" /\ UNCHANGED it
  /\ UNCHANGED <<handlerVars, errorStackVars, callVars, asked>>

Pop ==
  /\ pc = "idle"
  /\ released = {}      (* bound: one error is held at a time *)
  /\ pop("errs")
  /\ UNCHANGED <<handlerVars, callVars, pc, asked, it>>

Delete ==
  /\ pc = "idle"
  /\ \E a \in released : delete(a)
  /\ UNCHANGED <<handlerVars, callVars, pc, asked, it>>

Reap == ReapClass \/ ReapMember \/ ReapElement

Next ==
  \/ from_json
  \/ from_document
  \/ from_json_file_unopened
  \/ Event
  \/ set_result
  \/ ClearTemporary
  \/ Accepted
  \/ Reap
  \/ Return
  \/ PrintTrace
  \/ PrintNext
  \/ Pop
  \/ Delete

(* Once the parse has ended a call is straight code, and so is printing:   *)
(* nobody else is needed for it to go on.  Nothing is promised of reading, *)
(* which is as long as the text, nor of what the caller does next.         *)
Fairness ==
  /\ WF_vars(ClearTemporary)
  /\ WF_vars(Reap)
  /\ WF_vars(Return)
  /\ WF_vars(PrintNext)

Spec == Init /\ [][Next]_vars /\ Fairness
-----------------------------------------------------------------------------

TypeOK ==
  /\ ErrorStackTypeOK
  /\ pc \in Activities
  /\ asked \in ReapSteps
  /\ it \in Pointers
  /\ code \in {"None", "Termination", "Malformed"}
  /\ returned \in BOOLEAN
  /\ function \in {"none", "from_json", "from_json_file", "from_document"}
  /\ call \in 0..MaxCalls
  /\ parse \in 0..call
  /\ reaped \in 0..3

(* The refinement of Session.  A call takes effect there when the parse    *)
(* has ended: what the chain of ReapError() will still push is known then. *)

ElementErrors == IF ElementHasError THEN 1 ELSE 0

MemberErrors ==
  CASE state = "unknown" -> 0
    [] state = "optional" -> ElementErrors
    [] state = "sequence" -> IF vec_error = Vec!NoError THEN 0
                             ELSE 1 + ElementErrors

Pending ==
  IF pc \notin {"clearing", "reaping"} THEN 0
  ELSE CASE asked = "class" -> IF the_error = Class!NoError THEN 0
                               ELSE 1 + MemberErrors
         [] asked = "member" -> MemberErrors
         [] asked = "element" -> ElementErrors
         [] asked = "nobody" -> 0

Levels == reaped + Pending

Names(s) ==
  LET pushed == Contents(s)
      names == [i \in DOMAIN pushed |->
                  [call |-> pushed[i].call, level |-> pushed[i].level]]
      coming == [i \in 1..Pending |->
                   [call |-> call, level |-> Levels + 1 - i]]
  IN  IF s = Target THEN coming \o names ELSE names

AnswerToCome ==
  IF function = "from_json" THEN code = "None" /\ Names("result") = <<>>
                            ELSE Names("errs") = <<>>

Promised == INSTANCE Session WITH
  MaxLevels <- 3,
  stack <- Names("result"),
  errs <- Names("errs"),
  returned <- IF pc \in {"clearing", "reaping"} THEN AnswerToCome
              ELSE returned,
  failed <- [n \in 1..Levels |-> [call |-> call, level |-> n]]

(* The program, however its lists are linked and its calls proceed, does   *)
(* what Session says of complete calls; in particular the outcomes Session *)
(* takes from the handlers are the only ones they have.                    *)
ImplementsSession == Promised!Spec

(* Whenever the caller can look, the trace is that of the last parse, the  *)
(* innermost level first, however often the result has been used before.   *)
TraceOfLastParse == Promised!TraceOfLastParse

(* What is returned agrees with the last call's errors: from_json() says   *)
(* what its result says, and from_document() never reports success for a   *)
(* conversion that failed.                                                 *)
AnswerIsTrue == Promised!AnswerIsTrue

(* No error is leaked, owned twice or freed while it is listed, whatever   *)
(* is swapped, destroyed and popped, and size() counts the list.           *)
ListsSound ==
  /\ OwnedOnce
  /\ ~fault
  /\ \A s \in {"result", "errs"} : m_size[s] = Len(Visited(s))

Intermediate == {"OBJECT_MEMBER", "ARRAY_ELEMENT"}

(* When all handlers have been asked after a rejection, the call's errors  *)
(* are a path from the class to the failure: links all but the last, each  *)
(* naming the key or the position the text was at, and an error that is no *)
(* link.  A text that is not JSON has only the errors noted before, which  *)
(* are no links: a repeated key of the class, and behind it what the       *)
(* optional being read has noted.  An accepted value has none.             *)
TraceIsPath ==
  pc = "reaping" /\ asked = "nobody" =>
    LET pushed == Contents(Target)
        mine == {i \in DOMAIN pushed : pushed[i].call = call}
    IN  /\ phase = "terminated" => mine # {}
        /\ phase = "done" => mine = {}
        /\ \A i \in mine :
             LET e == pushed[i]
                 inside == {j \in mine : j < i}
             IN  /\ phase = "terminated" => (e.type \in Intermediate <=> inside # {})
                 /\ phase = "malformed" =>
                      /\ e.type \in {"DUPLICATE_KEYS", "FINAL"}
                      /\ e.type = "FINAL" <=> inside = {} /\ MemberNoted
                 /\ e.type = "OBJECT_MEMBER" => e.member = Last(named)
                 /\ e.type = "ARRAY_ELEMENT" => e.index = base + vec_count

(* What the class handler takes for granted of its members: each keeps the *)
(* protocol of errors, as far as the class has seen the member's value,    *)
(* even if it is given several values without being prepared or its own    *)
(* element notes an error in the middle, and it always has a handler to    *)
(* call.                                                                   *)
MembersKeepPromise ==
  [][Event =>
       /\ ~opt_fault'
       /\ \A m \in {"optional", "sequence"} :
            Class!ErrorProtocol(ErrorOf(m), ErrorOf(m)', handlers'[m].status)]_vars

(* A call whose parse has ended returns, and printing a trace ends.        *)
Finishes == pc \in {"clearing", "reaping", "printing"} ~> pc = "idle"
=============================================================================
