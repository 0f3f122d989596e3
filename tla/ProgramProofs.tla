----------------------------- MODULE ProgramProofs -----------------------------
(***************************************************************************)
(* The program as a whole: the class handler and its members keep what     *)
(* they owe each other, the linked lists own each error once, the calls    *)
(* implement Session, and the errors of a call are a path to the failure.  *)
(*                                                                         *)
(* The proofs of ObjectHandler and VectorHandler are used as they are:     *)
(* their modules are instantiated for the class and for its vector, which  *)
(* have to be shown to take the steps those proofs are about.              *)
(***************************************************************************)
EXTENDS Program, SequenceTheorems, FiniteSetTheorems, TLAPS

VecP == INSTANCE VectorHandlerProofs WITH
  open <- OpenOf("sequence"), keyed <- KeyedOf("sequence"),
  phase <- PhaseOf("sequence"), count <- vec_count, container <- "vector",
  state <- vec_state, the_error <- vec_error, index <- 0,
  noted <- vec_noted, N <- 1, MaxCount <- MaxElements, MaxPrior <- MaxElements

ClassP == INSTANCE ObjectHandlerProofs WITH
  Members <- {"optional", "sequence"}, Required <- {"sequence"},
  Unknown <- "unknown", options <- ClassOptions, earlier <- {},
  noted <- MemberNoted

(* The vector's handler. *)
LEMMA VectorDefinitions ==
  /\ Vec!Fresh = VecP!Fresh /\ Vec!Blank = VecP!Blank
  /\ Vec!NoError = VecP!NoError
  /\ Vec!sourceVars = VecP!sourceVars
  /\ Vec!AnotherValue <=> VecP!AnotherValue
  /\ \A e, ok : Vec!Emit(e, ok) <=> VecP!Emit(e, ok)
  /\ \A h, e, ok : Vec!Feed(h, e, ok) = VecP!Feed(h, e, ok)
<1>1. /\ Vec!Fresh = VecP!Fresh /\ Vec!Blank = VecP!Blank
      /\ Vec!NoError = VecP!NoError
      /\ Vec!sourceVars = VecP!sourceVars
  BY DEF Vec!Fresh, VecP!Fresh, Vec!Blank, VecP!Blank, Vec!NoError,
         VecP!NoError, Vec!sourceVars, VecP!sourceVars
<1>2. Vec!AnotherValue <=> VecP!AnotherValue
  BY DEF Vec!AnotherValue, VecP!AnotherValue
<1>3. \A s, e : Vec!After(s, e) = VecP!After(s, e)
  BY DEF Vec!After, VecP!After, Vec!KindOf, VecP!KindOf,
         Vec!Starts, VecP!Starts, Vec!Ends, VecP!Ends, Vec!Front, VecP!Front
<1>4. \A e : Vec!MayEmit(e) <=> VecP!MayEmit(e)
  BY DEF Vec!MayEmit, VecP!MayEmit, Vec!ValueMayBegin, VecP!ValueMayBegin,
         Vec!InArray, VecP!InArray, Vec!InObject, VecP!InObject,
         Vec!Starts, VecP!Starts, Vec!Last, VecP!Last
<1>5. \A e : Vec!ClosesElement(e) <=> VecP!ClosesElement(e)
  BY <1>3 DEF Vec!ClosesElement, VecP!ClosesElement, Vec!Ends, VecP!Ends
<1>6. QED
  BY <1>1, <1>2, <1>3, <1>4, <1>5
     DEF Vec!Emit, VecP!Emit, Vec!Feed, VecP!Feed

(* What the vector's handler does at an event is what its own proofs are   *)
(* about.                                                                  *)
LEMMA VectorOperations ==
  /\ \A stack, element, handler :
       Vec!push_when_time_is_right(stack, element, handler)
         <=> VecP!push_when_time_is_right(stack, element, handler)
  /\ \A e : Vec!RejectedByElement(e) <=> VecP!RejectedByElement(e)
  /\ \A e, ok, stack : Vec!checked_event_forwarding(e, ok, stack)
         <=> VecP!checked_event_forwarding(e, ok, stack)
  /\ \A e : Vec!RejectedByDepth(e) <=> VecP!RejectedByDepth(e)
<1>1. \A stack, element, handler :
       Vec!push_when_time_is_right(stack, element, handler)
         <=> VecP!push_when_time_is_right(stack, element, handler)
  BY VectorDefinitions
     DEF Vec!push_when_time_is_right, VecP!push_when_time_is_right,
         Vec!Settled, VecP!Settled, Vec!Push, VecP!Push,
         Vec!Fixed, VecP!Fixed, Vec!Last, VecP!Last
<1>2. \A e : Vec!RejectedByElement(e) <=> VecP!RejectedByElement(e)
  BY VectorDefinitions
     DEF Vec!RejectedByElement, VecP!RejectedByElement, Vec!Written, VecP!Written,
         Vec!set_element_error, VecP!set_element_error, Vec!ElementError,
         VecP!ElementError, Vec!GetCurrentSize, VecP!GetCurrentSize,
         Vec!Fixed, VecP!Fixed
<1>3. \A e, ok, stack : Vec!checked_event_forwarding(e, ok, stack)
         <=> VecP!checked_event_forwarding(e, ok, stack)
  BY <1>1, <1>2, VectorDefinitions
     DEF Vec!checked_event_forwarding, VecP!checked_event_forwarding,
         Vec!Written, VecP!Written
<1>4. \A e : Vec!RejectedByDepth(e) <=> VecP!RejectedByDepth(e)
  BY VectorDefinitions
     DEF Vec!RejectedByDepth, VecP!RejectedByDepth, Vec!TypeMismatch,
         VecP!TypeMismatch
<1>5. QED
  BY <1>1, <1>2, <1>3, <1>4

(* What the vector's element may note is what those proofs let it note.    *)
LEMMA VectorNotes == Vec!PartNotes <=> VecP!PartNotes
<1>1. \A h : Vec!HasError(h) <=> VecP!HasError(h)
  BY DEF Vec!HasError, VecP!HasError
<1>2. Vec!HasError(inner)' <=> VecP!HasError(inner)'
  BY DEF Vec!HasError, VecP!HasError
<1>3. Vec!AtKey <=> VecP!AtKey
  BY DEF Vec!AtKey, VecP!AtKey
<1>4. QED
  BY <1>1, <1>2, <1>3
     DEF Vec!PartNotes, VecP!PartNotes, Vec!ErrorProtocol, VecP!ErrorProtocol

(* A step of the member is a step of the vector's handler, or none.        *)
LEMMA VectorStepIsStep ==
  VectorStep => [VecP!Next]_(VecP!vars)
<1>1. Vec!Scalar => VecP!Scalar
  BY VectorOperations, VectorDefinitions DEF Vec!Scalar, VecP!Scalar
<1>2. Vec!Key => VecP!Key
  BY VectorOperations, VectorDefinitions DEF Vec!Key, VecP!Key
<1>3. Vec!StartArray => VecP!StartArray
  BY VectorOperations, VectorDefinitions
     DEF Vec!StartArray, VecP!StartArray, Vec!Written, VecP!Written
<1>4. Vec!EndArray => VecP!EndArray
  BY VectorOperations, VectorDefinitions
     DEF Vec!EndArray, VecP!EndArray, Vec!Written, VecP!Written, Vec!Settled,
         VecP!Settled, Vec!Last, VecP!Last, Vec!Front, VecP!Front,
         Vec!CheckLength, VecP!CheckLength, Vec!Fixed, VecP!Fixed,
         Vec!LengthMismatch, VecP!LengthMismatch
<1>5. Vec!StartObject => VecP!StartObject
  BY VectorOperations, VectorDefinitions DEF Vec!StartObject, VecP!StartObject
<1>6. Vec!EndObject => VecP!EndObject
  BY VectorOperations, VectorDefinitions
     DEF Vec!EndObject, VecP!EndObject, Vec!Front, VecP!Front
<1>7. Vec!RepeatedMember => VecP!RepeatedMember
  BY VectorDefinitions DEF Vec!RepeatedMember, VecP!RepeatedMember
<1>8. UNCHANGED vecVars /\ UNCHANGED Vec!sourceVars => UNCHANGED VecP!vars
  BY DEF vecVars, VecP!vars, VecP!handlerVars, VecP!sourceVars, Vec!sourceVars
<1>9. QED
  BY <1>1, <1>2, <1>3, <1>4, <1>5, <1>6, <1>7, <1>8, VectorNotes
     DEF VectorStep, VecP!Next

-----------------------------------------------------------------------------
(* The class handler, and the instance its proofs are about.               *)
LEMMA ClassDefinitions ==
  /\ Class!Fresh = ClassP!Fresh /\ Class!NoError = ClassP!NoError
  /\ Class!NoFlags = ClassP!NoFlags /\ Class!AllFresh = ClassP!AllFresh
  /\ Class!NeverFed = ClassP!NeverFed
  /\ Class!Malformed <=> ClassP!Malformed
  /\ \A e, ok : Class!Emit(e, ok) <=> ClassP!Emit(e, ok)
  /\ \A h, e, ok : Class!Feed(h, e, ok) = ClassP!Feed(h, e, ok)
<1>1. Class!Fresh = ClassP!Fresh /\ Class!NoError = ClassP!NoError
  BY DEF Class!Fresh, ClassP!Fresh, Class!NoError, ClassP!NoError
<1>2. Class!NoFlags = ClassP!NoFlags
  BY DEF Class!NoFlags, ClassP!NoFlags, Class!Flagged, ClassP!Flagged,
         Class!NoDuplicates, ClassP!NoDuplicates
<1>3. Class!AllFresh = ClassP!AllFresh /\ Class!NeverFed = ClassP!NeverFed
  BY <1>1 DEF Class!AllFresh, ClassP!AllFresh, Class!NeverFed, ClassP!NeverFed
<1>4. Class!Malformed <=> ClassP!Malformed
  BY DEF Class!Malformed, ClassP!Malformed
<1>5. \A s, e : Class!After(s, e) = ClassP!After(s, e)
  BY DEF Class!After, ClassP!After, Class!KindOf, ClassP!KindOf,
         Class!Starts, ClassP!Starts, Class!Ends, ClassP!Ends,
         Class!Front, ClassP!Front
<1>6. \A e : Class!MayEmit(e) <=> ClassP!MayEmit(e)
  BY DEF Class!MayEmit, ClassP!MayEmit, Class!ValueMayBegin, ClassP!ValueMayBegin,
         Class!InArray, ClassP!InArray, Class!InObject, ClassP!InObject,
         Class!Starts, ClassP!Starts, Class!Last, ClassP!Last
<1>7. \A e : Class!ClosesElement(e) <=> ClassP!ClosesElement(e)
  BY <1>5 DEF Class!ClosesElement, ClassP!ClosesElement, Class!Ends, ClassP!Ends
<1>8. QED
  BY <1>1, <1>2, <1>3, <1>4, <1>5, <1>6, <1>7
     DEF Class!Emit, ClassP!Emit, Class!Feed, ClassP!Feed

(* The ways the class handler treats an event are those its own proofs are *)
(* about.                                                                  *)
LEMMA ClassForwarding ==
  /\ \A e, ok : Class!Forwarded(e, ok) <=> ClassP!Forwarded(e, ok)
  /\ \A e, ok : Class!Ignored(e, ok) <=> ClassP!Ignored(e, ok)
  /\ \A e : Class!RejectedByDepth(e) <=> ClassP!RejectedByDepth(e)
<1>1. \A e : Class!RejectedByMember(e) <=> ClassP!RejectedByMember(e)
  BY ClassDefinitions
     DEF Class!RejectedByMember, ClassP!RejectedByMember,
         Class!ObjectMember, ClassP!ObjectMember
<1>2. \A e : Class!AcceptedByMember(e) <=> ClassP!AcceptedByMember(e)
  BY ClassDefinitions DEF Class!AcceptedByMember, ClassP!AcceptedByMember
<1>3. \A e, ok : Class!Ignored(e, ok) <=> ClassP!Ignored(e, ok)
  BY ClassDefinitions DEF Class!Ignored, ClassP!Ignored
<1>4. \A e : Class!RejectedByDepth(e) <=> ClassP!RejectedByDepth(e)
  BY ClassDefinitions
     DEF Class!RejectedByDepth, ClassP!RejectedByDepth, Class!TypeMismatch,
         ClassP!TypeMismatch
<1>5. QED
  BY <1>1, <1>2, <1>3, <1>4 DEF Class!Forwarded, ClassP!Forwarded

(* An event of the program is one of the class handler.                    *)
LEMMA ClassEventIsEvent == Class!Event => ClassP!Event
<1>1. \A e : Class!ValueEvent(e) => ClassP!ValueEvent(e)
  BY ClassForwarding DEF Class!ValueEvent, ClassP!ValueEvent
<1>2. Class!Scalar \/ Class!StartArray \/ Class!EndArray
      => ClassP!Scalar \/ ClassP!StartArray \/ ClassP!EndArray
  BY <1>1 DEF Class!Scalar, ClassP!Scalar, Class!StartArray, ClassP!StartArray,
              Class!EndArray, ClassP!EndArray
<1>3. \A m : Class!KnownKey(m) => ClassP!KnownKey(m)
  BY ClassDefinitions
     DEF Class!KnownKey, ClassP!KnownKey, Class!Flagged, ClassP!Flagged,
         Class!NoDuplicates, ClassP!NoDuplicates, Class!DuplicateKeys,
         ClassP!DuplicateKeys
<1>4. Class!UnknownKey => ClassP!UnknownKey
  BY ClassDefinitions
     DEF Class!UnknownKey, ClassP!UnknownKey, Class!Strict, ClassP!Strict,
         Class!UnknownField, ClassP!UnknownField
<1>5. Class!Key => ClassP!Key
  BY <1>3, <1>4, ClassForwarding DEF Class!Key, ClassP!Key
<1>6. Class!StartObject => ClassP!StartObject
  BY ClassForwarding DEF Class!StartObject, ClassP!StartObject
<1>7. Class!Validated => ClassP!Validated
  BY ClassDefinitions
     DEF Class!Validated, ClassP!Validated, Class!Missing, ClassP!Missing,
         Class!MissingRequired, ClassP!MissingRequired
<1>8. Class!EndObject => ClassP!EndObject
  BY <1>7, ClassForwarding, ClassDefinitions DEF Class!EndObject, ClassP!EndObject
<1>9. Class!SyntaxError => ClassP!SyntaxError
  BY ClassDefinitions
     DEF Class!SyntaxError, ClassP!SyntaxError, Class!handlerVars,
         ClassP!handlerVars
<1>10. QED
  BY <1>2, <1>5, <1>6, <1>8, <1>9
     DEF Class!Event, ClassP!Event

(* The class of this program is one the class handler was proved for.      *)
LEMMA ClassIsClass ==
  /\ ClassP!IsFiniteSet({"optional", "sequence"})
  /\ {"sequence"} \subseteq {"optional", "sequence"}
  /\ "unknown" \notin {"optional", "sequence"}
<1>1. IsFiniteSet({"optional", "sequence"})
  <2>1. {"optional", "sequence"} = ({} \cup {"optional"}) \cup {"sequence"}
    OBVIOUS
  <2>2. QED
    BY <2>1, FS_AddElement, FS_EmptySet
<1>2. ClassP!IsFiniteSet({"optional", "sequence"})
  BY <1>1 DEF ClassP!IsFiniteSet, IsFiniteSet
<1>3. QED
  BY <1>2

(* What is known of the class handler.                                     *)
ClassKnown == ClassP!IInv /\ ClassP!BusyIsOpen /\ ClassP!OneReads

(* One event keeps it, whatever the members note.                          *)
LEMMA ClassEventKeeps ==
  ASSUME ClassKnown, Class!Event
  PROVE  ClassKnown'
<1>1. ClassP!Event
  BY ClassEventIsEvent
<1>2. UNCHANGED <<ClassOptions, {}>>
  OBVIOUS
<1>3. ClassP!IInv'
  BY <1>1, <1>2, ClassIsClass, ClassP!EventInvariant, ProgramAssumption
     DEF ClassKnown
<1>4. ClassP!BusyIsOpen' /\ ClassP!OneReads'
  BY <1>1, <1>3, ClassIsClass, ClassP!EventReads, ProgramAssumption DEF ClassKnown
<1>5. QED
  BY <1>3, <1>4 DEF ClassKnown

(* So does a step that leaves the class handler alone.                     *)
LEMMA ClassUnchanged ==
  ASSUME ClassKnown, UNCHANGED classVars
  PROVE  ClassKnown'
<1>1. UNCHANGED <<ClassP!sourceVars, ClassP!handlerVars, ClassOptions, {}>>
  BY DEF classVars, ClassP!handlerVars, ClassP!sourceVars
<1>2. ClassP!IInv'
  BY <1>1, ClassIsClass, ClassP!StutterInvariant, ProgramAssumption
     DEF ClassKnown
<1>3. UNCHANGED <<handlers, state, open, the_error>> /\ phase' = phase
  BY DEF classVars
<1>4. ClassP!BusyIsOpen' /\ ClassP!OneReads'
  BY <1>3, ClassIsClass, ClassP!StillReads, ProgramAssumption DEF ClassKnown
<1>5. QED
  BY <1>2, <1>4 DEF ClassKnown

(* An event comes only while no member has refused one.                    *)
LEMMA NobodyHasRefused ==
  ASSUME ClassKnown, Class!Event
  PROVE  \A m \in {"optional", "sequence"} : PhaseOf(m) # "terminated"
<1>1. phase # "terminated"
  <2>1. ClassP!Event
    BY ClassEventIsEvent
  <2>2. \/ ClassP!SyntaxError
        \/ \E e \in ClassP!Events, ok \in BOOLEAN :
             ClassP!Fed(e, ok) \/ ClassP!LeftAlone(e, ok)
    BY <2>1, ClassIsClass, ClassP!EventKinds, ProgramAssumption DEF ClassKnown
  <2>3. ASSUME NEW e \in ClassP!Events, NEW ok \in BOOLEAN, ClassP!Emit(e, ok)
        PROVE  phase # "terminated"
    BY <2>3 DEF ClassP!Emit, ClassP!MayEmit, ClassP!ValueMayBegin, ClassP!Events,
                ClassP!Starts, ClassP!Ends
  <2>4. QED
    BY <2>2, <2>3 DEF ClassP!SyntaxError, ClassP!Malformed, ClassP!Fed,
                      ClassP!LeftAlone
<1>2. \A m \in {"optional", "sequence"} :
        the_error # ClassP!ObjectMember(m) /\ ~ClassP!HasRejected(handlers[m])
  BY <1>1 DEF ClassKnown, ClassP!IInv, ClassP!OneReads, ClassP!RefusalRecorded,
              ClassP!NoError, ClassP!DuplicateKeys, ClassP!ObjectMember
<1>3. QED
  BY <1>2 DEF PhaseOf, ClassP!HasRejected

(* One event keeps what is known of the vector's handler, and the position *)
(* in its error.                                                           *)
LEMMA VectorStepKeeps ==
  ASSUME VecP!IInv, VecP!Positions, VectorStep
  PROVE  VecP!IInv' /\ VecP!Positions'
<1>1. [VecP!Next]_(VecP!vars)
  BY VectorStepIsStep
<1>2. VecP!IInv'
  BY <1>1, VecP!StepInvariant, ProgramAssumption
<1>3. VecP!Positions'
  BY <1>1, VecP!StepPositions, ProgramAssumption
<1>4. QED
  BY <1>2, <1>3
-----------------------------------------------------------------------------
(* What is known of the handlers until the errors are reaped.              *)

(* The optional's handler is there when the optional has a value, so no    *)
(* event is forwarded to an empty handler.  It is given the events that    *)
(* the optional is given, and null is one of them unless it is the value.  *)
OptionalSound ==
  /\ optional \in {"null", "object"}
  /\ optional = "object" => opt_handler # Opt!none
  /\ ~opt_fault
  /\ PhaseOf("optional") = "terminated" <=> opt_handler.status = "failed"
  /\ PhaseOf("optional") = "reading" =>
       /\ optional = "object" /\ opt_handler.status = "busy"
       /\ opt_handler.fed = OpenOf("optional")
  /\ PhaseOf("optional") \in {"waiting", "done"} =>
       /\ opt_handler.status \in {"none", "complete"}
       /\ opt_handler.fed = <<>> /\ OpenOf("optional") = <<>>
  /\ PhaseOf("optional") # "terminated" => opt_depth = Len(OpenOf("optional"))

(* The class handler's state is the member the last key named.             *)
StateIsNamed == state = IF named = <<>> THEN "unknown" ELSE Last(named)

HandlersKnown ==
  /\ ClassKnown
  /\ VecP!IInv /\ VecP!Positions
  /\ OptionalSound
  /\ StateIsNamed

HandlersSound ==
  /\ pc \in Activities
  /\ pc # "reaping" => asked = "class"
  /\ asked = "class" => HandlersKnown

(* The handlers and the object of a call that begins.                      *)
Beginning ==
  /\ open = <<>> /\ keyed = FALSE /\ phase = "waiting" /\ count = 0
  /\ state = "unknown" /\ depth = 0 /\ the_error = Class!NoError
  /\ has = Class!NoFlags /\ handlers = Class!AllFresh
  /\ named = <<>> /\ fedBy = Class!NeverFed
  /\ optional = "null" /\ opt_handler = Opt!none /\ opt_depth = 0
  /\ opt_fault = FALSE /\ opt_preset = FALSE
  /\ opt_text = "none" /\ opt_count = 0 /\ opt_noted = FALSE
  /\ vec_state = <<>> /\ vec_error = Vec!NoError /\ current = Vec!Blank
  /\ inner = Vec!Fresh /\ value = <<>> /\ base = 0 /\ vec_count = 0
  /\ vec_noted = FALSE

(* Where the value of a member stands is the status of its handler.        *)
LEMMA PhaseIsStatus ==
  \A m \in {"optional", "sequence"} :
    /\ PhaseOf(m) \in {"waiting", "reading", "terminated", "done"}
    /\ PhaseOf(m) = "terminated" <=> handlers[m].status = "failed"
    /\ PhaseOf(m) = "reading" <=> handlers[m].status = "busy"
  BY DEF PhaseOf

(* The same in the next state.                                             *)
LEMMA NextPhaseIsStatus ==
  \A m \in {"optional", "sequence"} :
    /\ PhaseOf(m)' \in {"waiting", "reading", "terminated", "done"}
    /\ PhaseOf(m)' = "terminated" <=> handlers'[m].status = "failed"
    /\ PhaseOf(m)' = "reading" <=> handlers'[m].status = "busy"
<1>1. (\A m \in {"optional", "sequence"} :
         /\ PhaseOf(m) \in {"waiting", "reading", "terminated", "done"}
         /\ PhaseOf(m) = "terminated" <=> handlers[m].status = "failed"
         /\ PhaseOf(m) = "reading" <=> handlers[m].status = "busy")'
  BY PhaseIsStatus, PTL
<1>2. QED
  BY <1>1

(* What a call begins with satisfies the handlers' invariants.             *)
LEMMA BeginningKnown == Beginning => HandlersKnown
<1>. SUFFICES ASSUME Beginning PROVE HandlersKnown
  OBVIOUS
<1>1. handlers["optional"] = Class!Fresh /\ handlers["sequence"] = Class!Fresh
  BY DEF Beginning, Class!AllFresh
<1>2. /\ ~MemberNoted
      /\ \A m \in {"optional", "sequence"} : handlers[m].status # "busy"
  BY <1>1 DEF MemberNoted, Class!Fresh
<1>3. ClassP!Init
  BY <1>2, ClassDefinitions, ProgramAssumption
     DEF Beginning, ClassP!Init, ClassP!SourceInit, ClassP!Options
<1>4. ClassKnown
  <2>1. ClassP!IInv
    BY <1>3, ClassIsClass, ClassP!InitInvariant, ProgramAssumption
  <2>2. the_error = ClassP!NoError
    BY ClassDefinitions DEF Beginning
  <2>3. QED
    BY <1>2, <2>1, <2>2 DEF ClassKnown, ClassP!BusyIsOpen, ClassP!OneReads
<1>5. \A m \in {"optional", "sequence"} :
        /\ OpenOf(m) = <<>> /\ KeyedOf(m) = FALSE /\ PhaseOf(m) = "waiting"
  BY <1>1 DEF OpenOf, KeyedOf, PhaseOf, Class!Fresh, Beginning
<1>6. value = [i \in 1..0 |-> VecP!Prior] /\ Len(value) = 0
  BY DEF Beginning
<1>7. VecP!Init
  BY <1>5, <1>6, VectorDefinitions, ProgramAssumption
     DEF Beginning, VecP!Init, VecP!SourceInit, VecP!Fixed
<1>8. VecP!IInv /\ VecP!Positions
  BY <1>7, VecP!InitInvariant, VecP!InitPositions, ProgramAssumption
<1>9. OptionalSound
  BY <1>5 DEF Beginning, OptionalSound, Opt!none
<1>10. StateIsNamed
  BY DEF Beginning, StateIsNamed
<1>11. QED
  BY <1>4, <1>8, <1>9, <1>10 DEF HandlersKnown

(* The same in the next state.                                             *)
LEMMA NextBeginningKnown == Beginning' => HandlersKnown'
  BY BeginningKnown, PTL

(* Counting the containers an event opens and closes.                      *)
LEMMA OptionalDepth ==
  ASSUME NEW stack \in Seq(Opt!Kinds)
  PROVE  /\ \A e \in Opt!Starts : Len(Opt!After(stack, e)) = Len(stack) + 1
         /\ \A e \in Opt!Ends :
              stack # <<>> => Len(Opt!After(stack, e)) = Len(stack) - 1
         /\ \A e \in {"Scalar", "Key"} : Opt!After(stack, e) = stack
<1>1. \A e : Opt!After(stack, e) = VecP!After(stack, e)
  BY DEF Opt!After, VecP!After, Opt!KindOf, VecP!KindOf,
         Opt!Starts, VecP!Starts, Opt!Ends, VecP!Ends, Opt!Front, VecP!Front
<1>2. /\ Opt!Starts = VecP!Starts /\ Opt!Ends = VecP!Ends
      /\ stack \in Seq(VecP!Kinds)
  BY DEF Opt!Starts, VecP!Starts, Opt!Ends, VecP!Ends, Opt!Kinds, VecP!Kinds
<1>3. /\ VecP!Starts \cap VecP!Ends = {}
      /\ VecP!Events = {"Scalar", "Key"} \cup VecP!Starts \cup VecP!Ends
      /\ {"Scalar", "Key"} \cap (VecP!Starts \cup VecP!Ends) = {}
  BY DEF VecP!Starts, VecP!Ends, VecP!Events
<1>4. ASSUME NEW e \in VecP!Events, e \in VecP!Ends => stack # <<>>
      PROVE  /\ e \in VecP!Starts => Len(VecP!After(stack, e)) = Len(stack) + 1
             /\ e \in VecP!Ends => Len(VecP!After(stack, e)) = Len(stack) - 1
             /\ e \notin VecP!Starts \cup VecP!Ends => VecP!After(stack, e) = stack
  BY <1>2, <1>4, VecP!AfterFacts, ProgramAssumption
<1>5. QED
  BY <1>1, <1>2, <1>3, <1>4

(* The handler of the optional's value is given what the optional is.      *)
LEMMA OptionalForwards ==
  ASSUME OptionalSound, NEW e, Opt!Forwarded(e)
  PROVE  /\ optional' = "object" /\ opt_handler' # Opt!none /\ ~opt_fault'
         /\ PhaseOf("optional") \in {"waiting", "reading"}
         /\ OpenOf("optional")' = Opt!After(OpenOf("optional"), e)
         /\ e \in Opt!Ends => OpenOf("optional") # <<>>
         /\ PhaseOf("optional")' = "terminated" <=> opt_handler'.status = "failed"
         /\ PhaseOf("optional")' = "reading" =>
              /\ opt_handler'.status = "busy"
              /\ opt_handler'.fed = OpenOf("optional")'
         /\ PhaseOf("optional")' \in {"waiting", "done"} =>
              /\ opt_handler'.status = "complete"
              /\ opt_handler'.fed = <<>> /\ OpenOf("optional")' = <<>>
<1>1. /\ optional \in {"null", "object"} /\ ~opt_fault
      /\ optional = "object" => opt_handler # Opt!none
  BY DEF OptionalSound
<1>2. Opt!Initialized # Opt!none
  BY <1>1 DEF Opt!Initialized, Opt!Fresh, Opt!none
<1>3. PICK ok \in BOOLEAN : /\ Opt!Emit(e, ok)
                            /\ opt_handler' = Opt!Feed(Opt!Initialized, e, ok)
  <2>1. \/ Opt!Initialized = Opt!none
        \/ \E ok \in BOOLEAN : /\ Opt!Emit(e, ok)
                               /\ opt_handler' = Opt!Feed(Opt!Initialized, e, ok)
    BY DEF Opt!Forwarded
  <2>2. QED
    BY <1>2, <2>1
<1>4. optional' = "object" /\ ~opt_fault'
  <2>1. \/ Opt!Initialized = Opt!none
        \/ optional' = "object" /\ opt_fault' = opt_fault
    BY DEF Opt!Forwarded
  <2>2. QED
    BY <1>1, <1>2, <2>1
<1>5. /\ PhaseOf("optional") \in {"waiting", "reading"}
      /\ e \in Opt!Ends => OpenOf("optional") # <<>>
  BY <1>3 DEF Opt!Emit, Opt!MayEmit, Opt!ValueMayBegin, Opt!Starts, Opt!Ends,
              Opt!InArray, Opt!InObject
<1>6. Opt!Initialized.fed = OpenOf("optional")
  BY <1>1, <1>5 DEF OptionalSound, Opt!Initialized, Opt!Fresh
<1>7. OpenOf("optional")' = Opt!After(OpenOf("optional"), e)
  BY <1>3 DEF Opt!Emit
<1>8. PhaseOf("optional")' = IF ~ok THEN "terminated"
                             ELSE IF OpenOf("optional")' = <<>> THEN "done"
                             ELSE "reading"
  BY <1>3 DEF Opt!Emit
<1>9. /\ opt_handler'.fed = OpenOf("optional")'
      /\ opt_handler'.status = IF ~ok THEN "failed"
                               ELSE IF OpenOf("optional")' = <<>> THEN "complete"
                               ELSE "busy"
  BY <1>3, <1>6, <1>7 DEF Opt!Feed
<1>10. opt_handler' # Opt!none
  <2>1. opt_handler'.status # "none"
    BY <1>9
  <2>2. QED
    BY <2>1 DEF Opt!none
<1>11. QED
  BY <1>4, <1>5, <1>7, <1>8, <1>9, <1>10

(* An event of the optional's value.                                       *)
LEMMA OptionalEvent ==
  ASSUME OptionalSound, handlers["optional"] \in Opt!Handlers, Opt!Event
  PROVE  OptionalSound'
<1>1. OpenOf("optional") \in Seq(Opt!Kinds)
  BY DEF OpenOf, Opt!Handlers
<1>2. ASSUME NEW e, Opt!Forwarded(e),
             opt_depth' = Len(Opt!After(OpenOf("optional"), e))
      PROVE  OptionalSound'
  BY <1>2, OptionalForwards DEF OptionalSound
<1>3. ASSUME NEW e, Opt!Forwarded(e)
      PROVE  /\ opt_depth = Len(OpenOf("optional"))
             /\ e \in Opt!Ends => OpenOf("optional") # <<>>
  BY <1>3, OptionalForwards DEF OptionalSound
<1>4. CASE Opt!Null
  <2>1. CASE opt_depth # 0 /\ Opt!Forwarded("Scalar")
    <3>1. opt_depth' = Len(Opt!After(OpenOf("optional"), "Scalar"))
      BY <1>1, <1>3, <1>4, <2>1, OptionalDepth DEF Opt!Null
    <3>2. QED
      BY <1>2, <2>1, <3>1
  <2>2. CASE /\ opt_depth = 0 /\ Opt!Emit("Scalar", TRUE) /\ optional' = "null"
             /\ UNCHANGED <<opt_handler, opt_fault>>
    <3>1. PhaseOf("optional") \in {"waiting", "reading"}
      BY <2>2 DEF Opt!Emit, Opt!MayEmit, Opt!ValueMayBegin, Opt!Starts
    <3>2. Len(OpenOf("optional")) = 0
      BY <2>2, <3>1 DEF OptionalSound
    <3>3. OpenOf("optional") = <<>>
      BY <1>1, <3>2, EmptySeq
    <3>4. PhaseOf("optional") = "waiting"
      BY <2>2, <3>3
         DEF Opt!Emit, Opt!MayEmit, Opt!ValueMayBegin, Opt!Starts, Opt!Ends,
             Opt!InArray, Opt!InObject
    <3>5. OpenOf("optional")' = <<>> /\ PhaseOf("optional")' = "done"
      BY <2>2, <3>3, <1>1, OptionalDepth DEF Opt!Emit
    <3>6. opt_depth' = opt_depth
      BY <1>4 DEF Opt!Null
    <3>7. QED
      BY <2>2, <3>2, <3>3, <3>4, <3>5, <3>6 DEF OptionalSound
  <2>3. QED
    BY <1>4, <2>1, <2>2 DEF Opt!Null
<1>5. CASE Opt!Scalar
  <2>1. PICK e \in {"Scalar", "Key"} : Opt!Forwarded(e)
    BY <1>5 DEF Opt!Scalar
  <2>2. opt_depth' = Len(Opt!After(OpenOf("optional"), e))
    BY <1>1, <1>3, <1>5, <2>1, OptionalDepth DEF Opt!Scalar
  <2>3. QED
    BY <1>2, <2>1, <2>2
<1>6. CASE Opt!Start
  <2>1. PICK e \in Opt!Starts : Opt!Forwarded(e)
    BY <1>6 DEF Opt!Start
  <2>2. opt_depth' = Len(Opt!After(OpenOf("optional"), e))
    BY <1>1, <1>3, <1>6, <2>1, OptionalDepth DEF Opt!Start
  <2>3. QED
    BY <1>2, <2>1, <2>2
<1>7. CASE Opt!End
  <2>1. PICK e \in Opt!Ends : Opt!Forwarded(e)
    BY <1>7 DEF Opt!End
  <2>2. opt_depth' = Len(Opt!After(OpenOf("optional"), e))
    BY <1>1, <1>3, <1>7, <2>1, OptionalDepth DEF Opt!End
  <2>3. QED
    BY <1>2, <2>1, <2>2
<1>8. QED
  BY <1>4, <1>5, <1>6, <1>7 DEF Opt!Event

(* Whatever the class handler forwards, the optional stays sound.          *)
LEMMA OptionalStepKeeps ==
  ASSUME OptionalSound, handlers["optional"] \in Opt!Handlers, OptionalStep
  PROVE  OptionalSound'
<1>1. CASE Opt!Event
  BY <1>1, OptionalEvent
<1>2. CASE Opt!RepeatedMember
  <2>1. /\ PhaseOf("optional") = "done" /\ PhaseOf("optional")' = "waiting"
        /\ OpenOf("optional")' = OpenOf("optional")
        /\ UNCHANGED <<optional, opt_handler, opt_depth, opt_fault>>
    BY <1>2 DEF Opt!RepeatedMember, Opt!AnotherValue
  <2>2. QED
    BY <2>1 DEF OptionalSound
<1>3. CASE UNCHANGED optVars /\ UNCHANGED Opt!sourceVars
  <2>1. /\ PhaseOf("optional")' = PhaseOf("optional")
        /\ OpenOf("optional")' = OpenOf("optional")
        /\ UNCHANGED <<optional, opt_handler, opt_depth, opt_fault>>
    BY <1>3 DEF Opt!sourceVars, optVars
  <2>2. QED
    BY <2>1 DEF OptionalSound
<1>4. QED
  BY <1>1, <1>2, <1>3 DEF OptionalStep

(* A class event moves state and named together.                           *)
LEMMA StateStaysNamed ==
  ASSUME StateIsNamed, ClassP!ClassTypeOK, Class!Event
  PROVE  StateIsNamed'
<1>1. named \in Seq({"optional", "sequence", "unknown"})
  <2>1. {"optional", "sequence"} \cup {"unknown"} = {"optional", "sequence", "unknown"}
    OBVIOUS
  <2>2. QED
    BY <2>1 DEF ClassP!ClassTypeOK
<1>2. ASSUME NEW m \in {"optional", "sequence", "unknown"},
             named' = Append(named, m), state' = m
      PROVE  StateIsNamed'
  <2>1. named' # <<>> /\ Last(named') = m
    BY <1>1, <1>2 DEF Last
  <2>2. QED
    BY <1>2, <2>1 DEF StateIsNamed
<1>3. ASSUME UNCHANGED <<state, named>>
      PROVE  StateIsNamed'
  BY <1>3 DEF StateIsNamed
<1>4. CASE Class!Key
  BY <1>2, <1>3, <1>4 DEF Class!Key, Class!KnownKey, Class!UnknownKey
<1>5. CASE Class!Scalar \/ Class!StartArray \/ Class!EndArray
  BY <1>3, <1>5
     DEF Class!Scalar, Class!StartArray, Class!EndArray, Class!ValueEvent
<1>6. CASE Class!StartObject \/ Class!EndObject \/ Class!SyntaxError
  BY <1>3, <1>6
     DEF Class!StartObject, Class!EndObject, Class!SyntaxError, Class!handlerVars
<1>7. QED
  BY <1>4, <1>5, <1>6 DEF Class!Event

(* An event keeps the invariants of the class and of both members.         *)
LEMMA EventKeepsKnown ==
  ASSUME HandlersKnown, Event
  PROVE  HandlersKnown'
<1>1. ClassKnown'
  BY ClassEventKeeps DEF HandlersKnown, Event
<1>2. VecP!IInv' /\ VecP!Positions'
  BY VectorStepKeeps DEF HandlersKnown, Event
<1>3. ClassP!ClassTypeOK
  BY DEF HandlersKnown, ClassKnown, ClassP!IInv
<1>4. OptionalSound'
  <2>1. handlers["optional"] \in Opt!Handlers
    BY <1>3 DEF ClassP!ClassTypeOK, ClassP!Handlers, Opt!Handlers,
                ClassP!Kinds, Opt!Kinds, ClassP!Statuses, Opt!Statuses
  <2>2. QED
    BY <2>1, OptionalStepKeeps DEF HandlersKnown, Event
<1>5. StateIsNamed'
  BY <1>3, StateStaysNamed DEF HandlersKnown, Event
<1>6. QED
  BY <1>1, <1>2, <1>4, <1>5 DEF HandlersKnown

(* So does a step that leaves the handlers alone.                          *)
LEMMA UnchangedKnown ==
  ASSUME HandlersKnown, UNCHANGED handlerVars
  PROVE  HandlersKnown'
<1>1. UNCHANGED classVars /\ UNCHANGED optVars /\ UNCHANGED vecVars
  BY DEF handlerVars
<1>2. ClassKnown'
  BY <1>1, ClassUnchanged DEF HandlersKnown
<1>3. VecP!IInv' /\ VecP!Positions'
  <2>1. UNCHANGED VecP!vars
    BY <1>1 DEF classVars, vecVars, VecP!vars, VecP!handlerVars, VecP!sourceVars,
                OpenOf, KeyedOf, PhaseOf
  <2>2. QED
    BY <2>1, VecP!StepInvariant, VecP!StepPositions, ProgramAssumption
       DEF HandlersKnown
<1>4. OptionalSound'
  BY <1>1 DEF HandlersKnown, OptionalSound, OpenOf, PhaseOf, classVars, optVars
<1>5. StateIsNamed'
  BY <1>1 DEF HandlersKnown, StateIsNamed, classVars
<1>6. QED
  BY <1>2, <1>3, <1>4, <1>5 DEF HandlersKnown

(* The handlers' invariants hold at the start.                             *)
LEMMA HandlersInit == Init => HandlersSound
<1>. SUFFICES ASSUME Init PROVE HandlersSound
  OBVIOUS
<1>1. Beginning
  BY DEF Init, Beginning, Class!Init, Class!SourceInit, Opt!Init, Opt!SourceInit,
         Vec!Init, Vec!SourceInit, Vec!Fixed
<1>2. QED
  BY <1>1, BeginningKnown DEF HandlersSound, Init, Activities

(* And after every step: only ReapError() takes the handlers out of them,  *)
(* and a new call begins with new ones.                                    *)
LEMMA HandlersStep == HandlersSound /\ [Next]_vars => HandlersSound'
<1>. SUFFICES ASSUME HandlersSound, [Next]_vars PROVE HandlersSound'
  OBVIOUS
<1>1. ASSUME UNCHANGED <<handlerVars, asked>>, pc' \in Activities,
             pc' # "reaping" => pc # "reaping" \/ asked = "class"
      PROVE  HandlersSound'
  BY <1>1, UnchangedKnown DEF HandlersSound
<1>2. CASE from_json \/ from_document
  BY <1>1, <1>2 DEF from_json, from_document, Begin, Activities
<1>3. CASE from_json_file_unopened
  BY <1>1, <1>3 DEF from_json_file_unopened, HandlersSound
<1>4. CASE Event
  BY <1>4, EventKeepsKnown DEF HandlersSound, Event
<1>5. CASE set_result \/ ClearTemporary \/ Accepted
  BY <1>1, <1>5 DEF set_result, ClearTemporary, Accepted, Ended, Activities, HandlersSound
<1>6. CASE Reap
  <2>1. pc' = pc /\ asked' # "class" /\ pc = "reaping"
    BY <1>6 DEF Reap, ReapClass, ReapMember, ReapElement, Asks
  <2>2. QED
    BY <2>1 DEF HandlersSound
<1>7. CASE Return
  <2>1. Beginning'
    BY <1>7 DEF Return, NewHandlers, Beginning
  <2>2. QED
    BY <1>7, <2>1, NextBeginningKnown DEF HandlersSound, Return, Activities
<1>8. CASE PrintTrace \/ PrintNext
  BY <1>1, <1>8 DEF PrintTrace, PrintNext, HandlersSound, Activities
<1>9. CASE Pop \/ Delete
  BY <1>1, <1>9 DEF Pop, Delete, HandlersSound
<1>10. CASE UNCHANGED vars
  BY <1>1, <1>10 DEF vars, HandlersSound
<1>11. QED
  BY <1>2, <1>3, <1>4, <1>5, <1>6, <1>7, <1>8, <1>9, <1>10 DEF Next

-----------------------------------------------------------------------------
(* What the class handler takes for granted of its members.                *)

(* When the optional has an error, by where its value stands.              *)
LEMMA OptionalErrorIs ==
  ASSUME OptionalSound
  PROVE  /\ ErrorOf("optional") <=> Opt!HasError(opt_handler)
         /\ PhaseOf("optional") = "terminated" => ErrorOf("optional")
         /\ PhaseOf("optional") = "reading" => (ErrorOf("optional") <=> opt_noted)
         /\ PhaseOf("optional") \in {"waiting", "done"} => ~ErrorOf("optional")
<1>1. ErrorOf("optional") <=> Opt!HasError(opt_handler)
  BY DEF ErrorOf, Opt!Error, Opt!HasError, Opt!none
<1>2. QED
  BY <1>1 DEF OptionalSound, Opt!HasError

(* The same in the next state.                                             *)
LEMMA NextOptionalErrorIs ==
  OptionalSound' =>
    /\ ErrorOf("optional")' <=> Opt!HasError(opt_handler)'
    /\ PhaseOf("optional")' = "terminated" => ErrorOf("optional")'
    /\ PhaseOf("optional")' \in {"waiting", "done"} => ~ErrorOf("optional")'
<1>1. OptionalSound =>
        /\ ErrorOf("optional") <=> Opt!HasError(opt_handler)
        /\ PhaseOf("optional") = "terminated" => ErrorOf("optional")
        /\ PhaseOf("optional") \in {"waiting", "done"} => ~ErrorOf("optional")
  BY OptionalErrorIs
<1>2. (OptionalSound =>
        /\ ErrorOf("optional") <=> Opt!HasError(opt_handler)
        /\ PhaseOf("optional") = "terminated" => ErrorOf("optional")
        /\ PhaseOf("optional") \in {"waiting", "done"} => ~ErrorOf("optional"))'
  BY <1>1, PTL
<1>3. QED
  BY <1>2

(* An optional hands on what its value's handler notes.                    *)
LEMMA OptionalProtocol ==
  ASSUME HandlersKnown, HandlersKnown', Event
  PROVE  Class!ErrorProtocol(ErrorOf("optional"), ErrorOf("optional")',
                             handlers'["optional"].status)
<1>1. OptionalSound /\ OptionalSound' /\ OptionalStep
  BY DEF HandlersKnown, Event
<1>2. PhaseOf("optional") # "terminated"
  BY NobodyHasRefused DEF HandlersKnown, Event
<1>3. /\ PhaseOf("optional") \in {"waiting", "reading", "done"}
      /\ PhaseOf("optional")' \in {"waiting", "reading", "terminated", "done"}
      /\ PhaseOf("optional")' = "terminated" <=> handlers'["optional"].status = "failed"
      /\ PhaseOf("optional")' = "reading" <=> handlers'["optional"].status = "busy"
  BY <1>2, PhaseIsStatus, NextPhaseIsStatus
<1>4. CASE PhaseOf("optional")' = "terminated"
  <2>1. ErrorOf("optional")'
    BY <1>1, <1>4, NextOptionalErrorIs
  <2>2. QED
    BY <1>3, <1>4, <2>1 DEF Class!ErrorProtocol
<1>5. CASE PhaseOf("optional")' = "reading"
  <2>1. CASE UNCHANGED optVars
    <3>1. ErrorOf("optional")' <=> ErrorOf("optional")
      BY <2>1 DEF optVars, ErrorOf, Opt!Error, Opt!HasError, Opt!none
    <3>2. QED
      BY <1>3, <1>5, <3>1 DEF Class!ErrorProtocol
  <2>2. CASE ForwardedTo("optional") /\ Opt!Event /\ Opt!PartNotes
    <3>1. opt_handler'.status = "busy"
      BY <1>1, <1>5 DEF OptionalSound
    <3>2. /\ Opt!HasError(opt_handler) => Opt!HasError(opt_handler)'
          /\ Opt!HasError(opt_handler)' => Opt!HasError(opt_handler) \/ Opt!AtKey
      BY <2>2, <3>1 DEF Opt!PartNotes, Opt!ErrorProtocol
    <3>3. Opt!AtKey => Class!AtKey
      <4>1. phase' \in {"reading", "malformed"}
        BY <1>3, <1>5 DEF HandlersKnown, ClassKnown, ClassP!OneReads
      <4>2. phase' = "reading"
        BY <2>2, <4>1 DEF ForwardedTo
      <4>3. Opt!AtKey => keyed'
        BY DEF Opt!AtKey, KeyedOf
      <4>4. QED
        BY <4>2, <4>3 DEF Class!AtKey
    <3>4. /\ ErrorOf("optional") => ErrorOf("optional")'
          /\ ErrorOf("optional")' => ErrorOf("optional") \/ Class!AtKey
      BY <1>1, <3>2, <3>3, OptionalErrorIs, NextOptionalErrorIs
    <3>5. QED
      BY <1>3, <1>5, <3>4 DEF Class!ErrorProtocol
  <2>3. CASE Opt!RepeatedMember
    BY <1>5, <2>3 DEF Opt!RepeatedMember, Opt!AnotherValue
  <2>4. QED
    BY <1>1, <2>1, <2>2, <2>3 DEF OptionalStep
<1>6. CASE PhaseOf("optional")' \in {"waiting", "done"}
  <2>1. ~ErrorOf("optional")'
    BY <1>1, <1>6, NextOptionalErrorIs
  <2>2. ~ErrorOf("optional")
    <3>1. CASE PhaseOf("optional") \in {"waiting", "done"}
      BY <1>1, <3>1, OptionalErrorIs
    <3>2. CASE PhaseOf("optional") = "reading"
      <4>1. Opt!PartNotes
        BY <1>1, <1>6, <3>2 DEF OptionalStep, Opt!sourceVars
      <4>2. opt_handler'.status \in {"none", "complete"}
        BY <1>1, <1>6 DEF OptionalSound
      <4>3. ~Opt!HasError(opt_handler)
        BY <4>1, <4>2 DEF Opt!PartNotes, Opt!ErrorProtocol
      <4>4. QED
        BY <1>1, <4>3, OptionalErrorIs
    <3>3. QED
      BY <1>3, <3>1, <3>2
  <2>3. QED
    BY <1>3, <1>6, <2>1, <2>2 DEF Class!ErrorProtocol
<1>7. QED
  BY <1>3, <1>4, <1>5, <1>6

(* A vector holds no error before it refuses an event.                     *)
LEMMA VectorErrorIs ==
  ASSUME HandlersKnown
  PROVE  /\ ErrorOf("sequence") <=> vec_error # Vec!NoError
         /\ ErrorOf("sequence") <=> handlers["sequence"].status = "failed"
<1>1. ErrorOf("sequence") <=> vec_error # Vec!NoError
  BY DEF ErrorOf
<1>2. (vec_error # VecP!NoError) = (PhaseOf("sequence") = "terminated")
  BY DEF HandlersKnown, VecP!IInv, VecP!RefusalRecorded
<1>3. QED
  BY <1>1, <1>2, PhaseIsStatus, VectorDefinitions

(* The same in the next state.                                             *)
LEMMA NextVectorErrorIs ==
  HandlersKnown' =>
    (ErrorOf("sequence")' <=> handlers'["sequence"].status = "failed")
<1>1. HandlersKnown => (ErrorOf("sequence") <=> handlers["sequence"].status = "failed")
  BY VectorErrorIs
<1>2. (HandlersKnown =>
        (ErrorOf("sequence") <=> handlers["sequence"].status = "failed"))'
  BY <1>1, PTL
<1>3. QED
  BY <1>2

(* Every step of the program keeps the promise.                            *)
LEMMA PromiseStep ==
  ASSUME HandlersSound, HandlersSound', Event
  PROVE  /\ ~opt_fault'
         /\ \A m \in {"optional", "sequence"} :
              Class!ErrorProtocol(ErrorOf(m), ErrorOf(m)', handlers'[m].status)
<1>1. HandlersKnown /\ HandlersKnown'
  BY DEF HandlersSound, Event
<1>2. Class!ErrorProtocol(ErrorOf("optional"), ErrorOf("optional")',
                          handlers'["optional"].status)
  BY <1>1, OptionalProtocol
<1>3. Class!ErrorProtocol(ErrorOf("sequence"), ErrorOf("sequence")',
                          handlers'["sequence"].status)
  <2>1. PhaseOf("sequence") # "terminated"
    BY <1>1, NobodyHasRefused DEF HandlersKnown, Event
  <2>2. ~ErrorOf("sequence")
    BY <1>1, <2>1, VectorErrorIs, PhaseIsStatus
  <2>3. ErrorOf("sequence")' <=> handlers'["sequence"].status = "failed"
    BY <1>1, NextVectorErrorIs
  <2>4. QED
    BY <2>2, <2>3 DEF Class!ErrorProtocol
<1>4. ~opt_fault'
  BY <1>1 DEF HandlersKnown, OptionalSound
<1>5. QED
  BY <1>2, <1>3, <1>4

(* The optional and the vector keep the protocol of errors the class       *)
(* handler takes for granted of its members, even if they are given        *)
(* several values without being prepared, and no event is forwarded to an  *)
(* optional without a handler.                                             *)
THEOREM PromiseKept == Spec => MembersKeepPromise
<1>1. HandlersSound /\ [Next]_vars => HandlersSound'
  BY HandlersStep
<1>2. HandlersSound /\ HandlersSound' /\ [Next]_vars =>
        [Event => /\ ~opt_fault'
                  /\ \A m \in {"optional", "sequence"} :
                       Class!ErrorProtocol(ErrorOf(m), ErrorOf(m)',
                                           handlers'[m].status)]_vars
  BY PromiseStep
<1>3. QED
  BY HandlersInit, <1>1, <1>2, PTL DEF Spec, MembersKeepPromise
-----------------------------------------------------------------------------
(* The lists of errors.                                                    *)

Numbers == INSTANCE SourceLemmas

(* The lists are what L says: head and next lead through them, no address  *)
(* is in two places, and the addresses in use are those in the lists and   *)
(* those the caller of pop() holds.                                        *)
Chained(L) ==
  /\ \A s \in Stacks : head[s] = IF L[s] = <<>> THEN Null ELSE L[s][1]
  /\ \A s \in Stacks : \A i \in 1..Len(L[s]) :
       next[L[s][i]] = IF i = Len(L[s]) THEN Null ELSE L[s][i + 1]

Apart(L) ==
  \A s, t \in Stacks : \A i \in 1..Len(L[s]), j \in 1..Len(L[t]) :
    L[s][i] = L[t][j] => s = t /\ i = j

Owned(L) ==
  /\ \A s \in Stacks : \A i \in 1..Len(L[s]) :
       heap[L[s][i]] # Freed /\ L[s][i] \notin released
  /\ \A a \in Addresses :
       heap[a] # Freed => \/ a \in released
                          \/ \E s \in Stacks : \E i \in 1..Len(L[s]) : L[s][i] = a
  /\ \A a \in released : heap[a] # Freed

Chains == [Stacks -> Seq(Addresses)]

Linked(L) == Chained(L) /\ Apart(L) /\ Owned(L)

(* No list is longer than there are addresses.                             *)
LEMMA ChainLength ==
  ASSUME NEW L \in Chains, Apart(L), NEW s \in Stacks
  PROVE  Len(L[s]) \in 0..MaxErrors
<1>1. L[s] \in Seq(Addresses)
  BY DEF Chains
<1>2. /\ Len(L[s]) \in Nat /\ DOMAIN L[s] = 1..Len(L[s])
      /\ L[s] \in [1..Len(L[s]) -> Addresses]
  BY <1>1, LenProperties
<1>3. MaxErrors \in Nat
  BY ErrorStackAssumption
<1>4. IsFiniteSet(1..MaxErrors) /\ Cardinality(1..MaxErrors) = MaxErrors
  BY <1>3, FS_Interval
<1>5. IsFiniteSet(1..Len(L[s])) /\ Cardinality(1..Len(L[s])) = Len(L[s])
  BY <1>2, FS_Interval
<1>6. \A i, j \in 1..Len(L[s]) : L[s][i] = L[s][j] => i = j
  BY DEF Apart
<1>7. ~ (Cardinality(1..MaxErrors) < Cardinality(1..Len(L[s])))
  <2>1. SUFFICES ASSUME Cardinality(1..MaxErrors) < Cardinality(1..Len(L[s]))
                 PROVE  FALSE
    OBVIOUS
  <2>2. L[s] \in [1..Len(L[s]) -> 1..MaxErrors]
    BY <1>2 DEF Addresses
  <2>3. \E i, j \in 1..Len(L[s]) : i # j /\ L[s][i] = L[s][j]
    BY <1>4, <1>5, <2>1, <2>2, FS_PigeonHole
  <2>4. QED
    BY <1>6, <2>3
<1>8. QED
  BY <1>2, <1>3, <1>4, <1>5, <1>7

(* Iterating visits the list.                                              *)
LEMMA VisitedIsChain ==
  ASSUME NEW L \in Chains, Linked(L), NEW s \in Stacks
  PROVE  Visited(s) = L[s]
<1>. DEFINE n == Len(L[s])
            W == [k \in 0..MaxErrors |-> IF k < n THEN L[s][k + 1] ELSE Null]
            Iterates(f) == f = [k \in 0..MaxErrors |->
                                  IF k = 0 THEN head[s]
                                  ELSE IF f[k - 1] = Null THEN Null
                                       ELSE next[f[k - 1]]]
            P == CHOOSE f : Iterates(f)
<1>1. L[s] \in Seq(Addresses)
  BY DEF Chains
<1>2. /\ n \in Nat /\ DOMAIN L[s] = 1..n
      /\ L[s] \in [1..n -> Addresses]
  BY <1>1, LenProperties
<1>3. n <= MaxErrors /\ MaxErrors \in Nat \ {0}
  BY ChainLength, ErrorStackAssumption DEF Linked
<1>4. Chained(L)
  BY DEF Linked
<1>5. \A i \in 1..n : L[s][i] # Null
  BY <1>2, ErrorStackAssumption DEF Addresses, Null
<1>6. L[s] = <<>> <=> n = 0
  BY <1>1, EmptySeq
<1>7. Iterates(W)
  <2>1. ASSUME NEW k \in 0..MaxErrors
        PROVE  W[k] = IF k = 0 THEN head[s]
                      ELSE IF W[k - 1] = Null THEN Null ELSE next[W[k - 1]]
    <3>1. CASE k = 0
      BY <1>2, <1>3, <1>4, <1>6, <3>1 DEF Chained
    <3>2. CASE k # 0
      <4>1. k - 1 \in 0..MaxErrors /\ k \in 1..MaxErrors
        BY <1>3, <3>2
      <4>2. W[k - 1] = IF k - 1 < n THEN L[s][k] ELSE Null
        BY <4>1
      <4>3. CASE k - 1 < n
        <5>1. k \in 1..n
          BY <1>2, <4>1, <4>3
        <5>2. next[L[s][k]] = IF k = n THEN Null ELSE L[s][k + 1]
          BY <1>4, <5>1 DEF Chained
        <5>3. W[k] = IF k < n THEN L[s][k + 1] ELSE Null
          OBVIOUS
        <5>4. W[k] = next[W[k - 1]]
          BY <1>2, <4>2, <4>3, <5>1, <5>2, <5>3
        <5>5. QED
          BY <1>5, <3>2, <4>2, <4>3, <5>1, <5>4
      <4>4. CASE ~(k - 1 < n)
        BY <1>2, <3>2, <4>1, <4>2, <4>4
      <4>5. QED
        BY <4>3, <4>4
    <3>3. QED
      BY <3>1, <3>2
  <2>2. QED
    BY <2>1
<1>8. Iterates(P)
  BY <1>7
<1>9. Position(s) = P
  BY DEF Position
<1>10. \A k \in 0..MaxErrors : P[k] = W[k]
  <2>. DEFINE G == {k \in Nat : k <= MaxErrors => P[k] = W[k]}
  <2>. HIDE DEF W, P
  <2>1. \A k \in 0..MaxErrors :
          /\ P[k] = IF k = 0 THEN head[s]
                    ELSE IF P[k - 1] = Null THEN Null ELSE next[P[k - 1]]
          /\ W[k] = IF k = 0 THEN head[s]
                    ELSE IF W[k - 1] = Null THEN Null ELSE next[W[k - 1]]
    BY <1>7, <1>8
  <2>2. 0 \in G
    <3>1. 0 \in 0..MaxErrors
      BY <1>3
    <3>2. P[0] = head[s] /\ W[0] = head[s]
      BY <2>1, <3>1
    <3>3. QED
      BY <3>2
  <2>3. ASSUME NEW k \in Nat, k \in G
        PROVE  k + 1 \in G
    <3>1. SUFFICES ASSUME k + 1 <= MaxErrors PROVE P[k + 1] = W[k + 1]
      OBVIOUS
    <3>2. k + 1 \in 0..MaxErrors /\ (k + 1) - 1 = k /\ k + 1 # 0 /\ k <= MaxErrors
      BY <1>3, <3>1
    <3>3. P[k] = W[k]
      BY <2>3, <3>2
    <3>4. QED
      BY <2>1, <3>2, <3>3
  <2>. HIDE DEF G
  <2>4. Nat \subseteq G
    BY <2>2, <2>3, Numbers!InductiveSet, ProgramAssumption
  <2>5. QED
    BY <1>3, <2>4 DEF G
<1>11. {k \in 0..MaxErrors : P[k] # Null} = 0..(n - 1)
  <2>1. \A k \in 0..MaxErrors : P[k] # Null <=> k < n
    <3>1. ASSUME NEW k \in 0..MaxErrors, k < n
          PROVE  W[k] # Null
      BY <1>2, <1>5, <3>1
    <3>2. QED
      BY <1>10, <3>1
  <2>. HIDE DEF P
  <2>2. QED
    BY <1>2, <1>3, <2>1
<1>12. Cardinality(0..(n - 1)) = n
  BY <1>2, FS_Interval
<1>13. Visited(s) = [k \in 1..n |-> P[k - 1]]
  BY <1>9, <1>11, <1>12 DEF Visited
<1>14. ASSUME NEW k \in 1..n
       PROVE  P[k - 1] = L[s][k]
  <2>1. k - 1 \in 0..MaxErrors /\ k - 1 < n /\ (k - 1) + 1 = k
    BY <1>2, <1>3
  <2>2. P[k - 1] = W[k - 1]
    BY <1>10, <2>1
  <2>3. QED
    BY <2>1, <2>2
<1>. HIDE DEF P
<1>15. QED
  BY <1>2, <1>13, <1>14

(* The errors that are pushed, which freed storage is not.                 *)
Records ==
  [type : {"none", "TYPE_MISMATCH", "UNKNOWN_FIELD", "DUPLICATE_KEYS",
           "OBJECT_MEMBER", "MISSING_REQUIRED", "ARRAY_LENGTH_MISMATCH",
           "ARRAY_ELEMENT", "FINAL"},
   member : {"optional", "sequence", "unknown"},
   index : Int, call : Nat, level : Nat]

(* Freed storage is not taken for an error.                                *)
LEMMA FreedIsNoRecord == Freed \notin Records
<1>. SUFFICES ASSUME Freed \in Records PROVE FALSE
  OBVIOUS
<1>1. Freed.type # "freed"
  BY DEF Records
<1>2. QED
  BY <1>1 DEF Freed

ListsLinked ==
  /\ ErrorStackTypeOK
  /\ heap \in [Addresses -> Records \cup {Freed}]
  /\ ~fault
  /\ \E L \in Chains : Linked(L)

(* What the lists hold, for lists as L says.                               *)
LEMMA ContentsOfChain ==
  ASSUME NEW L \in Chains, Linked(L), NEW s \in Stacks,
         heap \in [Addresses -> Records \cup {Freed}]
  PROVE  /\ Contents(s) = [n \in 1..Len(L[s]) |-> heap[L[s][n]]]
         /\ Contents(s) \in Seq(Records) /\ Len(Contents(s)) = Len(L[s])
<1>1. Visited(s) = L[s]
  BY VisitedIsChain
<1>2. /\ Len(L[s]) \in Nat /\ DOMAIN L[s] = 1..Len(L[s])
      /\ \A n \in 1..Len(L[s]) : L[s][n] \in Addresses
  BY LenProperties, ElementOfSeq DEF Chains
<1>3. Contents(s) = [n \in 1..Len(L[s]) |-> heap[L[s][n]]]
  BY <1>1, <1>2 DEF Contents
<1>4. \A n \in 1..Len(L[s]) : heap[L[s][n]] \in Records
  BY <1>2 DEF Linked, Owned
<1>5. Contents(s) \in [1..Len(L[s]) -> Records]
  BY <1>3, <1>4
<1>6. Contents(s) \in Seq(Records)
  BY <1>2, <1>5 DEF Seq
<1>7. QED
  BY <1>2, <1>3, <1>6, LenProperties

(* The same of the next state.                                             *)
LEMMA NextContentsOfChain ==
  \A L \in Chains : \A s \in Stacks :
    Linked(L)' /\ heap' \in [Addresses -> Records \cup {Freed}]
    => /\ Contents(s)' = [n \in 1..Len(L[s]) |-> heap'[L[s][n]]]
       /\ Contents(s)' \in Seq(Records) /\ Len(Contents(s)') = Len(L[s])
<1>1. \A L \in Chains : \A s \in Stacks :
        Linked(L) /\ heap \in [Addresses -> Records \cup {Freed}]
        => /\ Contents(s) = [n \in 1..Len(L[s]) |-> heap[L[s][n]]]
           /\ Contents(s) \in Seq(Records) /\ Len(Contents(s)) = Len(L[s])
  BY ContentsOfChain
<1>2. (\A L \in Chains : \A s \in Stacks :
         Linked(L) /\ heap \in [Addresses -> Records \cup {Freed}]
         => /\ Contents(s) = [n \in 1..Len(L[s]) |-> heap[L[s][n]]]
            /\ Contents(s) \in Seq(Records) /\ Len(Contents(s)) = Len(L[s]))'
  BY <1>1, PTL
<1>3. QED
  BY <1>2

(* operator new returns an address that is free.                           *)
LEMMA NewIsFree ==
  ASSUME FreeAddresses # {}
  PROVE  NewAddress \in Addresses /\ heap[NewAddress] = Freed
<1>1. FreeAddresses \in SUBSET Nat
  BY ErrorStackAssumption DEF FreeAddresses, Addresses
<1>2. \E a \in FreeAddresses : \A b \in FreeAddresses : a <= b
  BY <1>1, Numbers!LeastNumber, ProgramAssumption
<1>3. NewAddress \in FreeAddresses
  BY <1>2 DEF NewAddress
<1>4. QED
  BY <1>3 DEF FreeAddresses

(* A chain with a new head, and one without its head.                      *)
Consed(L, s, a) == [L EXCEPT ![s] = <<a>> \o L[s]]
Cut(L, s) == [L EXCEPT ![s] = Tail(L[s])]

(* A chain with a new head is a chain.                                     *)
LEMMA Longer ==
  ASSUME NEW L \in Chains, NEW s \in Stacks, NEW a \in Addresses, NEW M,
         M = Consed(L, s, a)
  PROVE  /\ M \in Chains
         /\ \A t \in Stacks : t # s => M[t] = L[t]
         /\ Len(L[s]) \in Nat /\ Len(M[s]) = Len(L[s]) + 1 /\ M[s] # <<>>
         /\ M[s][1] = a /\ \A i \in 1..Len(L[s]) : M[s][i + 1] = L[s][i]
<1>. USE DEF Consed
<1>1. L[s] \in Seq(Addresses) /\ <<a>> \in Seq(Addresses) /\ Len(<<a>>) = 1
      /\ <<a>>[1] = a
  BY DEF Chains
<1>2. /\ <<a>> \o L[s] \in Seq(Addresses)
      /\ Len(<<a>> \o L[s]) = 1 + Len(L[s])
      /\ \A i \in 1..1 + Len(L[s]) :
           (<<a>> \o L[s])[i] = IF i <= 1 THEN <<a>>[i] ELSE L[s][i - 1]
  BY <1>1, ConcatProperties
<1>3. M[s] = <<a>> \o L[s]
  BY DEF Chains
<1>4. Len(L[s]) \in Nat
  BY <1>1, LenProperties
<1>5. M \in Chains
  BY <1>2 DEF Chains
<1>6. M[s][1] = a
  <2>1. 1 \in 1..1 + Len(L[s])
    BY <1>4
  <2>2. QED
    BY <1>1, <1>2, <1>3, <2>1
<1>7. \A i \in 1..Len(L[s]) : M[s][i + 1] = L[s][i]
  <2>1. ASSUME NEW i \in 1..Len(L[s])
        PROVE  M[s][i + 1] = L[s][i]
    <3>1. i + 1 \in 1..1 + Len(L[s]) /\ ~(i + 1 <= 1) /\ (i + 1) - 1 = i
      BY <1>4
    <3>2. QED
      BY <1>2, <1>3, <3>1
  <2>2. QED
    BY <2>1
<1>8. Len(M[s]) = Len(L[s]) + 1
  BY <1>2, <1>3, <1>4
<1>9. M[s] # <<>>
  BY <1>4, <1>8
<1>10. QED
  BY <1>4, <1>5, <1>6, <1>7, <1>8, <1>9 DEF Chains

(* A chain without its head is a chain.                                    *)
LEMMA Shorter ==
  ASSUME NEW L \in Chains, NEW s \in Stacks, L[s] # <<>>, NEW M,
         M = Cut(L, s)
  PROVE  /\ M \in Chains
         /\ \A t \in Stacks : t # s => M[t] = L[t]
         /\ Len(L[s]) \in Nat \ {0} /\ Len(M[s]) = Len(L[s]) - 1
         /\ M[s] = Tail(L[s]) /\ \A i \in 1..Len(L[s]) - 1 : M[s][i] = L[s][i + 1]
<1>. USE DEF Cut
<1>1. L[s] \in Seq(Addresses) /\ M[s] = Tail(L[s])
  BY DEF Chains
<1>2. /\ Tail(L[s]) \in Seq(Addresses) /\ Len(Tail(L[s])) = Len(L[s]) - 1
      /\ \A i \in 1..Len(Tail(L[s])) : Tail(L[s])[i] = L[s][i + 1]
  BY <1>1, HeadTailProperties
<1>3. Len(L[s]) \in Nat \ {0}
  BY <1>1, EmptySeq
<1>4. M \in Chains /\ \A t \in Stacks : t # s => M[t] = L[t]
  BY <1>2 DEF Chains
<1>5. QED
  BY <1>1, <1>2, <1>3, <1>4

(* push(): the new error is first in its list and the others are as they   *)
(* were.                                                                   *)
LEMMA PushLinks ==
  ASSUME ListsLinked, NEW s \in Stacks, NEW e \in Records, push(s, e)
  PROVE  /\ ListsLinked'
         /\ Contents(s)' = <<e>> \o Contents(s)
         /\ \A t \in Stacks : t # s => Contents(t)' = Contents(t)
<1>1. PICK L \in Chains : Linked(L)
  BY DEF ListsLinked
<1>2. PICK a \in Addresses : a = NewAddress /\ heap[a] = Freed
  BY NewIsFree DEF push
<1>3. /\ heap' = [heap EXCEPT ![a] = e] /\ next' = [next EXCEPT ![a] = head[s]]
      /\ head' = [head EXCEPT ![s] = a] /\ m_size' = [m_size EXCEPT ![s] = @ + 1]
      /\ released' = released /\ fault' = fault
  BY <1>2 DEF push
<1>4. PICK M : M = Consed(L, s, a)
  OBVIOUS
<1>5. /\ M \in Chains
      /\ \A t \in Stacks : t # s => M[t] = L[t]
      /\ Len(L[s]) \in Nat /\ Len(M[s]) = Len(L[s]) + 1 /\ M[s] # <<>>
      /\ M[s][1] = a /\ \A i \in 1..Len(L[s]) : M[s][i + 1] = L[s][i]
  BY <1>4, Longer
<1>6. /\ heap \in [Addresses -> Records \cup {Freed}] /\ ~fault
      /\ next \in [Addresses -> Pointers] /\ head \in [Stacks -> Pointers]
      /\ m_size \in [Stacks -> Nat] /\ released \in SUBSET Addresses
      /\ fault \in BOOLEAN
  BY DEF ListsLinked, ErrorStackTypeOK
<1>7. Chained(L) /\ Apart(L) /\ Owned(L)
  BY <1>1 DEF Linked
<1>8. \A t \in Stacks : \A i \in 1..Len(L[t]) : L[t][i] \in Addresses /\ L[t][i] # a
  <2>1. ASSUME NEW t \in Stacks, NEW i \in 1..Len(L[t])
        PROVE  L[t][i] \in Addresses
    BY ElementOfSeq DEF Chains
  <2>2. QED
    BY <1>2, <1>7, <2>1 DEF Owned
<1>9. \A i \in 1..Len(M[s]) : i = 1 \/ (i - 1 \in 1..Len(L[s]) /\ M[s][i] = L[s][i - 1])
  <2>1. ASSUME NEW i \in 1..Len(M[s]), i # 1
        PROVE  i - 1 \in 1..Len(L[s]) /\ M[s][i] = L[s][i - 1]
    <3>1. i - 1 \in 1..Len(L[s]) /\ (i - 1) + 1 = i
      BY <1>5, <2>1
    <3>2. QED
      BY <1>5, <3>1
  <2>2. QED
    BY <2>1
<1>10. Chained(M)'
  <2>1. \A t \in Stacks : head'[t] = IF M[t] = <<>> THEN Null ELSE M[t][1]
    BY <1>3, <1>5, <1>6, <1>7 DEF Chained
  <2>2. ASSUME NEW t \in Stacks, NEW i \in 1..Len(M[t])
        PROVE  next'[M[t][i]] = IF i = Len(M[t]) THEN Null ELSE M[t][i + 1]
    <3>1. CASE t # s
      <4>1. M[t] = L[t] /\ i \in 1..Len(L[t])
        BY <1>5, <3>1
      <4>2. L[t][i] \in Addresses /\ L[t][i] # a
        BY <1>8, <4>1
      <4>3. next'[L[t][i]] = next[L[t][i]]
        BY <1>3, <1>6, <4>2
      <4>4. next[L[t][i]] = IF i = Len(L[t]) THEN Null ELSE L[t][i + 1]
        BY <1>7, <4>1 DEF Chained
      <4>5. QED
        BY <4>1, <4>3, <4>4
    <3>2. CASE t = s /\ i = 1
      <4>1. next'[M[t][i]] = head[s]
        BY <1>3, <1>5, <1>6, <3>2
      <4>2. head[s] = IF L[s] = <<>> THEN Null ELSE L[s][1]
        BY <1>7 DEF Chained
      <4>3. CASE L[s] = <<>>
        <5>1. Len(L[s]) = 0
          BY <4>3
        <5>2. QED
          BY <1>5, <3>2, <4>1, <4>2, <4>3, <5>1
      <4>4. CASE L[s] # <<>>
        <5>1. Len(L[s]) \in Nat \ {0}
          BY <4>4, EmptySeq DEF Chains
        <5>2. 1 \in 1..Len(L[s])
          BY <5>1
        <5>3. QED
          BY <1>5, <3>2, <4>1, <4>2, <4>4, <5>1, <5>2
      <4>5. QED
        BY <4>3, <4>4
    <3>3. CASE t = s /\ i # 1
      <4>1. i - 1 \in 1..Len(L[s]) /\ M[s][i] = L[s][i - 1]
        BY <1>9, <3>3
      <4>2. next'[M[s][i]] = next[L[s][i - 1]]
        BY <1>3, <1>6, <1>8, <4>1
      <4>3. next[L[s][i - 1]] = IF i - 1 = Len(L[s]) THEN Null ELSE L[s][i]
        BY <1>7, <4>1 DEF Chained
      <4>4. CASE i - 1 = Len(L[s])
        BY <1>5, <3>3, <4>1, <4>2, <4>3, <4>4
      <4>5. CASE i - 1 # Len(L[s])
        <5>1. i \in 1..Len(L[s]) /\ i # Len(M[s])
          BY <1>5, <3>3, <4>1, <4>5
        <5>2. QED
          BY <1>5, <3>3, <4>2, <4>3, <4>5, <5>1
      <4>6. QED
        BY <4>4, <4>5
    <3>4. QED
      BY <3>1, <3>2, <3>3
  <2>3. QED
    BY <2>1, <2>2 DEF Chained
<1>11. \A t \in Stacks : \A i \in 1..Len(M[t]) :
          \/ t = s /\ i = 1 /\ M[t][i] = a
          \/ t = s /\ i # 1 /\ i - 1 \in 1..Len(L[s]) /\ M[t][i] = L[s][i - 1]
          \/ t # s /\ i \in 1..Len(L[t]) /\ M[t][i] = L[t][i]
  BY <1>5, <1>9
<1>12. Apart(M)
  <2>1. ASSUME NEW t \in Stacks, NEW u \in Stacks, NEW i \in 1..Len(M[t]),
               NEW j \in 1..Len(M[u]), M[t][i] = M[u][j]
        PROVE  t = u /\ i = j
    <3>1. \A v, w \in Stacks : \A k \in 1..Len(L[v]), l \in 1..Len(L[w]) :
            L[v][k] = L[w][l] => v = w /\ k = l
      BY <1>7 DEF Apart
    <3>2. CASE t = s /\ i = 1
      BY <1>8, <1>11, <2>1, <3>2
    <3>3. CASE u = s /\ j = 1
      <4>1. M[t][i] = a
        BY <1>11, <2>1, <3>3
      <4>2. t = s /\ i = 1
        BY <1>8, <1>11, <4>1
      <4>3. QED
        BY <3>3, <4>2
    <3>4. CASE t = s /\ i # 1 /\ u = s /\ j # 1
      <4>1. /\ i - 1 \in 1..Len(L[s]) /\ M[t][i] = L[s][i - 1]
            /\ j - 1 \in 1..Len(L[s]) /\ M[u][j] = L[s][j - 1]
        BY <1>11, <3>4
      <4>2. \A k, l \in 1..Len(L[s]) : L[s][k] = L[s][l] => k = l
        BY <3>1
      <4>3. L[s][i - 1] = L[s][j - 1]
        BY <2>1, <4>1
      <4>4. i - 1 = j - 1
        BY <4>1, <4>2, <4>3
      <4>5. QED
        BY <1>5, <2>1, <3>4, <4>4
    <3>5. CASE t = s /\ i # 1 /\ u # s
      BY <1>11, <2>1, <3>1, <3>5
    <3>6. CASE t # s /\ u = s /\ j # 1
      BY <1>11, <2>1, <3>1, <3>6
    <3>7. CASE t # s /\ u # s
      BY <1>11, <2>1, <3>1, <3>7
    <3>8. QED
      BY <3>2, <3>3, <3>4, <3>5, <3>6, <3>7
  <2>2. QED
    BY <2>1 DEF Apart
<1>13. Owned(M)'
  <2>1. \A b \in Addresses : heap'[b] = IF b = a THEN e ELSE heap[b]
    BY <1>3, <1>6
  <2>2. e # Freed
    BY FreedIsNoRecord
  <2>3. a \notin released
    BY <1>2, <1>7 DEF Owned
  <2>4. ASSUME NEW t \in Stacks, NEW i \in 1..Len(M[t])
        PROVE  heap'[M[t][i]] # Freed /\ M[t][i] \notin released'
    BY <1>3, <1>7, <1>8, <1>11, <2>1, <2>2, <2>3 DEF Owned
  <2>5. ASSUME NEW b \in Addresses, heap'[b] # Freed, b \notin released
        PROVE  \E t \in Stacks : \E i \in 1..Len(M[t]) : M[t][i] = b
    <3>1. CASE b = a
      <4>1. 1 \in 1..Len(M[s])
        BY <1>5
      <4>2. QED
        BY <1>5, <3>1, <4>1
    <3>2. CASE b # a
      <4>1. PICK t \in Stacks : \E i \in 1..Len(L[t]) : L[t][i] = b
        BY <1>7, <2>1, <2>5, <3>2 DEF Owned
      <4>2. PICK i \in 1..Len(L[t]) : L[t][i] = b
        BY <4>1
      <4>3. CASE t = s
        <5>1. i + 1 \in 1..Len(M[s])
          BY <1>5, <4>3
        <5>2. M[s][i + 1] = b
          BY <1>5, <4>2, <4>3
        <5>3. QED
          BY <5>1, <5>2
      <4>4. CASE t # s
        BY <1>5, <4>2, <4>4
      <4>5. QED
        BY <4>3, <4>4
    <3>3. QED
      BY <3>1, <3>2
  <2>6. \A b \in released' : heap'[b] # Freed
    BY <1>3, <1>6, <1>7, <2>1, <2>3 DEF Owned
  <2>7. QED
    BY <1>3, <2>4, <2>5, <2>6 DEF Owned
<1>14. Linked(M)'
  BY <1>10, <1>12, <1>13 DEF Linked, Apart
<1>15. heap' \in [Addresses -> Records \cup {Freed}]
  BY <1>3, <1>6
<1>16. ListsLinked'
  <2>1. DOMAIN heap' = Addresses
    BY <1>15
  <2>2. next' \in [Addresses -> Pointers] /\ head' \in [Stacks -> Pointers]
    BY <1>3, <1>6 DEF Pointers
  <2>3. m_size' \in [Stacks -> Nat] /\ released' \in SUBSET Addresses
        /\ fault' \in BOOLEAN
    BY <1>3, <1>6
  <2>4. ErrorStackTypeOK'
    BY <2>1, <2>2, <2>3 DEF ErrorStackTypeOK
  <2>5. QED
    BY <1>3, <1>5, <1>6, <1>14, <1>15, <2>4 DEF ListsLinked
<1>17. /\ Contents(s)' \in Seq(Records) /\ Len(Contents(s)') = Len(M[s])
       /\ \A t \in Stacks : Contents(t)' = [n \in 1..Len(M[t]) |-> heap'[M[t][n]]]
  BY <1>5, <1>14, <1>15, NextContentsOfChain
<1>18. /\ Contents(s) \in Seq(Records) /\ Len(Contents(s)) = Len(L[s])
       /\ \A t \in Stacks : Contents(t) = [n \in 1..Len(L[t]) |-> heap[L[t][n]]]
  BY <1>1, <1>6, ContentsOfChain
<1>19. \A t \in Stacks : t # s => Contents(t)' = Contents(t)
  <2>1. ASSUME NEW t \in Stacks, t # s
        PROVE  Contents(t)' = Contents(t)
    <3>1. M[t] = L[t]
      BY <1>5, <2>1
    <3>2. \A n \in 1..Len(L[t]) : heap'[L[t][n]] = heap[L[t][n]]
      BY <1>3, <1>6, <1>8
    <3>3. Contents(t)' = [n \in 1..Len(L[t]) |-> heap'[L[t][n]]]
      BY <1>17, <3>1
    <3>4. Contents(t) = [n \in 1..Len(L[t]) |-> heap[L[t][n]]]
      BY <1>18
    <3>5. QED
      BY <3>2, <3>3, <3>4
  <2>2. QED
    BY <2>1
<1>20. Contents(s)' = <<e>> \o Contents(s)
  <2>1. <<e>> \in Seq(Records) /\ Len(<<e>>) = 1 /\ <<e>>[1] = e
    OBVIOUS
  <2>2. /\ <<e>> \o Contents(s) \in Seq(Records)
        /\ Len(<<e>> \o Contents(s)) = 1 + Len(L[s])
        /\ \A i \in 1..1 + Len(L[s]) : (<<e>> \o Contents(s))[i] =
             IF i <= 1 THEN <<e>>[i] ELSE Contents(s)[i - 1]
    BY <1>18, <2>1, ConcatProperties
  <2>3. ASSUME NEW i \in 1..Len(M[s])
        PROVE  Contents(s)'[i] = (<<e>> \o Contents(s))[i]
    <3>1. Contents(s)'[i] = heap'[M[s][i]] /\ i \in 1..1 + Len(L[s])
      BY <1>5, <1>17
    <3>2. CASE i = 1
      BY <1>3, <1>5, <1>6, <2>1, <2>2, <3>1, <3>2
    <3>3. CASE i # 1
      <4>1. i - 1 \in 1..Len(L[s]) /\ M[s][i] = L[s][i - 1] /\ ~(i <= 1)
        BY <1>5, <1>9, <3>3
      <4>2. heap'[M[s][i]] = heap[L[s][i - 1]]
        BY <1>3, <1>6, <1>8, <4>1
      <4>3. Contents(s)[i - 1] = heap[L[s][i - 1]]
        BY <1>18, <4>1
      <4>4. QED
        BY <2>2, <3>1, <4>1, <4>2, <4>3
    <3>4. QED
      BY <3>2, <3>3
  <2>4. Len(Contents(s)') = Len(<<e>> \o Contents(s))
    BY <1>5, <1>17, <2>2
  <2>. QED
    BY <1>17, <2>2, <2>3, <2>4, SeqEqual
<1>21. QED
  BY <1>16, <1>19, <1>20

(* pop() and the destructor's loop: the first error leaves its list and    *)
(* the others are as they were.                                            *)
LEMMA HeadLeaves ==
  ASSUME ListsLinked, NEW s \in Stacks,
         (pop(s) /\ m_size[s] = Len(Contents(s))) \/ destroy_head(s)
  PROVE  /\ ListsLinked'
         /\ Contents(s) # <<>> /\ Contents(s)' = Tail(Contents(s))
         /\ \A t \in Stacks : t # s => Contents(t)' = Contents(t)
<1>1. PICK L \in Chains : Linked(L)
  BY DEF ListsLinked
<1>2. /\ heap \in [Addresses -> Records \cup {Freed}] /\ ~fault
      /\ next \in [Addresses -> Pointers] /\ head \in [Stacks -> Pointers]
      /\ m_size \in [Stacks -> Nat] /\ released \in SUBSET Addresses
      /\ fault \in BOOLEAN
  BY DEF ListsLinked, ErrorStackTypeOK
<1>3. Chained(L) /\ Apart(L) /\ Owned(L)
  BY <1>1 DEF Linked
<1>4. L[s] # <<>> /\ head[s] = L[s][1]
  BY <1>3 DEF pop, destroy_head, empty, Chained
<1>5. PICK M : M = Cut(L, s)
  OBVIOUS
<1>6. /\ M \in Chains
      /\ \A t \in Stacks : t # s => M[t] = L[t]
      /\ Len(L[s]) \in Nat \ {0} /\ Len(M[s]) = Len(L[s]) - 1
      /\ M[s] = Tail(L[s]) /\ \A i \in 1..Len(L[s]) - 1 : M[s][i] = L[s][i + 1]
  BY <1>4, <1>5, Shorter
<1>7. PICK a \in Addresses : a = head[s] /\ a = L[s][1] /\ 1 \in 1..Len(L[s])
  <2>1. 1 \in 1..Len(L[s])
    BY <1>6
  <2>2. L[s][1] \in Addresses
    BY <2>1, ElementOfSeq DEF Chains
  <2>3. QED
    BY <1>4, <2>1, <2>2
<1>8. heap[a] # Freed /\ a \notin released
  BY <1>3, <1>7 DEF Owned
<1>9. \A t \in Stacks : \A i \in 1..Len(L[t]) :
        L[t][i] \in Addresses /\ (L[t][i] = a => t = s /\ i = 1)
  <2>1. ASSUME NEW t \in Stacks, NEW i \in 1..Len(L[t])
        PROVE  L[t][i] \in Addresses
    BY ElementOfSeq DEF Chains
  <2>2. ASSUME NEW t \in Stacks, NEW i \in 1..Len(L[t]), L[t][i] = L[s][1]
        PROVE  t = s /\ i = 1
    BY <1>3, <1>7, <2>2 DEF Apart
  <2>3. QED
    BY <1>7, <2>1, <2>2
<1>10. \A t \in Stacks : \A i \in 1..Len(M[t]) :
         \/ t = s /\ i + 1 \in 1..Len(L[s]) /\ i + 1 # 1 /\ M[t][i] = L[s][i + 1]
         \/ t # s /\ i \in 1..Len(L[t]) /\ M[t][i] = L[t][i]
  <2>1. ASSUME NEW i \in 1..Len(M[s])
        PROVE  i + 1 \in 1..Len(L[s]) /\ i + 1 # 1 /\ M[s][i] = L[s][i + 1]
    <3>1. i \in 1..Len(L[s]) - 1
      BY <1>6
    <3>2. i + 1 \in 1..Len(L[s]) /\ i + 1 # 1
      BY <1>6, <3>1
    <3>3. QED
      BY <1>6, <3>1, <3>2
  <2>2. QED
    BY <1>6, <2>1
<1>11. \A t \in Stacks : \A i \in 1..Len(M[t]) : M[t][i] \in Addresses /\ M[t][i] # a
  BY <1>9, <1>10
<1>12. /\ head' = [head EXCEPT ![s] = next[a]] /\ ~fault' /\ fault' \in BOOLEAN
       /\ \A b \in Addresses : b # a => heap'[b] = heap[b] /\ next'[b] = next[b]
       /\ heap' \in [Addresses -> Records \cup {Freed}]
       /\ next' \in [Addresses -> Pointers]
       /\ \/ released' = released \cup {a} /\ heap'[a] = heap[a]
          \/ released' = released /\ heap'[a] = Freed
  BY <1>2, <1>7, <1>8 DEF pop, destroy_head, Pointers
<1>13. Chained(M)'
  <2>0. Len(L[s]) \in Nat \ {0} /\ Len(M[s]) = Len(L[s]) - 1
    BY <1>6
  <2>1. next[a] = IF 1 = Len(L[s]) THEN Null ELSE L[s][2]
    <3>1. next[L[s][1]] = IF 1 = Len(L[s]) THEN Null ELSE L[s][1 + 1]
      BY <1>3, <1>7 DEF Chained
    <3>2. QED
      BY <1>7, <3>1
  <2>2. M[s] = <<>> <=> Len(L[s]) = 1
    <3>1. M[s] \in Seq(Addresses)
      BY <1>6 DEF Chains
    <3>2. M[s] = <<>> <=> Len(M[s]) = 0
      BY <3>1, EmptySeq
    <3>3. QED
      BY <2>0, <3>2
  <2>3. head'[s] = IF M[s] = <<>> THEN Null ELSE M[s][1]
    <3>1. head'[s] = next[a]
      BY <1>2, <1>12
    <3>2. CASE Len(L[s]) = 1
      BY <2>1, <2>2, <3>1, <3>2
    <3>3. CASE Len(L[s]) # 1
      <4>1. 1 \in 1..Len(L[s]) - 1
        <5>1. \A n \in Nat \ {0} : n # 1 => 1 \in 1..n - 1
          OBVIOUS
        <5>2. QED
          BY <2>0, <3>3, <5>1
      <4>2. M[s][1] = L[s][2]
        BY <1>6, <4>1
      <4>3. QED
        BY <2>1, <2>2, <3>1, <3>3, <4>2
    <3>4. QED
      BY <3>2, <3>3
  <2>4. \A t \in Stacks : head'[t] = IF M[t] = <<>> THEN Null ELSE M[t][1]
    BY <1>2, <1>3, <1>6, <1>12, <2>3 DEF Chained
  <2>5. ASSUME NEW t \in Stacks, NEW i \in 1..Len(M[t])
        PROVE  next'[M[t][i]] = IF i = Len(M[t]) THEN Null ELSE M[t][i + 1]
    <3>1. next'[M[t][i]] = next[M[t][i]]
      BY <1>11, <1>12
    <3>2. CASE t # s
      BY <1>3, <1>6, <3>1, <3>2 DEF Chained
    <3>3. CASE t = s
      <4>1. i + 1 \in 1..Len(L[s]) /\ M[s][i] = L[s][i + 1]
        BY <1>10, <3>3
      <4>2. next[L[s][i + 1]] = IF i + 1 = Len(L[s]) THEN Null ELSE L[s][(i + 1) + 1]
        BY <1>3, <4>1 DEF Chained
      <4>3. CASE i + 1 = Len(L[s])
        <5>1. i = Len(M[s])
          BY <2>0, <3>3, <4>3
        <5>2. QED
          BY <3>1, <3>3, <4>1, <4>2, <4>3, <5>1
      <4>4. CASE i + 1 # Len(L[s])
        <5>1. i + 1 \in 1..Len(L[s]) - 1 /\ i # Len(M[s])
          BY <2>0, <3>3, <4>1, <4>4
        <5>2. M[s][i + 1] = L[s][(i + 1) + 1]
          BY <1>6, <5>1
        <5>3. QED
          BY <3>1, <3>3, <4>1, <4>2, <4>4, <5>1, <5>2
      <4>5. QED
        BY <4>3, <4>4
    <3>4. QED
      BY <3>2, <3>3
  <2>6. QED
    BY <2>4, <2>5 DEF Chained
<1>14. Apart(M)
  <2>1. ASSUME NEW t \in Stacks, NEW u \in Stacks, NEW i \in 1..Len(M[t]),
               NEW j \in 1..Len(M[u]), M[t][i] = M[u][j]
        PROVE  t = u /\ i = j
    <3>1. \A v, w \in Stacks : \A k \in 1..Len(L[v]), l \in 1..Len(L[w]) :
            L[v][k] = L[w][l] => v = w /\ k = l
      BY <1>3 DEF Apart
    <3>2. CASE t = s /\ u = s
      <4>1. /\ i + 1 \in 1..Len(L[s]) /\ M[t][i] = L[s][i + 1]
            /\ j + 1 \in 1..Len(L[s]) /\ M[u][j] = L[s][j + 1]
        BY <1>10, <3>2
      <4>2. \A k, l \in 1..Len(L[s]) : L[s][k] = L[s][l] => k = l
        BY <3>1
      <4>3. L[s][i + 1] = L[s][j + 1]
        BY <2>1, <4>1
      <4>4. i + 1 = j + 1
        BY <4>1, <4>2, <4>3
      <4>5. QED
        BY <1>6, <2>1, <3>2, <4>4
    <3>3. CASE t = s /\ u # s
      BY <1>10, <2>1, <3>1, <3>3
    <3>4. CASE t # s /\ u = s
      BY <1>10, <2>1, <3>1, <3>4
    <3>5. CASE t # s /\ u # s
      BY <1>10, <2>1, <3>1, <3>5
    <3>6. QED
      BY <3>2, <3>3, <3>4, <3>5
  <2>2. QED
    BY <2>1 DEF Apart
<1>15. Owned(M)'
  <2>1. ASSUME NEW t \in Stacks, NEW i \in 1..Len(M[t])
        PROVE  heap'[M[t][i]] # Freed /\ M[t][i] \notin released'
    <3>1. heap[M[t][i]] # Freed /\ M[t][i] \notin released
      BY <1>3, <1>10 DEF Owned
    <3>2. QED
      BY <1>11, <1>12, <3>1
  <2>2. ASSUME NEW b \in Addresses, heap'[b] # Freed, b \notin released'
        PROVE  \E t \in Stacks : \E i \in 1..Len(M[t]) : M[t][i] = b
    <3>1. b # a /\ heap[b] # Freed /\ b \notin released
      BY <1>12, <2>2
    <3>2. PICK t \in Stacks : \E i \in 1..Len(L[t]) : L[t][i] = b
      BY <1>3, <3>1 DEF Owned
    <3>3. PICK i \in 1..Len(L[t]) : L[t][i] = b
      BY <3>2
    <3>4. CASE t = s
      <4>1. i # 1
        BY <1>7, <3>1, <3>3, <3>4
      <4>2. i - 1 \in 1..Len(L[s]) - 1 /\ i - 1 \in 1..Len(M[s]) /\ (i - 1) + 1 = i
        BY <1>6, <3>4, <4>1
      <4>3. M[s][i - 1] = b
        BY <1>6, <3>3, <3>4, <4>2
      <4>4. QED
        BY <4>2, <4>3
    <3>5. CASE t # s
      BY <1>6, <3>3, <3>5
    <3>6. QED
      BY <3>4, <3>5
  <2>3. \A b \in released' : heap'[b] # Freed
    BY <1>2, <1>3, <1>8, <1>12 DEF Owned
  <2>4. QED
    BY <2>1, <2>2, <2>3 DEF Owned
<1>16. Linked(M)'
  BY <1>13, <1>14, <1>15 DEF Linked, Apart
<1>17. ListsLinked'
  <2>1. DOMAIN heap' = Addresses /\ next' \in [Addresses -> Pointers]
    BY <1>12
  <2>2. head' \in [Stacks -> Pointers]
    BY <1>2, <1>12
  <2>3. m_size' \in [Stacks -> Nat]
    <3>1. CASE pop(s) /\ m_size[s] = Len(Contents(s))
      <4>1. Len(Contents(s)) = Len(L[s])
        BY <1>1, <1>2, ContentsOfChain
      <4>2. m_size[s] - 1 \in Nat
        BY <1>6, <3>1, <4>1
      <4>3. QED
        BY <1>2, <3>1, <4>2 DEF pop
    <3>2. CASE destroy_head(s)
      BY <1>2, <3>2 DEF destroy_head
    <3>3. QED
      BY <3>1, <3>2
  <2>4. released' \in SUBSET Addresses /\ fault' \in BOOLEAN
    BY <1>2, <1>7, <1>12
  <2>5. ErrorStackTypeOK'
    BY <2>1, <2>2, <2>3, <2>4 DEF ErrorStackTypeOK
  <2>6. QED
    BY <1>6, <1>12, <1>16, <2>5 DEF ListsLinked
<1>18. \A t \in Stacks :
         /\ Contents(t)' \in Seq(Records) /\ Len(Contents(t)') = Len(M[t])
         /\ Contents(t)' = [n \in 1..Len(M[t]) |-> heap'[M[t][n]]]
  BY <1>6, <1>12, <1>16, NextContentsOfChain
<1>19. \A t \in Stacks :
         /\ Contents(t) \in Seq(Records) /\ Len(Contents(t)) = Len(L[t])
         /\ Contents(t) = [n \in 1..Len(L[t]) |-> heap[L[t][n]]]
  BY <1>1, <1>2, ContentsOfChain
<1>20. \A t \in Stacks : t # s => Contents(t)' = Contents(t)
  <2>1. ASSUME NEW t \in Stacks, t # s
        PROVE  Contents(t)' = Contents(t)
    <3>1. M[t] = L[t]
      BY <1>6, <2>1
    <3>2. \A n \in 1..Len(L[t]) : heap'[L[t][n]] = heap[L[t][n]]
      BY <1>9, <1>12, <2>1
    <3>3. Contents(t)' = [n \in 1..Len(L[t]) |-> heap'[L[t][n]]]
      BY <1>18, <3>1
    <3>4. Contents(t) = [n \in 1..Len(L[t]) |-> heap[L[t][n]]]
      BY <1>19
    <3>5. QED
      BY <3>2, <3>3, <3>4
  <2>2. QED
    BY <2>1
<1>21. Contents(s) # <<>>
  BY <1>6, <1>19
<1>22. Contents(s)' = Tail(Contents(s))
  <2>1. /\ Tail(Contents(s)) \in Seq(Records)
        /\ Len(Tail(Contents(s))) = Len(L[s]) - 1
        /\ \A i \in 1..Len(L[s]) - 1 : Tail(Contents(s))[i] = Contents(s)[i + 1]
    BY <1>19, <1>21, HeadTailProperties
  <2>2. ASSUME NEW i \in 1..Len(M[s])
        PROVE  Contents(s)'[i] = Tail(Contents(s))[i]
    <3>1. i + 1 \in 1..Len(L[s]) /\ M[s][i] = L[s][i + 1] /\ i \in 1..Len(L[s]) - 1
      BY <1>6, <1>10
    <3>2. Contents(s)'[i] = heap'[M[s][i]]
      BY <1>18
    <3>3. heap'[M[s][i]] = heap[L[s][i + 1]]
      BY <1>11, <1>12, <3>1
    <3>4. Contents(s)[i + 1] = heap[L[s][i + 1]]
      BY <1>19, <3>1
    <3>5. QED
      BY <2>1, <3>1, <3>2, <3>3, <3>4
  <2>3. Len(Contents(s)') = Len(Tail(Contents(s)))
    BY <1>6, <1>18, <2>1
  <2>. QED
    BY <1>18, <2>1, <2>2, <2>3, SeqEqual
<1>23. QED
  BY <1>17, <1>20, <1>21, <1>22

(* Two states of the heap with the same lists hold the same errors.        *)
LEMMA SameContents ==
  ASSUME NEW L \in Chains, Linked(L), Linked(L)',
         heap \in [Addresses -> Records \cup {Freed}],
         heap' \in [Addresses -> Records \cup {Freed}],
         NEW s \in Stacks,
         \A i \in 1..Len(L[s]) : heap'[L[s][i]] = heap[L[s][i]]
  PROVE  Contents(s)' = Contents(s)
<1>1. Contents(s)' = [n \in 1..Len(L[s]) |-> heap'[L[s][n]]]
  BY NextContentsOfChain
<1>2. Contents(s) = [n \in 1..Len(L[s]) |-> heap[L[s][n]]]
  BY ContentsOfChain
<1>3. QED
  BY <1>1, <1>2

(* delete: only an error that is in no list is freed.                      *)
LEMMA DeleteLinks ==
  ASSUME ListsLinked, NEW a \in released, delete(a)
  PROVE  ListsLinked' /\ \A t \in Stacks : Contents(t)' = Contents(t)
<1>1. PICK L \in Chains : Linked(L)
  BY DEF ListsLinked
<1>2. /\ heap \in [Addresses -> Records \cup {Freed}] /\ ~fault
      /\ next \in [Addresses -> Pointers] /\ head \in [Stacks -> Pointers]
      /\ m_size \in [Stacks -> Nat] /\ released \in SUBSET Addresses
  BY DEF ListsLinked, ErrorStackTypeOK
<1>3. Chained(L) /\ Apart(L) /\ Owned(L)
  BY <1>1 DEF Linked
<1>4. a \in Addresses /\ heap[a] # Freed
  BY <1>2, <1>3 DEF Owned
<1>5. /\ heap' = [heap EXCEPT ![a] = Freed] /\ next' = [next EXCEPT ![a] = Null]
      /\ head' = head /\ m_size' = m_size /\ released' = released \ {a}
      /\ ~fault' /\ fault' \in BOOLEAN
  BY <1>2, <1>4 DEF delete
<1>6. \A t \in Stacks : \A i \in 1..Len(L[t]) : L[t][i] \in Addresses /\ L[t][i] # a
  <2>1. ASSUME NEW t \in Stacks, NEW i \in 1..Len(L[t])
        PROVE  L[t][i] \in Addresses
    BY ElementOfSeq DEF Chains
  <2>2. QED
    BY <1>3, <2>1 DEF Owned
<1>7. \A t \in Stacks : \A i \in 1..Len(L[t]) :
        heap'[L[t][i]] = heap[L[t][i]] /\ next'[L[t][i]] = next[L[t][i]]
  BY <1>2, <1>5, <1>6
<1>8. Chained(L)'
  BY <1>3, <1>5, <1>7 DEF Chained
<1>9. Owned(L)'
  <2>1. ASSUME NEW b \in Addresses, heap'[b] # Freed, b \notin released'
        PROVE  \E t \in Stacks : \E i \in 1..Len(L[t]) : L[t][i] = b
    <3>1. b # a /\ heap[b] # Freed /\ b \notin released
      BY <1>2, <1>5, <2>1
    <3>2. QED
      BY <1>3, <3>1 DEF Owned
  <2>2. \A b \in released' : heap'[b] # Freed
    BY <1>2, <1>3, <1>5 DEF Owned
  <2>3. \A s \in Stacks : \A i \in 1..Len(L[s]) :
          heap'[L[s][i]] # Freed /\ L[s][i] \notin released'
    BY <1>3, <1>5, <1>7 DEF Owned
  <2>4. QED
    BY <2>1, <2>2, <2>3 DEF Owned
<1>10. Linked(L)'
  BY <1>3, <1>8, <1>9 DEF Linked, Apart
<1>11. heap' \in [Addresses -> Records \cup {Freed}]
  BY <1>2, <1>5
<1>12. ListsLinked'
  <2>1. DOMAIN heap' = Addresses
    BY <1>11
  <2>2. next' \in [Addresses -> Pointers]
    BY <1>2, <1>5 DEF Pointers
  <2>3. ErrorStackTypeOK'
    BY <1>2, <1>5, <2>1, <2>2 DEF ErrorStackTypeOK
  <2>4. QED
    BY <1>5, <1>10, <1>11, <2>3 DEF ListsLinked
<1>13. \A t \in Stacks : Contents(t)' = Contents(t)
  BY <1>1, <1>2, <1>7, <1>10, <1>11, SameContents
<1>14. QED
  BY <1>12, <1>13

(* A stack whose list is empty can be made anew.                           *)
LEMMA ConstructLinks ==
  ASSUME ListsLinked, NEW s \in Stacks, empty(s), construct(s)
  PROVE  /\ ListsLinked' /\ \A t \in Stacks : Contents(t)' = Contents(t)
         /\ Contents(s) = <<>>
<1>1. PICK L \in Chains : Linked(L)
  BY DEF ListsLinked
<1>2. /\ heap \in [Addresses -> Records \cup {Freed}] /\ ~fault
      /\ head \in [Stacks -> Pointers] /\ m_size \in [Stacks -> Nat]
  BY DEF ListsLinked, ErrorStackTypeOK
<1>3. Chained(L) /\ Apart(L) /\ Owned(L)
  BY <1>1 DEF Linked
<1>4. L[s] = <<>>
  <2>1. SUFFICES ASSUME L[s] # <<>> PROVE FALSE
    OBVIOUS
  <2>2. L[s] \in Seq(Addresses)
    BY DEF Chains
  <2>3. 1 \in 1..Len(L[s])
    BY <2>1, <2>2, EmptySeq
  <2>4. L[s][1] \in Addresses
    BY <2>2, <2>3, ElementOfSeq
  <2>5. L[s][1] = Null
    BY <1>3, <2>1 DEF Chained, empty
  <2>6. QED
    BY <2>4, <2>5, ErrorStackAssumption DEF Addresses, Null
<1>5. head' = head /\ UNCHANGED <<heap, next, released, fault>>
  <2>1. head' = [head EXCEPT ![s] = Null] /\ head[s] = Null
    BY DEF construct, empty
  <2>2. QED
    BY <1>2, <2>1 DEF construct
<1>6. m_size' \in [Stacks -> Nat]
  BY <1>2 DEF construct
<1>7. Linked(L)'
  BY <1>3, <1>5 DEF Linked, Chained, Apart, Owned
<1>8. ListsLinked'
  BY <1>5, <1>6, <1>7 DEF ListsLinked, ErrorStackTypeOK
<1>9. \A t \in Stacks : Contents(t)' = Contents(t)
  BY <1>1, <1>2, <1>5, <1>7, SameContents
<1>10. Contents(s) = <<>>
  <2>1. Len(Contents(s)) = 0 /\ Contents(s) \in Seq(Records)
    BY <1>1, <1>2, <1>4, ContentsOfChain
  <2>2. QED
    BY <2>1, EmptySeq
<1>11. QED
  BY <1>8, <1>9, <1>10

(* Two stacks exchange their lists.                                        *)
LEMMA SwapLinks ==
  ASSUME ListsLinked, NEW s \in Stacks, NEW t \in Stacks, s # t, swap(s, t)
  PROVE  /\ ListsLinked'
         /\ Contents(s)' = Contents(t) /\ Contents(t)' = Contents(s)
         /\ \A u \in Stacks : u # s /\ u # t => Contents(u)' = Contents(u)
<1>1. PICK L \in Chains : Linked(L)
  BY DEF ListsLinked
<1>2. PICK M : M = [L EXCEPT ![s] = L[t], ![t] = L[s]]
  OBVIOUS
<1>3. /\ heap \in [Addresses -> Records \cup {Freed}] /\ ~fault
      /\ head \in [Stacks -> Pointers] /\ m_size \in [Stacks -> Nat]
  BY DEF ListsLinked, ErrorStackTypeOK
<1>4. Chained(L) /\ Apart(L) /\ Owned(L)
  BY <1>1 DEF Linked
<1>5. /\ M \in Chains /\ M[s] = L[t] /\ M[t] = L[s]
      /\ \A u \in Stacks : u # s /\ u # t => M[u] = L[u]
  BY <1>2 DEF Chains
<1>6. /\ head' = [head EXCEPT ![s] = head[t], ![t] = head[s]]
      /\ m_size' = [m_size EXCEPT ![s] = m_size[t], ![t] = m_size[s]]
      /\ UNCHANGED <<heap, next, released, fault>>
  BY DEF swap
<1>7. \A u \in Stacks : \E v \in Stacks : M[u] = L[v] /\ head'[u] = head[v]
  BY <1>3, <1>5, <1>6
<1>8. \A u \in Stacks : \E v \in Stacks : L[u] = M[v]
  BY <1>5
<1>9. Linked(M)'
  <2>1. Chained(M)'
    <3>1. ASSUME NEW u \in Stacks
          PROVE  /\ head'[u] = IF M[u] = <<>> THEN Null ELSE M[u][1]
                 /\ \A i \in 1..Len(M[u]) :
                      next[M[u][i]] = IF i = Len(M[u]) THEN Null ELSE M[u][i + 1]
      <4>1. PICK v \in Stacks : M[u] = L[v] /\ head'[u] = head[v]
        BY <1>7
      <4>2. QED
        BY <1>4, <4>1 DEF Chained
    <3>2. QED
      BY <1>6, <3>1 DEF Chained
  <2>2. Apart(M)
    BY <1>4, <1>5 DEF Apart
  <2>3. Owned(M)'
    <3>1. ASSUME NEW u \in Stacks, NEW i \in 1..Len(M[u])
          PROVE  heap[M[u][i]] # Freed /\ M[u][i] \notin released
      <4>1. PICK v \in Stacks : M[u] = L[v]
        BY <1>7
      <4>2. QED
        BY <1>4, <4>1 DEF Owned
    <3>2. ASSUME NEW a \in Addresses, heap[a] # Freed, a \notin released
          PROVE  \E u \in Stacks : \E i \in 1..Len(M[u]) : M[u][i] = a
      <4>1. PICK v \in Stacks : \E i \in 1..Len(L[v]) : L[v][i] = a
        BY <1>4, <3>2 DEF Owned
      <4>2. PICK u \in Stacks : L[v] = M[u]
        BY <1>8
      <4>3. QED
        BY <4>1, <4>2
    <3>3. \A a \in released : heap[a] # Freed
      BY <1>4 DEF Owned
    <3>4. QED
      BY <1>6, <3>1, <3>2, <3>3 DEF Owned
  <2>4. QED
    BY <2>1, <2>2, <2>3 DEF Linked, Apart
<1>10. ListsLinked'
  <2>1. head' \in [Stacks -> Pointers] /\ m_size' \in [Stacks -> Nat]
    BY <1>3, <1>6
  <2>2. ErrorStackTypeOK'
    BY <1>6, <2>1 DEF ErrorStackTypeOK, ListsLinked
  <2>3. QED
    BY <1>3, <1>5, <1>6, <1>9, <2>2 DEF ListsLinked
<1>11. \A u \in Stacks : Contents(u)' = [n \in 1..Len(M[u]) |-> heap[M[u][n]]]
  BY <1>3, <1>5, <1>6, <1>9, NextContentsOfChain
<1>12. \A u \in Stacks : Contents(u) = [n \in 1..Len(L[u]) |-> heap[L[u][n]]]
  BY <1>1, <1>3, ContentsOfChain
<1>13. ASSUME NEW u \in Stacks, NEW v \in Stacks, M[u] = L[v]
       PROVE  Contents(u)' = Contents(v)
  <2>1. Contents(u)' = [n \in 1..Len(L[v]) |-> heap[L[v][n]]]
    BY <1>11, <1>13
  <2>2. QED
    BY <1>12, <2>1
<1>14. QED
  BY <1>5, <1>10, <1>13

(* The lists hold errors.                                                  *)
LEMMA ContentsAreRecords ==
  ListsLinked => \A s \in Stacks : Contents(s) \in Seq(Records)
  BY ContentsOfChain DEF ListsLinked

(* Linked lists own every error once.                                      *)
LEMMA LinkedMeansOwned == ListsLinked => OwnedOnce /\ ~fault
<1>. SUFFICES ASSUME ListsLinked PROVE OwnedOnce /\ ~fault
  OBVIOUS
<1>1. PICK L \in Chains : Linked(L)
  BY DEF ListsLinked
<1>2. Apart(L) /\ Owned(L)
  BY <1>1 DEF Linked
<1>3. \A s \in Stacks : Visited(s) = L[s] /\ DOMAIN Visited(s) = 1..Len(L[s])
  <2>1. ASSUME NEW s \in Stacks
        PROVE  Visited(s) = L[s] /\ DOMAIN L[s] = 1..Len(L[s])
    BY <1>1, VisitedIsChain, LenProperties DEF Chains
  <2>2. QED
    BY <2>1
<1>. DEFINE visited == [s \in Stacks |-> Visited(s)]
            owners(a) == {s \in Stacks : a \in Range(visited[s])}
<1>4. \A a : \A s \in Stacks : s \in owners(a) <=> \E i \in 1..Len(L[s]) : L[s][i] = a
  BY <1>3 DEF Range
<1>5. \A s \in Stacks : IsInjective(visited[s])
  BY <1>2, <1>3 DEF IsInjective, Apart
<1>6. ASSUME NEW a \in Addresses
      PROVE  IF heap[a] = Freed THEN owners(a) = {} /\ a \notin released
             ELSE Cardinality(owners(a)) = (IF a \in released THEN 0 ELSE 1)
  <2>1. CASE heap[a] = Freed
    BY <1>2, <1>4, <2>1 DEF Owned
  <2>2. CASE heap[a] # Freed /\ a \in released
    <3>1. owners(a) = {}
      BY <1>2, <1>4, <2>2 DEF Owned
    <3>2. QED
      BY <2>2, <3>1, FS_EmptySet
  <2>3. CASE heap[a] # Freed /\ a \notin released
    <3>1. PICK s \in Stacks : \E i \in 1..Len(L[s]) : L[s][i] = a
      BY <1>2, <2>3 DEF Owned
    <3>2. \A t \in Stacks : (\E i \in 1..Len(L[t]) : L[t][i] = a) => t = s
      BY <1>2, <3>1 DEF Apart
    <3>3. owners(a) = {s}
      BY <1>4, <3>1, <3>2
    <3>4. QED
      BY <2>3, <3>3, FS_Singleton
  <2>4. QED
    BY <2>1, <2>2, <2>3
<1>7. OwnedOnce
  BY <1>5, <1>6 DEF OwnedOnce
<1>8. QED
  BY <1>7 DEF ListsLinked

(* The errors the handlers hold while they are asked.                      *)
ErrorsTyped ==
  /\ state \in {"optional", "sequence", "unknown"}
  /\ the_error \in ClassP!Errors
  /\ vec_error \in VecP!Errors
  /\ call \in Nat /\ reaped \in Nat

(* size() is the length of the list, except that of a stack that is being  *)
(* destroyed.                                                              *)
SizesKnown ==
  /\ \A s \in {"result", "errs"} : m_size[s] = Len(Contents(s))
  /\ pc # "clearing" => Contents("temporary") = <<>> /\ m_size["temporary"] = 0

ListsKnown == ListsLinked /\ SizesKnown

(* Asking a handler pushes a proper error, or nothing.                     *)
LEMMA ReapPushes ==
  ASSUME ErrorsTyped, Reap
  PROVE  \/ PushesNothing
         \/ \E e \in Records : /\ push(Target, e) /\ reaped' = reaped + 1
                               /\ e.call = call /\ e.level = reaped + 1
<1>1. ASSUME NEW type \in {"none", "TYPE_MISMATCH", "UNKNOWN_FIELD",
               "DUPLICATE_KEYS", "OBJECT_MEMBER", "MISSING_REQUIRED",
               "ARRAY_LENGTH_MISMATCH", "ARRAY_ELEMENT", "FINAL"},
             NEW member \in {"optional", "sequence", "unknown"},
             NEW index \in Int, Pushes(NewError(type, member, index))
      PROVE  \E e \in Records : /\ push(Target, e) /\ reaped' = reaped + 1
                                /\ e.call = call /\ e.level = reaped + 1
  <2>1. NewError(type, member, index) \in Records
    BY DEF NewError, Records, ErrorsTyped
  <2>2. /\ NewError(type, member, index).call = call
        /\ NewError(type, member, index).level = reaped + 1
    BY DEF NewError
  <2>3. QED
    BY <1>1, <2>1, <2>2 DEF Pushes
<1>2. CASE ReapClass
  <2>1. the_error.type \in {"none", "TYPE_MISMATCH", "UNKNOWN_FIELD",
           "DUPLICATE_KEYS", "OBJECT_MEMBER", "MISSING_REQUIRED"}
    BY DEF ErrorsTyped, ClassP!Errors
  <2>2. PushesNothing \/ Pushes(NewError(the_error.type, state, -1))
    BY <1>2 DEF ReapClass
  <2>3. -1 \in Int
    OBVIOUS
  <2>4. QED
    BY <1>1, <2>1, <2>2, <2>3 DEF ErrorsTyped
<1>3. CASE ReapMember
  <2>1. vec_error.type \in {"none", "TYPE_MISMATCH", "ARRAY_LENGTH_MISMATCH",
                            "ARRAY_ELEMENT"} /\ vec_error.at \in Int
    BY DEF ErrorsTyped, VecP!Errors
  <2>2. PushesNothing \/ Pushes(NewError(vec_error.type, "unknown", vec_error.at))
    BY <1>3 DEF ReapMember
  <2>3. QED
    BY <1>1, <2>1, <2>2
<1>4. CASE ReapElement
  <2>1. PushesNothing \/ Pushes(NewError("FINAL", "unknown", -1))
    BY <1>4 DEF ReapElement
  <2>2. -1 \in Int
    OBVIOUS
  <2>3. QED
    BY <1>1, <2>1, <2>2
<1>5. QED
  BY <1>2, <1>3, <1>4 DEF Reap

(* At the start the lists are empty.                                       *)
LEMMA ListsInit == Init => ErrorsTyped /\ ListsKnown
<1>. SUFFICES ASSUME Init PROVE ErrorsTyped /\ ListsKnown
  OBVIOUS
<1>1. /\ heap = [a \in Addresses |-> Freed] /\ next = [a \in Addresses |-> Null]
      /\ head = [s \in Stacks |-> Null] /\ m_size = [s \in Stacks |-> 0]
      /\ released = {} /\ fault = FALSE
  BY DEF Init, ErrorStackInit
<1>2. PICK L : L = [s \in Stacks |-> <<>>]
  OBVIOUS
<1>3. L \in Chains /\ \A s \in Stacks : L[s] = <<>> /\ Len(L[s]) = 0
  BY <1>2 DEF Chains
<1>4. Linked(L)
  BY <1>1, <1>3 DEF Linked, Chained, Apart, Owned
<1>5. ListsLinked
  BY <1>1, <1>3, <1>4 DEF ListsLinked, ErrorStackTypeOK, Pointers
<1>6. \A s \in Stacks : Contents(s) = <<>>
  <2>1. ASSUME NEW s \in Stacks
        PROVE  Contents(s) \in Seq(Records) /\ Len(Contents(s)) = 0
    BY <1>3, <1>4, <1>5, ContentsOfChain DEF ListsLinked
  <2>2. QED
    BY <2>1, EmptySeq
<1>7. SizesKnown
  BY <1>1, <1>6, ProgramAssumption DEF SizesKnown
<1>8. ErrorsTyped
  BY DEF Init, ErrorsTyped, Class!Init, Class!NoError, ClassP!Errors,
         Vec!Init, Vec!NoError, VecP!Errors
<1>9. QED
  BY <1>5, <1>7, <1>8 DEF ListsKnown

(* The handlers' types hold after the errors are taken from them, too.     *)
LEMMA TypesStep ==
  ASSUME HandlersSound, HandlersSound', ErrorsTyped, [Next]_vars
  PROVE  ErrorsTyped'
<1>1. call' \in Nat /\ reaped' \in Nat
  <2>1. CASE Reap
    <3>1. reaped' = reaped \/ reaped' = reaped + 1
      BY <2>1 DEF Reap, ReapClass, ReapMember, ReapElement, PushesNothing, Pushes
    <3>2. call' = call
      BY <2>1 DEF Reap, ReapClass, ReapMember, ReapElement, Asks
    <3>3. QED
      BY <3>1, <3>2 DEF ErrorsTyped
  <2>2. CASE from_json_file_unopened \/ set_result \/ Accepted
    BY <2>2 DEF ErrorsTyped, from_json_file_unopened, set_result, Accepted, Ended
  <2>3. CASE UNCHANGED <<call, reaped>>
    BY <2>3 DEF ErrorsTyped
  <2>4. QED
    BY <2>1, <2>2, <2>3
       DEF Next, vars, callVars, from_json, from_document, Begin, Event,
           ClearTemporary, Return, PrintTrace, PrintNext, Pop, Delete
<1>2. CASE asked' = "class"
  <2>1. ClassP!ClassTypeOK' /\ VecP!TypeOK'
    BY <1>2 DEF HandlersSound, HandlersKnown, ClassKnown, ClassP!IInv, VecP!IInv
  <2>2. QED
    BY <1>1, <2>1 DEF ClassP!ClassTypeOK, VecP!TypeOK, ErrorsTyped
<1>3. CASE asked' # "class"
  <2>1. CASE Reap
    <3>1. /\ state' = state
          /\ the_error' = the_error \/ the_error' = Class!NoError
          /\ vec_error' = vec_error \/ vec_error' = Vec!NoError
      BY <2>1 DEF Reap, ReapClass, ReapMember, ReapElement, classVars, vecVars
    <3>2. Class!NoError \in ClassP!Errors /\ Vec!NoError \in VecP!Errors
      BY DEF Class!NoError, ClassP!Errors, Vec!NoError, VecP!Errors
    <3>3. QED
      BY <1>1, <3>1, <3>2 DEF ErrorsTyped
  <2>2. CASE ~Reap
    <3>1. pc # "reaping" => asked = "class"
      BY DEF HandlersSound
    <3>2. UNCHANGED handlerVars
      BY <1>3, <2>2, <3>1
         DEF Next, vars, from_json, from_document, Begin, from_json_file_unopened,
             Event, set_result, Accepted, Ended, ClearTemporary, Return,
             PrintTrace, PrintNext, Pop, Delete
    <3>3. QED
      BY <1>1, <3>2 DEF ErrorsTyped, handlerVars, classVars, vecVars
  <2>3. QED
    BY <2>1, <2>2
<1>4. QED
  BY <1>2, <1>3

(* Steps that leave the lists alone.                                       *)
LEMMA UnchangedLists ==
  ASSUME ListsLinked, UNCHANGED errorStackVars
  PROVE  ListsLinked' /\ \A s \in Stacks : Contents(s)' = Contents(s)
<1>1. UNCHANGED <<heap, next, head, m_size, released, fault>>
  BY DEF errorStackVars
<1>2. ListsLinked'
  BY <1>1 DEF ListsLinked, ErrorStackTypeOK, Linked, Chained, Apart, Owned
<1>3. \A s \in Stacks : Contents(s)' = Contents(s)
  <2>1. \A s \in Stacks : Position(s)' = Position(s)
    BY <1>1 DEF Position
  <2>2. \A s \in Stacks : Visited(s)' = Visited(s)
    BY <2>1 DEF Visited
  <2>3. QED
    BY <1>1, <2>2 DEF Contents
<1>4. QED
  BY <1>2, <1>3

(* Every step keeps the lists linked and their sizes right.                *)
LEMMA ListsStep ==
  ASSUME HandlersSound, ErrorsTyped, ListsKnown, [Next]_vars
  PROVE  ListsKnown'
<1>1. Stacks = {"result", "errs", "temporary"}
  BY ProgramAssumption
<1>2. /\ ListsLinked /\ m_size \in [Stacks -> Nat]
      /\ \A s \in {"result", "errs"} : m_size[s] = Len(Contents(s))
      /\ pc # "clearing" => Contents("temporary") = <<>> /\ m_size["temporary"] = 0
  BY DEF ListsKnown, SizesKnown, ListsLinked, ErrorStackTypeOK
<1>3. ASSUME UNCHANGED errorStackVars, pc' # "clearing" => pc # "clearing"
      PROVE  ListsKnown'
  <2>1. ListsLinked' /\ \A s \in Stacks : Contents(s)' = Contents(s)
    BY <1>2, <1>3, UnchangedLists
  <2>2. m_size' = m_size
    BY <1>3 DEF errorStackVars
  <2>3. QED
    BY <1>1, <1>2, <1>3, <2>1, <2>2 DEF ListsKnown, SizesKnown
<1>4. CASE from_json \/ from_document \/ from_json_file_unopened \/ Event
           \/ Accepted \/ Return \/ PrintTrace \/ PrintNext \/ UNCHANGED vars
  <2>1. UNCHANGED errorStackVars
    BY <1>4 DEF from_json, from_document, Begin, from_json_file_unopened, Event,
                Accepted, Return, PrintTrace, PrintNext, vars
  <2>2. pc' # "clearing" => pc # "clearing"
    BY <1>4 DEF from_json, from_document, Begin, from_json_file_unopened, Event,
                Accepted, Ended, Return, PrintTrace, PrintNext, vars
  <2>3. QED
    BY <1>3, <2>1, <2>2
<1>5. CASE set_result
  <2>1. /\ swap("temporary", "result") /\ pc = "from_json" /\ pc' = "clearing"
    BY <1>5 DEF set_result, Ended
  <2>2. /\ ListsLinked' /\ Contents("result")' = Contents("temporary")
        /\ Contents("errs")' = Contents("errs")
    BY <1>1, <1>2, <2>1, SwapLinks
  <2>3. m_size'["result"] = m_size["temporary"] /\ m_size'["errs"] = m_size["errs"]
    BY <1>1, <1>2, <2>1 DEF swap
  <2>4. QED
    BY <1>2, <2>1, <2>2, <2>3 DEF ListsKnown, SizesKnown
<1>6. CASE ClearTemporary
  <2>1. CASE destroy_head("temporary") /\ UNCHANGED pc /\ pc = "clearing"
    <3>1. /\ ListsLinked' /\ Contents("result")' = Contents("result")
          /\ Contents("errs")' = Contents("errs")
      BY <1>1, <1>2, <2>1, HeadLeaves
    <3>2. m_size' = m_size
      BY <2>1 DEF destroy_head
    <3>3. QED
      BY <1>2, <2>1, <3>1, <3>2 DEF ListsKnown, SizesKnown
  <2>2. CASE empty("temporary") /\ construct("temporary") /\ pc' = "reaping"
    <3>1. /\ ListsLinked' /\ \A t \in Stacks : Contents(t)' = Contents(t)
          /\ Contents("temporary") = <<>>
      BY <1>1, <1>2, <2>2, ConstructLinks
    <3>2. /\ m_size'["result"] = m_size["result"] /\ m_size'["errs"] = m_size["errs"]
          /\ m_size'["temporary"] = 0
      BY <1>1, <1>2, <2>2 DEF construct
    <3>3. QED
      BY <1>1, <1>2, <3>1, <3>2 DEF ListsKnown, SizesKnown
  <2>3. QED
    BY <1>6, <2>1, <2>2 DEF ClearTemporary
<1>7. CASE Reap
  <2>1. pc = "reaping" /\ pc' = pc
    BY <1>7 DEF Reap, ReapClass, ReapMember, ReapElement, Asks
  <2>2. CASE PushesNothing
    BY <1>3, <2>1, <2>2 DEF PushesNothing
  <2>3. CASE \E e \in Records : push(Target, e)
    <3>1. PICK e \in Records : push(Target, e)
      BY <2>3
    <3>2. PICK s \in {"result", "errs"} : s = Target
      BY DEF Target
    <3>3. push(s, e) /\ s \in Stacks
      BY <1>1, <3>1, <3>2
    <3>4. /\ ListsLinked' /\ Contents(s)' = <<e>> \o Contents(s)
          /\ \A t \in Stacks : t # s => Contents(t)' = Contents(t)
      BY <1>2, <3>3, PushLinks
    <3>5. Contents(s) \in Seq(Records)
      BY <1>2, <3>3, ContentsAreRecords
    <3>6. Len(<<e>> \o Contents(s)) = Len(Contents(s)) + 1
      <4>1. <<e>> \in Seq(Records) /\ Len(<<e>>) = 1
        OBVIOUS
      <4>2. Len(<<e>> \o Contents(s)) = Len(<<e>>) + Len(Contents(s))
        BY <3>5, <4>1, ConcatProperties
      <4>3. QED
        BY <3>5, <4>1, <4>2, LenProperties
    <3>7. m_size' = [m_size EXCEPT ![s] = @ + 1]
      BY <3>3 DEF push
    <3>8. QED
      BY <1>1, <1>2, <2>1, <3>2, <3>4, <3>6, <3>7 DEF ListsKnown, SizesKnown
  <2>4. QED
    BY <1>7, <2>2, <2>3, ReapPushes
<1>8. CASE Pop
  <2>1. pop("errs") /\ UNCHANGED pc /\ pc = "idle"
    BY <1>8 DEF Pop
  <2>2. /\ ListsLinked' /\ Contents("result")' = Contents("result")
        /\ Contents("temporary")' = Contents("temporary")
        /\ Contents("errs") # <<>> /\ Contents("errs")' = Tail(Contents("errs"))
    BY <1>1, <1>2, <2>1, HeadLeaves
  <2>3. Contents("errs") \in Seq(Records)
    BY <1>1, <1>2, ContentsAreRecords
  <2>4. Len(Tail(Contents("errs"))) = Len(Contents("errs")) - 1
    BY <2>2, <2>3, HeadTailProperties
  <2>5. m_size' = [m_size EXCEPT !["errs"] = @ - 1]
    BY <2>1 DEF pop
  <2>6. QED
    BY <1>1, <1>2, <2>1, <2>2, <2>4, <2>5 DEF ListsKnown, SizesKnown
<1>9. CASE Delete
  <2>1. PICK a \in released : delete(a)
    BY <1>9 DEF Delete
  <2>2. ListsLinked' /\ \A t \in Stacks : Contents(t)' = Contents(t)
    BY <1>2, <2>1, DeleteLinks
  <2>3. m_size' = m_size /\ UNCHANGED pc
    BY <1>9, <2>1 DEF Delete, delete
  <2>4. QED
    BY <1>1, <1>2, <2>2, <2>3 DEF ListsKnown, SizesKnown
<1>10. QED
  BY <1>4, <1>5, <1>6, <1>7, <1>8, <1>9 DEF Next

(* The lists of a program, and the types of its errors, always.            *)
LEMMA AlwaysListed == Spec => [](HandlersSound /\ ErrorsTyped /\ ListsKnown)
<1>. DEFINE Both == HandlersSound /\ ErrorsTyped /\ ListsKnown
<1>1. Init => Both
  BY HandlersInit, ListsInit
<1>2. Both /\ [Next]_vars => Both'
  BY HandlersStep, TypesStep, ListsStep
<1>3. QED
  BY <1>1, <1>2, PTL DEF Spec

(* No error is leaked, owned twice or freed while it is listed, and size() *)
(* counts the list: ErrorStack's push, pop, swap and destructor.           *)
THEOREM ListsAreSound == Spec => []ListsSound
<1>1. ListsKnown => ListsSound
  <2>. SUFFICES ASSUME ListsKnown PROVE ListsSound
    OBVIOUS
  <2>1. PICK L \in Chains : Linked(L)
    BY DEF ListsKnown, ListsLinked
  <2>2. ASSUME NEW s \in {"result", "errs"}
        PROVE  m_size[s] = Len(Visited(s))
    <3>1. s \in Stacks
      BY ProgramAssumption
    <3>2. Len(Contents(s)) = Len(L[s]) /\ Visited(s) = L[s]
      BY <2>1, <3>1, ContentsOfChain, VisitedIsChain DEF ListsKnown, ListsLinked
    <3>3. QED
      BY <3>2 DEF ListsKnown, SizesKnown
  <2>3. QED
    BY <2>2, LinkedMeansOwned DEF ListsKnown, ListsSound
<1>2. QED
  BY <1>1, AlwaysListed, PTL
-----------------------------------------------------------------------------
(* What the chain of ReapError() is still to push.                         *)

(* The element's handler has one error or none.                            *)
LEMMA ElementErrorsAre == ElementErrors \in {0, 1}
  BY DEF ElementErrors

(* What the chosen member is still to push, case by case.                  *)
LEMMA MemberErrorsAre ==
  /\ state = "unknown" => MemberErrors = 0
  /\ state = "optional" => MemberErrors = ElementErrors
  /\ state = "sequence" => MemberErrors = IF vec_error = Vec!NoError THEN 0
                                          ELSE 1 + ElementErrors
<1>1. ASSUME state = "unknown" PROVE MemberErrors = 0
  BY <1>1 DEF MemberErrors
<1>2. ASSUME state = "optional" PROVE MemberErrors = ElementErrors
  BY <1>2 DEF MemberErrors
<1>3. ASSUME state = "sequence"
      PROVE  MemberErrors = IF vec_error = Vec!NoError THEN 0 ELSE 1 + ElementErrors
  BY <1>3 DEF MemberErrors
<1>4. QED
  BY <1>1, <1>2, <1>3

(* What the chain is still to push, by who is asked next.                  *)
LEMMA PendingIs ==
  /\ pc \notin {"clearing", "reaping"} => Pending = 0
  /\ pc \in {"clearing", "reaping"} =>
       /\ asked = "class" => Pending = IF the_error = Class!NoError THEN 0
                                       ELSE 1 + MemberErrors
       /\ asked = "member" => Pending = MemberErrors
       /\ asked = "element" => Pending = ElementErrors
       /\ asked = "nobody" => Pending = 0
<1>1. ASSUME pc \notin {"clearing", "reaping"} PROVE Pending = 0
  BY <1>1 DEF Pending
<1>2. ASSUME pc \in {"clearing", "reaping"}, asked = "class"
      PROVE  Pending = IF the_error = Class!NoError THEN 0 ELSE 1 + MemberErrors
  BY <1>2 DEF Pending
<1>3. ASSUME pc \in {"clearing", "reaping"}, asked = "member"
      PROVE  Pending = MemberErrors
  BY <1>3 DEF Pending
<1>4. ASSUME pc \in {"clearing", "reaping"}, asked = "element"
      PROVE  Pending = ElementErrors
  BY <1>4 DEF Pending
<1>5. ASSUME pc \in {"clearing", "reaping"}, asked = "nobody"
      PROVE  Pending = 0
  BY <1>5 DEF Pending
<1>6. QED
  BY <1>1, <1>2, <1>3, <1>4, <1>5

(* The same in the next state.                                             *)
LEMMA NextPendingIs ==
  /\ pc' \notin {"clearing", "reaping"} => Pending' = 0
  /\ pc' \in {"clearing", "reaping"} =>
       /\ asked' = "class" => Pending' = IF the_error' = Class!NoError THEN 0
                                         ELSE 1 + MemberErrors'
       /\ asked' = "member" => Pending' = MemberErrors'
       /\ asked' = "element" => Pending' = ElementErrors'
       /\ asked' = "nobody" => Pending' = 0
<1>1. (/\ pc \notin {"clearing", "reaping"} => Pending = 0
       /\ pc \in {"clearing", "reaping"} =>
            /\ asked = "class" => Pending = IF the_error = Class!NoError THEN 0
                                            ELSE 1 + MemberErrors
            /\ asked = "member" => Pending = MemberErrors
            /\ asked = "element" => Pending = ElementErrors
            /\ asked = "nobody" => Pending = 0)'
  BY PendingIs, PTL
<1>2. Class!NoError' = Class!NoError
  BY DEF Class!NoError
<1>3. QED
  BY <1>1, <1>2

(* That is at most one error of each of the three handlers.                *)
LEMMA PendingBounds ==
  ASSUME ErrorsTyped, asked \in ReapSteps
  PROVE  Pending \in 0..3
<1>1. MemberErrors \in 0..2
  BY MemberErrorsAre, ElementErrorsAre DEF ErrorsTyped
<1>2. QED
  BY <1>1, PendingIs, ElementErrorsAre DEF ReapSteps

(* Every push is one the chain was still to make.                          *)
LEMMA ReapTakesPending ==
  ASSUME ErrorsTyped, Reap
  PROVE  \/ PushesNothing /\ Pending' = Pending
         \/ reaped' = reaped + 1 /\ Pending \in Nat \ {0} /\ Pending' = Pending - 1
<1>1. pc = "reaping" /\ pc' = "reaping"
  BY DEF Reap, ReapClass, ReapMember, ReapElement, Asks
<1>2. state \in {"optional", "sequence", "unknown"} /\ state' = state
      /\ UNCHANGED <<inner, vec_noted, opt_handler, opt_noted>>
  BY DEF ErrorsTyped, Reap, ReapClass, ReapMember, ReapElement, Asks, classVars,
         vecVars, optVars
<1>3. ElementErrors' = ElementErrors
  BY <1>2 DEF ElementErrors, ElementHasError, Vec!HasError, Opt!HasError
<1>4. CASE ReapClass
  <2>1. vec_error' = vec_error
    BY <1>4 DEF ReapClass, vecVars
  <2>2. MemberErrors' = MemberErrors
    BY <1>2, <1>3, <2>1 DEF MemberErrors, Vec!NoError
  <2>3. MemberErrors \in 0..2
    BY <1>2, MemberErrorsAre, ElementErrorsAre
  <2>4. CASE the_error = Class!NoError /\ Asks("class", "nobody") /\ PushesNothing
    BY <1>1, <2>4, PendingIs, NextPendingIs DEF Asks
  <2>5. CASE /\ the_error # Class!NoError /\ Asks("class", "member")
             /\ Pushes(NewError(the_error.type, state, -1))
    <3>1. Pending = 1 + MemberErrors /\ Pending' = MemberErrors
      BY <1>1, <2>2, <2>5, PendingIs, NextPendingIs DEF Asks
    <3>2. reaped' = reaped + 1
      BY <2>5 DEF Pushes
    <3>3. QED
      BY <2>3, <3>1, <3>2
  <2>6. QED
    BY <1>4, <2>4, <2>5 DEF ReapClass
<1>5. CASE ReapMember
  <2>1. asked = "member"
    BY <1>5 DEF ReapMember, Asks
  <2>2. Pending = MemberErrors
    BY <1>1, <2>1, PendingIs
  <2>3. CASE /\ \/ state = "unknown"
                \/ state = "optional" /\ opt_handler = Opt!none
                \/ state = "sequence" /\ vec_error = Vec!NoError
             /\ Asks("member", "nobody")
             /\ PushesNothing
    <3>1. Pending' = 0
      BY <1>1, <2>3, NextPendingIs DEF Asks
    <3>2. state = "optional" /\ opt_handler = Opt!none => ElementErrors = 0
      BY DEF ElementErrors, ElementHasError, Opt!HasError, Opt!none
    <3>3. MemberErrors = 0
      BY <2>3, <3>2, MemberErrorsAre
    <3>4. QED
      BY <2>2, <2>3, <3>1, <3>3
  <2>4. CASE /\ state = "optional" /\ Asks("member", "element") /\ PushesNothing
    <3>1. Pending' = ElementErrors
      BY <1>1, <1>3, <2>4, NextPendingIs DEF Asks
    <3>2. QED
      BY <2>2, <2>4, <3>1, MemberErrorsAre
  <2>5. CASE /\ state = "sequence" /\ vec_error # Vec!NoError
             /\ Asks("member", "element")
             /\ Pushes(NewError(vec_error.type, "unknown", vec_error.at))
    <3>1. Pending' = ElementErrors
      BY <1>1, <1>3, <2>5, NextPendingIs DEF Asks
    <3>2. Pending = 1 + ElementErrors
      BY <2>2, <2>5, MemberErrorsAre
    <3>3. reaped' = reaped + 1
      BY <2>5 DEF Pushes
    <3>4. QED
      BY <3>1, <3>2, <3>3, ElementErrorsAre
  <2>6. QED
    BY <1>5, <2>3, <2>4, <2>5 DEF ReapMember
<1>6. CASE ReapElement
  <2>1. Pending = ElementErrors /\ Pending' = 0
    BY <1>1, <1>6, PendingIs, NextPendingIs DEF ReapElement, Asks
  <2>2. CASE ElementHasError /\ Pushes(NewError("FINAL", "unknown", -1))
    <3>1. reaped' = reaped + 1 /\ ElementErrors = 1
      BY <2>2 DEF Pushes, ElementErrors
    <3>2. QED
      BY <2>1, <3>1
  <2>3. CASE ~ElementHasError /\ PushesNothing
    BY <2>1, <2>3 DEF ElementErrors
  <2>4. QED
    BY <1>6, <2>2, <2>3 DEF ReapElement
<1>7. QED
  BY <1>4, <1>5, <1>6 DEF Reap

(* When the parse has ended, the class handler's error tells how it did.   *)
LEMMA OutcomePossible ==
  ASSUME HandlersSound, asked = "class"
  PROVE  /\ phase = "done" => the_error = Class!NoError
         /\ phase = "terminated" => the_error # Class!NoError
<1>1. ClassP!RefusalRecorded /\ ClassP!NotedSoFar
  BY DEF HandlersSound, HandlersKnown, ClassKnown, ClassP!IInv
<1>2. QED
  BY <1>1, ClassDefinitions DEF ClassP!RefusalRecorded, ClassP!NotedSoFar
-----------------------------------------------------------------------------
(* The refinement of Session.                                              *)

Name(e) == [call |-> e.call, level |-> e.level]
NamesOf(c) == [i \in DOMAIN c |-> Name(c[i])]
Coming(p, levels, k) == [i \in 1..p |-> [call |-> k, level |-> levels + 1 - i]]
NamedErrors == [call : Nat, level : Int]

(* What the refinement shows of a list.                                    *)
LEMMA NamesAre ==
  ASSUME NEW s \in {"result", "errs"}
  PROVE  Names(s) = IF s = Target
                    THEN Coming(Pending, Levels, call) \o NamesOf(Contents(s))
                    ELSE NamesOf(Contents(s))
  BY DEF Names, Coming, NamesOf, Name

(* The same of the next state.                                             *)
LEMMA NextNamesAre ==
  \A s \in {"result", "errs"} :
    Names(s)' = IF s = Target'
                THEN Coming(Pending', Levels', call') \o NamesOf(Contents(s)')
                ELSE NamesOf(Contents(s)')
<1>1. \A s \in {"result", "errs"} :
        Names(s) = IF s = Target
                   THEN Coming(Pending, Levels, call) \o NamesOf(Contents(s))
                   ELSE NamesOf(Contents(s))
  BY NamesAre
<1>2. (\A s \in {"result", "errs"} :
         Names(s) = IF s = Target
                    THEN Coming(Pending, Levels, call) \o NamesOf(Contents(s))
                    ELSE NamesOf(Contents(s)))'
  BY <1>1, PTL
<1>3. QED
  BY <1>2

(* The names of a list are a list of the same length, empty when it is.    *)
LEMMA NamesOfTyped ==
  ASSUME NEW c \in Seq(Records)
  PROVE  /\ NamesOf(c) \in Seq(NamedErrors) /\ Len(NamesOf(c)) = Len(c)
         /\ NamesOf(c) = <<>> <=> c = <<>>
         /\ \A i \in 1..Len(c) : NamesOf(c)[i] = Name(c[i])
<1>1. DOMAIN c = 1..Len(c) /\ Len(c) \in Nat /\ \A i \in 1..Len(c) : c[i] \in Records
  BY LenProperties, ElementOfSeq
<1>2. \A i \in 1..Len(c) : Name(c[i]) \in NamedErrors
  BY <1>1 DEF Name, NamedErrors, Records
<1>3. NamesOf(c) \in [1..Len(c) -> NamedErrors]
  BY <1>1, <1>2 DEF NamesOf
<1>4. NamesOf(c) \in Seq(NamedErrors)
  BY <1>1, <1>3 DEF Seq
<1>5. Len(NamesOf(c)) = Len(c)
  BY <1>1, <1>3, <1>4, LenProperties
<1>6. NamesOf(c) = <<>> <=> c = <<>>
  BY <1>4, <1>5, EmptySeq
<1>7. QED
  BY <1>1, <1>4, <1>5, <1>6 DEF NamesOf

(* Popping a list pops its names.                                          *)
LEMMA NamesOfTail ==
  ASSUME NEW c \in Seq(Records), c # <<>>
  PROVE  NamesOf(Tail(c)) = Tail(NamesOf(c))
<1>1. /\ Tail(c) \in Seq(Records) /\ Len(Tail(c)) = Len(c) - 1 /\ Len(c) \in Nat
      /\ \A i \in 1..Len(Tail(c)) : Tail(c)[i] = c[i + 1]
  BY HeadTailProperties, LenProperties
<1>2. /\ NamesOf(c) \in Seq(NamedErrors) /\ NamesOf(c) # <<>>
      /\ Len(NamesOf(c)) = Len(c)
      /\ \A i \in 1..Len(c) : NamesOf(c)[i] = Name(c[i])
  BY NamesOfTyped
<1>3. /\ NamesOf(Tail(c)) \in Seq(NamedErrors) /\ Len(NamesOf(Tail(c))) = Len(c) - 1
      /\ \A i \in 1..Len(c) - 1 : NamesOf(Tail(c))[i] = Name(c[i + 1])
  BY <1>1, NamesOfTyped
<1>4. /\ Tail(NamesOf(c)) \in Seq(NamedErrors) /\ Len(Tail(NamesOf(c))) = Len(c) - 1
      /\ \A i \in 1..Len(c) - 1 : Tail(NamesOf(c))[i] = NamesOf(c)[i + 1]
  BY <1>2, HeadTailProperties
<1>5. \A i \in 1..Len(c) - 1 : NamesOf(Tail(c))[i] = Tail(NamesOf(c))[i]
  BY <1>1, <1>2, <1>3, <1>4
<1>6. QED
  BY <1>3, <1>4, <1>5, SeqEqual

(* Pushing an error pushes its name.                                       *)
LEMMA NamesOfPushed ==
  ASSUME NEW c \in Seq(Records), NEW e \in Records
  PROVE  NamesOf(<<e>> \o c) = <<Name(e)>> \o NamesOf(c)
<1>1. PICK d : d = <<e>> \o c
  OBVIOUS
<1>2. <<e>> \in Seq(Records) /\ Len(<<e>>) = 1 /\ Len(c) \in Nat
  BY LenProperties
<1>3. /\ d \in Seq(Records) /\ Len(d) = 1 + Len(c)
      /\ \A i \in 1..Len(d) : d[i] = IF i <= 1 THEN <<e>>[i] ELSE c[i - 1]
  BY <1>1, <1>2, ConcatProperties
<1>4. /\ NamesOf(c) \in Seq(NamedErrors) /\ Len(NamesOf(c)) = Len(c)
      /\ \A i \in 1..Len(c) : NamesOf(c)[i] = Name(c[i])
  BY NamesOfTyped
<1>5. /\ NamesOf(d) \in Seq(NamedErrors) /\ Len(NamesOf(d)) = 1 + Len(c)
      /\ \A i \in 1..Len(d) : NamesOf(d)[i] = Name(d[i])
  BY <1>3, NamesOfTyped
<1>6. <<Name(e)>> \in Seq(NamedErrors) /\ Len(<<Name(e)>>) = 1
  BY DEF Name, NamedErrors, Records
<1>7. PICK n : n = <<Name(e)>> \o NamesOf(c)
  OBVIOUS
<1>8. /\ n \in Seq(NamedErrors) /\ Len(n) = 1 + Len(c)
      /\ \A i \in 1..Len(n) : n[i] = IF i <= 1 THEN <<Name(e)>>[i] ELSE NamesOf(c)[i - 1]
  BY <1>2, <1>4, <1>6, <1>7, ConcatProperties
<1>9. ASSUME NEW i \in 1..Len(d) PROVE NamesOf(d)[i] = n[i]
  <2>1. CASE i = 1
    BY <1>2, <1>3, <1>5, <1>8, <2>1
  <2>2. CASE i # 1
    <3>1. ~(i <= 1) /\ i - 1 \in 1..Len(c) /\ i \in 1..Len(n)
      BY <1>2, <1>3, <1>8, <2>2
    <3>2. d[i] = c[i - 1] /\ n[i] = NamesOf(c)[i - 1]
      BY <1>3, <1>8, <3>1
    <3>3. QED
      BY <1>4, <1>5, <3>1, <3>2
  <2>3. QED
    BY <2>1, <2>2
<1>10. NamesOf(d) = n
  BY <1>3, <1>5, <1>8, <1>9, SeqEqual
<1>11. QED
  BY <1>1, <1>7, <1>10

(* What is still to come ends with the error that is pushed next.          *)
LEMMA ComingTyped ==
  ASSUME NEW p \in Nat, NEW levels \in Nat, NEW k \in Nat
  PROVE  /\ Coming(p, levels, k) \in Seq(NamedErrors) /\ Len(Coming(p, levels, k)) = p
         /\ p = 0 => Coming(p, levels, k) = <<>>
<1>1. \A i \in 1..p : [call |-> k, level |-> levels + 1 - i] \in NamedErrors
  BY DEF NamedErrors
<1>2. Coming(p, levels, k) \in [1..p -> NamedErrors]
  BY <1>1 DEF Coming
<1>3. Coming(p, levels, k) \in Seq(NamedErrors)
  BY <1>2 DEF Seq
<1>4. Len(Coming(p, levels, k)) = p
  BY <1>2, <1>3, LenProperties
<1>5. QED
  BY <1>3, <1>4, EmptySeq

(* The last of what is to come is the error that is pushed next.           *)
LEMMA ComingEnds ==
  ASSUME NEW p \in Nat \ {0}, NEW levels \in Nat, NEW k \in Nat
  PROVE  Coming(p, levels, k)
           = Coming(p - 1, levels, k) \o <<[call |-> k, level |-> levels + 1 - p]>>
<1>1. PICK a : a = [call |-> k, level |-> levels + 1 - p]
  OBVIOUS
<1>2. <<a>> \in Seq(NamedErrors) /\ Len(<<a>>) = 1
  BY <1>1 DEF NamedErrors
<1>3. PICK b : b = Coming(p - 1, levels, k)
  OBVIOUS
<1>4. /\ p - 1 \in Nat /\ b \in Seq(NamedErrors) /\ Len(b) = p - 1
      /\ \A i \in 1..p - 1 : b[i] = [call |-> k, level |-> levels + 1 - i]
  <2>1. p - 1 \in Nat
    OBVIOUS
  <2>2. b \in Seq(NamedErrors) /\ Len(b) = p - 1
    BY <1>3, <2>1, ComingTyped
  <2>3. \A i \in 1..p - 1 : b[i] = [call |-> k, level |-> levels + 1 - i]
    BY <1>3 DEF Coming
  <2>4. QED
    BY <2>1, <2>2, <2>3
<1>5. PICK n : n = b \o <<a>>
  OBVIOUS
<1>6. /\ n \in Seq(NamedErrors) /\ Len(n) = p
      /\ \A i \in 1..Len(n) : n[i] = IF i <= p - 1 THEN b[i] ELSE <<a>>[i - (p - 1)]
  BY <1>2, <1>4, <1>5, ConcatProperties
<1>7. /\ Coming(p, levels, k) \in Seq(NamedErrors) /\ Len(Coming(p, levels, k)) = p
      /\ \A i \in 1..p : Coming(p, levels, k)[i] = [call |-> k, level |-> levels + 1 - i]
  BY ComingTyped DEF Coming
<1>8. ASSUME NEW i \in 1..p PROVE Coming(p, levels, k)[i] = n[i]
  <2>1. CASE i = p
    <3>1. ~(i <= p - 1) /\ i - (p - 1) = 1
      BY <2>1
    <3>2. n[i] = <<a>>[1]
      BY <1>6, <3>1
    <3>3. QED
      BY <1>1, <1>7, <2>1, <3>2
  <2>2. CASE i # p
    <3>1. i <= p - 1 /\ i \in 1..p - 1
      BY <2>2
    <3>2. QED
      BY <1>4, <1>6, <1>7, <3>1
  <2>3. QED
    BY <2>1, <2>2
<1>9. Coming(p, levels, k) = n
  BY <1>6, <1>7, <1>8, SeqEqual
<1>10. QED
  BY <1>1, <1>3, <1>5, <1>9

(* A push turns the error that was to come into one of the list.           *)
LEMMA Pushing ==
  ASSUME NEW p \in Nat \ {0}, NEW levels \in Nat, NEW k \in Nat,
         NEW c \in Seq(Records), NEW e \in Records,
         e.call = k, e.level = levels + 1 - p
  PROVE  Coming(p - 1, levels, k) \o NamesOf(<<e>> \o c)
           = Coming(p, levels, k) \o NamesOf(c)
<1>1. PICK a \in NamedErrors : a = Name(e)
  <2>1. Name(e) \in NamedErrors
    BY DEF Name, NamedErrors, Records
  <2>2. QED
    BY <2>1
<1>2. PICK b \in Seq(NamedErrors) : b = Coming(p - 1, levels, k)
  <2>1. p - 1 \in Nat
    OBVIOUS
  <2>2. QED
    BY <2>1, ComingTyped
<1>3. PICK n \in Seq(NamedErrors) : n = NamesOf(c)
  BY NamesOfTyped
<1>4. NamesOf(<<e>> \o c) = <<a>> \o n
  BY <1>1, <1>3, NamesOfPushed
<1>5. Coming(p, levels, k) = b \o <<a>>
  BY <1>1, <1>2, ComingEnds DEF Name
<1>6. (b \o <<a>>) \o n = b \o (<<a>> \o n)
  <2>1. <<a>> \in Seq(NamedErrors)
    OBVIOUS
  <2>2. QED
    BY <2>1, ConcatAssociative
<1>7. QED
  BY <1>2, <1>3, <1>4, <1>5, <1>6
-----------------------------------------------------------------------------
(* What the calls are about.                                               *)

CallsKnown ==
  /\ asked \in ReapSteps
  /\ it \in Pointers
  /\ code \in {"None", "Termination", "Malformed"}
  /\ returned \in BOOLEAN
  /\ function \in {"none", "from_json", "from_json_file", "from_document"}
  /\ call \in 0..MaxCalls
  /\ parse \in 0..call
  /\ pc \in {"from_json", "from_document"} => call < MaxCalls
  /\ pc = "clearing" => function = "from_json"
  /\ Levels \in 0..3

(* Steps that leave what the chain is still to push as it was.             *)
LEMMA PendingKept ==
  ASSUME \/ asked' = asked /\ UNCHANGED handlerVars
            /\ (pc' = pc \/ {pc, pc'} \subseteq {"clearing", "reaping"})
         \/ pc \notin {"clearing", "reaping"} /\ pc' \notin {"clearing", "reaping"}
         \/ asked = "nobody" /\ pc' = "idle",
         asked \in ReapSteps
  PROVE  Pending' = Pending
<1>1. CASE /\ asked' = asked /\ UNCHANGED handlerVars
           /\ pc' = pc \/ {pc, pc'} \subseteq {"clearing", "reaping"}
  <2>1. UNCHANGED <<the_error, state, opt_handler, opt_noted, inner, vec_noted,
                     vec_error>>
    BY <1>1 DEF handlerVars, classVars, optVars, vecVars
  <2>2. ElementErrors' = ElementErrors
    BY <2>1 DEF ElementErrors, ElementHasError, Opt!HasError, Vec!HasError
  <2>3. MemberErrors' = MemberErrors
    BY <2>1, <2>2 DEF MemberErrors, Vec!NoError
  <2>4. pc \in {"clearing", "reaping"} <=> pc' \in {"clearing", "reaping"}
    BY <1>1
  <2>5. QED
    BY <1>1, <2>1, <2>2, <2>3, <2>4, PendingIs, NextPendingIs DEF ReapSteps
<1>2. CASE pc \notin {"clearing", "reaping"} /\ pc' \notin {"clearing", "reaping"}
  BY <1>2, PendingIs, NextPendingIs
<1>3. CASE asked = "nobody" /\ pc' = "idle"
  BY <1>3, PendingIs, NextPendingIs
<1>4. QED
  BY <1>1, <1>2, <1>3

(* Nothing pushed yet adds nothing.                                        *)
LEMMA NoneBefore == \A n \in Int : 0 + n = n
  OBVIOUS

(* The end of a parse, and a file that cannot be opened, set the number of *)
(* errors of the call; no other step changes it.                           *)
LEMMA LevelsStep ==
  ASSUME HandlersSound, ErrorsTyped, asked \in ReapSteps, [Next]_vars
  PROVE  \/ Levels' = Levels
         \/ (set_result \/ Accepted \/ from_json_file_unopened)
            /\ reaped' = 0 /\ Levels' = Pending'
<1>1. call \in Nat /\ reaped \in Nat /\ Pending \in 0..3
  BY PendingBounds DEF ErrorsTyped
<1>2. ASSUME Pending' = Pending, reaped' = reaped
      PROVE  Levels' = Levels
  BY <1>2 DEF Levels
<1>3. CASE set_result \/ Accepted \/ from_json_file_unopened
  <2>1. reaped' = 0
    BY <1>3 DEF set_result, Accepted, Ended, from_json_file_unopened
  <2>2. Pending' \in Int
    <3>1. CASE from_json_file_unopened
      <4>1. pc' = "idle"
        BY <3>1 DEF from_json_file_unopened
      <4>2. QED
        BY <4>1, NextPendingIs
    <3>2. CASE set_result \/ Accepted
      <4>1. asked' = asked /\ UNCHANGED handlerVars /\ asked = "class"
            /\ pc' \in {"clearing", "reaping"}
        BY <3>2 DEF set_result, Accepted, Ended, HandlersSound
      <4>2. UNCHANGED <<the_error, state, opt_handler, opt_noted, inner, vec_noted,
                     vec_error>>
        BY <4>1 DEF handlerVars, classVars, optVars, vecVars
      <4>3. ElementErrors' = ElementErrors
        BY <4>2 DEF ElementErrors, ElementHasError, Opt!HasError, Vec!HasError
      <4>4. MemberErrors' = MemberErrors
        BY <4>2, <4>3 DEF MemberErrors, Vec!NoError
      <4>5. MemberErrors \in 0..2
        BY MemberErrorsAre, ElementErrorsAre DEF ErrorsTyped
      <4>6. QED
        BY <4>1, <4>4, <4>5, NextPendingIs
    <3>3. QED
      BY <1>3, <3>1, <3>2
  <2>3. Levels' = reaped' + Pending'
    BY DEF Levels
  <2>4. Levels' = Pending'
    BY <2>1, <2>2, <2>3, NoneBefore, Zenon
  <2>5. QED
    BY <1>3, <2>1, <2>4
<1>4. CASE Reap
  <2>1. CASE PushesNothing /\ Pending' = Pending
    BY <1>2, <2>1 DEF PushesNothing
  <2>2. CASE reaped' = reaped + 1 /\ Pending' = Pending - 1
    BY <1>1, <2>2 DEF Levels
  <2>3. QED
    BY <1>4, <2>1, <2>2, ReapTakesPending
<1>5. CASE \/ from_json \/ from_document \/ Event \/ PrintTrace \/ PrintNext
           \/ Pop \/ Delete
  <2>1. pc \notin {"clearing", "reaping"} /\ pc' \notin {"clearing", "reaping"}
        /\ reaped' = reaped
    BY <1>5 DEF from_json, from_document, Begin, Event, PrintTrace, PrintNext,
                Pop, Delete, callVars
  <2>2. QED
    BY <1>2, <2>1, PendingKept
<1>6. CASE ClearTemporary \/ UNCHANGED vars
  <2>1. asked' = asked /\ UNCHANGED handlerVars /\ reaped' = reaped
        /\ (pc' = pc \/ {pc, pc'} \subseteq {"clearing", "reaping"})
    BY <1>6 DEF ClearTemporary, callVars, vars
  <2>2. QED
    BY <1>2, <2>1, PendingKept
<1>7. CASE Return
  <2>1. asked = "nobody" /\ pc' = "idle" /\ reaped' = reaped
    BY <1>7 DEF Return
  <2>2. QED
    BY <1>2, <2>1, PendingKept
<1>8. QED
  BY <1>3, <1>4, <1>5, <1>6, <1>7 DEF Next

(* The code of each way a parse ends.                                      *)
LEMMA OutcomeIs ==
  /\ phase = "done" => Outcome = "None"
  /\ phase = "terminated" => Outcome = "Termination"
  /\ phase = "malformed" => Outcome = "Malformed"
<1>1. ASSUME phase = "done" PROVE Outcome = "None"
  BY <1>1 DEF Outcome
<1>2. ASSUME phase = "terminated" PROVE Outcome = "Termination"
  BY <1>2 DEF Outcome
<1>3. ASSUME phase = "malformed" PROVE Outcome = "Malformed"
  BY <1>3 DEF Outcome
<1>4. QED
  BY <1>1, <1>2, <1>3

(* The answer is one.                                                      *)
LEMMA AnswerIsBoolean == Answer \in BOOLEAN
<1>1. has_error \in BOOLEAN /\ empty("errs") \in BOOLEAN
  BY DEF has_error, empty
<1>2. QED
  BY <1>1 DEF Answer

(* What is known of the calls holds at the start.                          *)
LEMMA CallsInit == Init => CallsKnown
<1>. SUFFICES ASSUME Init PROVE CallsKnown
  OBVIOUS
<1>1. Pending = 0
  BY PendingIs DEF Init
<1>2. Levels = 0
  BY <1>1 DEF Init, Levels
<1>3. MaxCalls \in Nat /\ 0 \in 0..MaxCalls
  BY ProgramAssumption
<1>4. QED
  BY <1>2, <1>3 DEF Init, CallsKnown, ReapSteps, Pointers

(* And after every step; it is LevelsStep that bounds the errors of a      *)
(* call.                                                                   *)
LEMMA CallsStep ==
  ASSUME HandlersSound, ErrorsTyped, ListsKnown, CallsKnown, ErrorsTyped',
         [Next]_vars
  PROVE  CallsKnown'
<1>1. MaxCalls \in Nat
  BY ProgramAssumption
<1>2. asked' \in ReapSteps
  BY DEF CallsKnown, ReapSteps, Next, vars, from_json, from_document, Begin,
         from_json_file_unopened, Event, set_result, Accepted, Ended,
         ClearTemporary, Reap, ReapClass, ReapMember, ReapElement, Asks, Return,
         PrintTrace, PrintNext, Pop, Delete
<1>3. it' \in Pointers
  <2>1. next \in [Addresses -> Pointers] /\ head \in [Stacks -> Pointers]
    BY DEF ListsKnown, ListsLinked, ErrorStackTypeOK
  <2>2. CASE PrintTrace
    BY <2>1, <2>2, ProgramAssumption DEF PrintTrace
  <2>3. CASE PrintNext
    BY <2>1, <2>3 DEF PrintNext, Pointers, CallsKnown
  <2>4. CASE ~PrintTrace /\ ~PrintNext
    <3>1. it' = it
      BY <2>4 DEF Next, vars, from_json, from_document, Begin,
         from_json_file_unopened, Event, set_result, Accepted, Ended,
         ClearTemporary, Reap, ReapClass, ReapMember, ReapElement, Asks, Return,
         Pop, Delete
    <3>2. QED
      BY <3>1 DEF CallsKnown
  <2>5. QED
    BY <2>2, <2>3, <2>4
<1>4. Levels' \in 0..3
  <2>1. CASE Levels' = Levels
    BY <2>1 DEF CallsKnown
  <2>2. CASE Levels' = Pending'
    <3>1. (ErrorsTyped /\ asked \in ReapSteps => Pending \in 0..3)'
      BY PendingBounds, PTL
    <3>2. ReapSteps' = ReapSteps
      BY DEF ReapSteps
    <3>3. QED
      BY <1>2, <2>2, <3>1, <3>2
  <2>3. QED
    BY <2>1, <2>2, LevelsStep DEF CallsKnown
<1>5. CASE set_result
  <2>1. /\ pc = "from_json" /\ phase \in {"done", "terminated", "malformed"}
        /\ function' = "from_json" /\ call' = call + 1 /\ pc' = "clearing"
        /\ code' = Outcome /\ parse' = call' /\ returned' = returned
    BY <1>5 DEF set_result, Ended
  <2>2. call' \in 0..MaxCalls /\ parse' \in 0..call'
    BY <1>1, <2>1 DEF CallsKnown
  <2>3. QED
    BY <1>2, <1>3, <1>4, <2>1, <2>2, OutcomeIs DEF CallsKnown
<1>6. CASE Accepted
  <2>1. /\ pc = "from_document" /\ pc' = "reaping"
        /\ function' = "from_document" /\ call' = call + 1
        /\ code' = code /\ parse' = parse /\ returned' = returned
    BY <1>6 DEF Accepted, Ended
  <2>2. call' \in 0..MaxCalls /\ parse' \in 0..call'
    BY <1>1, <2>1 DEF CallsKnown
  <2>3. QED
    BY <1>2, <1>3, <1>4, <2>1, <2>2 DEF CallsKnown
<1>7. CASE from_json_file_unopened
  <2>1. /\ pc = "idle" /\ pc' = "idle" /\ call < MaxCalls /\ returned' = FALSE
        /\ function' = "from_json_file" /\ call' = call + 1
        /\ code' = code /\ parse' = parse
    BY <1>7 DEF from_json_file_unopened
  <2>2. call' \in 0..MaxCalls /\ parse' \in 0..call'
    BY <1>1, <2>1 DEF CallsKnown
  <2>3. QED
    BY <1>2, <1>3, <1>4, <2>1, <2>2 DEF CallsKnown
<1>8. CASE Return
  <2>1. /\ pc' = "idle" /\ returned' \in BOOLEAN
        /\ UNCHANGED <<function, code, call, parse>>
    BY <1>8, AnswerIsBoolean DEF Return
  <2>2. QED
    BY <1>2, <1>3, <1>4, <2>1 DEF CallsKnown
<1>9. CASE from_json \/ from_document \/ Event \/ ClearTemporary \/ Reap
           \/ PrintTrace \/ PrintNext \/ Pop \/ Delete \/ UNCHANGED vars
  <2>1. UNCHANGED <<function, code, call, parse, returned>>
    BY <1>9 DEF from_json, from_document, Begin, Event, ClearTemporary, callVars,
         Reap, ReapClass, ReapMember, ReapElement, Asks, PrintTrace, PrintNext,
         Pop, Delete, vars
  <2>2. /\ pc' \in {"from_json", "from_document"} => pc' = pc \/ call < MaxCalls
        /\ pc' = "clearing" => pc = "clearing"
    BY <1>9 DEF from_json, from_document, Begin, Event, ClearTemporary,
         Reap, ReapClass, ReapMember, ReapElement, Asks, PrintTrace, PrintNext,
         Pop, Delete, vars
  <2>3. QED
    BY <1>2, <1>3, <1>4, <2>1, <2>2 DEF CallsKnown
<1>10. QED
  BY <1>5, <1>6, <1>7, <1>8, <1>9 DEF Next

(* What is known of a program in all its states.                           *)
ProgramKnown == HandlersSound /\ ErrorsTyped /\ ListsKnown /\ CallsKnown

(* It holds in every state.                                                *)
LEMMA AlwaysKnown == Spec => []ProgramKnown
<1>1. Init => ProgramKnown
  BY HandlersInit, ListsInit, CallsInit DEF ProgramKnown
<1>2. ProgramKnown /\ [Next]_vars => ProgramKnown'
  BY HandlersStep, TypesStep, ListsStep, CallsStep DEF ProgramKnown
<1>3. QED
  BY <1>1, <1>2, PTL DEF Spec

(* The variables have their types; in particular a call reaps at most the  *)
(* three errors of the class, its member and the element.                  *)
THEOREM ProgramTypeCorrect == Spec => []TypeOK
<1>1. ProgramKnown => TypeOK
  <2>. SUFFICES ASSUME ProgramKnown PROVE TypeOK
    OBVIOUS
  <2>1. Pending \in 0..3 /\ reaped \in Nat /\ Levels \in 0..3
    BY PendingBounds DEF ProgramKnown, ErrorsTyped, CallsKnown
  <2>2. reaped \in 0..3
    BY <2>1 DEF Levels
  <2>3. ErrorStackTypeOK /\ pc \in Activities
    BY DEF ProgramKnown, ListsKnown, ListsLinked, HandlersSound
  <2>4. QED
    BY <2>2, <2>3 DEF TypeOK, ProgramKnown, CallsKnown
<1>2. QED
  BY <1>1, AlwaysKnown, PTL
-----------------------------------------------------------------------------
(* Each step of the program is one of Session, or a stutter.               *)

AnswerSeen == IF pc \in {"clearing", "reaping"} THEN AnswerToCome ELSE returned
FailedSeen == [n \in 1..Levels |-> [call |-> call, level |-> n]]

(* Session does not see a step that leaves its variables alone.            *)
LEMMA SeenUnchanged ==
  ASSUME UNCHANGED <<code, call, parse, function>>,
         Names("result")' = Names("result"), Names("errs")' = Names("errs"),
         AnswerSeen' = AnswerSeen, Levels' = Levels
  PROVE  UNCHANGED Promised!vars
<1>1. FailedSeen' = FailedSeen
  BY DEF FailedSeen
<1>2. QED
  BY <1>1 DEF Promised!vars, FailedSeen, AnswerSeen

(* While no error is to come, the lists are seen as they are.              *)
LEMMA NamesWhenIdle ==
  ASSUME ListsKnown, Pending = 0, ErrorsTyped, Levels \in Nat,
         NEW s \in {"result", "errs"}
  PROVE  Names(s) = NamesOf(Contents(s))
<1>1. Contents(s) \in Seq(Records)
  BY ContentsAreRecords, ProgramAssumption DEF ListsKnown
<1>2. NamesOf(Contents(s)) \in Seq(NamedErrors)
  BY <1>1, NamesOfTyped
<1>3. Coming(0, Levels, call) = <<>>
  BY ComingTyped DEF ErrorsTyped
<1>4. <<>> \o NamesOf(Contents(s)) = NamesOf(Contents(s))
  BY <1>2, ConcatEmptySeq
<1>5. QED
  BY <1>3, <1>4, NamesAre

(* The same in the next state.                                             *)
LEMMA NextNamesWhenIdle ==
  ListsKnown' /\ Pending' = 0 /\ ErrorsTyped' /\ Levels' \in Nat
  => \A s \in {"result", "errs"} : Names(s)' = NamesOf(Contents(s)')
<1>1. ListsKnown /\ Pending = 0 /\ ErrorsTyped /\ Levels \in Nat
      => \A s \in {"result", "errs"} : Names(s) = NamesOf(Contents(s))
  BY NamesWhenIdle
<1>2. (ListsKnown /\ Pending = 0 /\ ErrorsTyped /\ Levels \in Nat
       => \A s \in {"result", "errs"} : Names(s) = NamesOf(Contents(s)))'
  BY <1>1, PTL
<1>3. QED
  BY <1>2

(* A list that holds the same, with the same to come, is seen the same.    *)
LEMMA NamesKept ==
  ASSUME UNCHANGED <<function, call, Pending, Levels>>,
         NEW s \in {"result", "errs"}, Contents(s)' = Contents(s)
  PROVE  Names(s)' = Names(s)
<1>1. Target' = Target
  BY DEF Target
<1>2. QED
  BY <1>1, NamesAre, NextNamesAre

(* A stack is empty when its list is.                                      *)
LEMMA EmptyIs ==
  ASSUME ListsKnown, NEW s \in Stacks
  PROVE  empty(s) <=> Contents(s) = <<>>
<1>1. PICK L \in Chains : Linked(L)
  BY DEF ListsKnown, ListsLinked
<1>2. /\ Contents(s) \in Seq(Records) /\ Len(Contents(s)) = Len(L[s])
      /\ L[s] \in Seq(Addresses)
  BY <1>1, ContentsOfChain DEF ListsKnown, ListsLinked, Chains
<1>3. Contents(s) = <<>> <=> L[s] = <<>>
  BY <1>2, EmptySeq
<1>4. head[s] = IF L[s] = <<>> THEN Null ELSE L[s][1]
  BY <1>1 DEF Linked, Chained
<1>5. L[s] # <<>> => L[s][1] # Null
  <2>1. SUFFICES ASSUME L[s] # <<>> PROVE L[s][1] # Null
    OBVIOUS
  <2>2. 1 \in 1..Len(L[s])
    BY <1>2, <2>1, EmptySeq, LenProperties
  <2>3. L[s][1] \in Addresses
    BY <1>2, <2>2, ElementOfSeq
  <2>4. QED
    BY <2>3, ErrorStackAssumption DEF Addresses, Null
<1>6. QED
  BY <1>3, <1>4, <1>5 DEF empty

(* The program begins as Session does.                                     *)
LEMMA SessionInit == Init /\ ProgramKnown => Promised!Init
<1>. SUFFICES ASSUME Init, ProgramKnown PROVE Promised!Init
  OBVIOUS
<1>1. Pending = 0
  BY PendingIs DEF Init
<1>2. Levels = 0
  BY <1>1 DEF Init, Levels
<1>3. \A s \in {"result", "errs"} : Contents(s) = <<>>
  <2>1. \A s \in Stacks : empty(s)
    BY DEF Init, ErrorStackInit, empty
  <2>2. QED
    BY <2>1, EmptyIs, ProgramAssumption DEF ProgramKnown
<1>4. \A s \in {"result", "errs"} : Names(s) = <<>>
  <2>1. <<>> \in Seq(Records)
    OBVIOUS
  <2>2. NamesOf(<<>>) = <<>>
    BY <2>1, NamesOfTyped
  <2>3. QED
    BY <1>1, <1>2, <1>3, <2>2, NamesWhenIdle DEF ProgramKnown
<1>5. [n \in 1..Levels |-> [call |-> call, level |-> n]] = <<>>
  BY <1>2
<1>6. QED
  BY <1>4, <1>5 DEF Init, Promised!Init

(* The errors a complete call of Session leaves.                           *)
LEMMA ReapedIsComing ==
  ASSUME NEW p \in Nat, call \in Nat
  PROVE  /\ Promised!Reverse(Promised!Reaped(p)) = Coming(p, p, call + 1)
         /\ Promised!Reaped(p) = [n \in 1..p |-> [call |-> call + 1, level |-> n]]
<1>1. Promised!Reaped(p) = [n \in 1..p |-> [call |-> call + 1, level |-> n]]
  BY DEF Promised!Reaped
<1>2. Len(Promised!Reaped(p)) = p
  BY <1>1
<1>3. Promised!Reverse(Promised!Reaped(p))
        = [j \in 1..p |-> Promised!Reaped(p)[p - j + 1]]
  BY <1>2 DEF Promised!Reverse
<1>4. \A j \in 1..p : Promised!Reaped(p)[p - j + 1]
                        = [call |-> call + 1, level |-> p + 1 - j]
  <2>1. TAKE j \in 1..p
  <2>2. p - j + 1 \in 1..p /\ p - j + 1 = p + 1 - j
    OBVIOUS
  <2>3. QED
    BY <1>1, <2>2
<1>5. QED
  BY <1>1, <1>3, <1>4 DEF Coming

(* A member and its element push at most one error each.                   *)
LEMMA MemberErrorsBounds == ErrorsTyped => MemberErrors \in 0..2
  BY MemberErrorsAre, ElementErrorsAre DEF ErrorsTyped

(* A handler that has a link has something to push.                        *)
LEMMA LinkCounts == \A n \in 0..2 : 1 + n # 0
  OBVIOUS

(* The same in the next state.                                             *)
LEMMA NextMemberErrorsBounds == ErrorsTyped' => MemberErrors' \in 0..2
<1>1. (ErrorsTyped => MemberErrors \in 0..2)'
  BY MemberErrorsBounds, PTL
<1>2. QED
  BY <1>1

(* A call that has pushed nothing yet has only the errors to come.         *)
LEMMA LevelsOfCall ==
  ASSUME reaped' = 0, Pending' \in 0..3
  PROVE  Levels' = Pending'
<1>1. Levels' = reaped' + Pending'
  BY DEF Levels
<1>2. \A n \in 0..3 : n \in Int
  OBVIOUS
<1>3. QED
  BY <1>1, <1>2, NoneBefore, Zenon

(* set_result(): the result's list is the temporary's, which was empty.    *)
LEMMA SetResultIsFromJson ==
  ASSUME ProgramKnown, ProgramKnown', set_result
  PROVE  Promised!from_json
<1>1. /\ pc = "from_json" /\ pc' = "clearing" /\ asked = "class" /\ asked' = "class"
      /\ phase \in {"done", "terminated", "malformed"}
      /\ call' = call + 1 /\ call < MaxCalls /\ function' = "from_json"
      /\ parse' = call' /\ code' = Outcome /\ the_error' = the_error
      /\ reaped' = 0 /\ swap("temporary", "result")
      /\ call \in Nat
  BY DEF set_result, Ended, ProgramKnown, HandlersSound, CallsKnown, handlerVars,
         classVars, ErrorsTyped
<1>2. ListsKnown /\ ListsKnown' /\ ErrorsTyped /\ ErrorsTyped' /\ CallsKnown /\ CallsKnown'
      /\ HandlersSound /\ HandlersKnown
  BY <1>1 DEF ProgramKnown, HandlersSound
<1>3. Pending = 0 /\ Levels \in Nat
  BY <1>1, <1>2, PendingIs DEF CallsKnown
<1>4. PICK p \in 0..3 : /\ p = Pending' /\ p = Levels'
                        /\ p = 0 <=> the_error = Class!NoError
  <2>1. (ErrorsTyped /\ asked \in ReapSteps => Pending \in 0..3)'
    BY PendingBounds, PTL
  <2>2. Pending' \in 0..3
    BY <1>1, <1>2, <2>1 DEF ReapSteps
  <2>3. MemberErrors' \in 0..2
    BY <1>2, NextMemberErrorsBounds
  <2>4. Pending' = IF the_error = Class!NoError THEN 0 ELSE 1 + MemberErrors'
    BY <1>1, NextPendingIs DEF Class!NoError
  <2>5. Levels' = Pending'
    BY <1>1, <2>2, LevelsOfCall
  <2>6. Pending' = 0 <=> the_error = Class!NoError
    BY <2>3, <2>4, LinkCounts, Zenon
  <2>7. QED
    BY <2>2, <2>5, <2>6
<1>5. /\ Contents("result")' = <<>> /\ Contents("errs")' = Contents("errs")
  BY <1>1, <1>2, SwapLinks, ProgramAssumption DEF ListsKnown, SizesKnown
<1>6. Names("result")' = Coming(p, p, call + 1)
  <2>1. <<>> \in Seq(Records) /\ Coming(p, p, call + 1) \in Seq(NamedErrors)
    BY <1>1, ComingTyped
  <2>2. NamesOf(<<>>) = <<>>
    BY <2>1, NamesOfTyped
  <2>3. Names("result")' = Coming(p, p, call + 1) \o NamesOf(<<>>)
    BY <1>1, <1>4, <1>5, NextNamesAre DEF Target
  <2>4. QED
    BY <2>1, <2>2, <2>3, ConcatEmptySeq
<1>7. Names("errs")' = Names("errs")
  <2>1. Names("errs") = NamesOf(Contents("errs"))
    BY <1>2, <1>3, NamesWhenIdle
  <2>2. Names("errs")' = NamesOf(Contents("errs")')
    BY <1>1, NextNamesAre DEF Target
  <2>3. QED
    BY <1>5, <2>1, <2>2
<1>8. PICK o : o = <<Outcome, p>>
  OBVIOUS
<1>9. o \in Promised!Outcomes /\ o[1] = Outcome /\ o[2] = p
  <2>1. phase = "done" => p = 0
    BY <1>1, <1>2, <1>4, OutcomePossible
  <2>2. phase = "terminated" => p \in 1..3
    BY <1>1, <1>2, <1>4, OutcomePossible
  <2>3. CASE phase = "done"
    BY <1>8, <2>1, <2>3, OutcomeIs DEF Promised!Outcomes
  <2>4. CASE phase = "terminated"
    BY <1>8, <2>2, <2>4, OutcomeIs DEF Promised!Outcomes
  <2>5. CASE phase = "malformed"
    BY <1>8, <2>5, OutcomeIs DEF Promised!Outcomes
  <2>6. QED
    BY <1>1, <2>3, <2>4, <2>5
<1>10. Promised!Calls("from_json", Promised!Reaped(p))
  <2>1. Promised!Reaped(p) = [n \in 1..p |-> [call |-> call + 1, level |-> n]]
    BY <1>1, ReapedIsComing
  <2>2. QED
    BY <1>1, <1>4, <2>1 DEF Promised!Calls
<1>11. Promised!set_result(Outcome, Promised!Reaped(p))
  <2>1. Coming(p, p, call + 1) \in Seq(NamedErrors)
    BY <1>1, ComingTyped
  <2>2. Coming(p, p, call + 1) \o <<>> = Coming(p, p, call + 1)
    BY <2>1, ConcatEmptySeq
  <2>3. Promised!Reverse(Promised!Reaped(p)) = Coming(p, p, call + 1)
    BY <1>1, ReapedIsComing
  <2>4. QED
    BY <1>1, <1>6, <2>2, <2>3 DEF Promised!set_result, Promised!Pushed
<1>12. AnswerSeen' = ~Promised!has_error'
  BY <1>1 DEF AnswerSeen, AnswerToCome, Promised!has_error
<1>13. /\ Promised!Calls("from_json", Promised!Reaped(o[2]))
       /\ Promised!set_result(o[1], Promised!Reaped(o[2]))
  <2>1. Promised!Reaped(o[2]) = Promised!Reaped(p)
    BY <1>9 DEF Promised!Reaped
  <2>2. QED
    BY <1>9, <1>10, <1>11, <2>1 DEF Promised!Calls, Promised!set_result
<1>14. (IF pc' \in {"clearing", "reaping"} THEN AnswerToCome' ELSE returned')
         = ~Promised!has_error'
  BY <1>12 DEF AnswerSeen
<1>15. QED
  BY <1>1, <1>7, <1>9, <1>13, <1>14
     DEF Promised!from_json, Promised!Calls, Promised!set_result

(* The end of from_document(): what the caller had in its ErrorStack stays *)
(* below the errors that are to come.                                      *)
LEMMA AcceptedIsFromDocument ==
  ASSUME ProgramKnown, ProgramKnown', Accepted
  PROVE  Promised!from_document
<1>1. /\ pc = "from_document" /\ pc' = "reaping" /\ asked' = "class"
      /\ call' = call + 1 /\ call < MaxCalls /\ function' = "from_document"
      /\ reaped' = 0 /\ UNCHANGED <<code, parse, errorStackVars>>
      /\ call \in Nat
  BY DEF Accepted, Ended, ProgramKnown, HandlersSound, CallsKnown, ErrorsTyped
<1>2. ListsKnown /\ ListsKnown' /\ ErrorsTyped /\ ErrorsTyped' /\ CallsKnown /\ CallsKnown'
  BY DEF ProgramKnown
<1>3. Pending = 0 /\ Levels \in Nat
  BY <1>1, <1>2, PendingIs DEF CallsKnown
<1>4. PICK p \in 0..3 : p = Pending' /\ p = Levels'
  <2>1. (ErrorsTyped /\ asked \in ReapSteps => Pending \in 0..3)'
    BY PendingBounds, PTL
  <2>2. Pending' \in 0..3
    BY <1>1, <1>2, <2>1 DEF ReapSteps
  <2>3. Levels' = Pending'
    BY <1>1, <2>2, LevelsOfCall
  <2>4. QED
    BY <2>2, <2>3
<1>5. \A s \in {"result", "errs"} : /\ Contents(s)' = Contents(s)
                                    /\ Names(s) = NamesOf(Contents(s))
  BY <1>1, <1>2, <1>3, UnchangedLists, NamesWhenIdle, ProgramAssumption
     DEF ListsKnown
<1>6. Names("result")' = Names("result")
  BY <1>1, <1>5, NextNamesAre DEF Target
<1>7. Names("errs")' = Coming(p, p, call + 1) \o Names("errs")
  BY <1>1, <1>4, <1>5, NextNamesAre DEF Target
<1>8. Promised!Calls("from_document", Promised!Reaped(p))
  <2>1. Promised!Reaped(p) = [n \in 1..p |-> [call |-> call + 1, level |-> n]]
    BY <1>1, ReapedIsComing
  <2>2. QED
    BY <1>1, <1>4, <2>1 DEF Promised!Calls
<1>9. Names("errs")' = Promised!Pushed(Names("errs"), Promised!Reaped(p))
  <2>1. Promised!Reverse(Promised!Reaped(p)) = Coming(p, p, call + 1)
    BY <1>1, ReapedIsComing
  <2>2. QED
    BY <1>7, <2>1 DEF Promised!Pushed
<1>10. AnswerSeen' = (Names("errs")' = <<>>)
  BY <1>1 DEF AnswerSeen, AnswerToCome
<1>11. (IF pc' \in {"clearing", "reaping"} THEN AnswerToCome' ELSE returned')
         = (Names("errs")' = <<>>)
  BY <1>10 DEF AnswerSeen
<1>12. p \in 0..3 /\ UNCHANGED Promised!resultVars
  BY <1>1, <1>6 DEF Promised!resultVars
<1>13. QED
  BY <1>1, <1>8, <1>9, <1>11, <1>12 DEF Promised!from_document, Promised!Calls

(* A file that cannot be opened leaves the result and the lists as they    *)
(* are.                                                                    *)
LEMMA UnopenedIsUnopened ==
  ASSUME ProgramKnown, ProgramKnown', from_json_file_unopened
  PROVE  Promised!from_json_file_unopened
<1>1. /\ pc = "idle" /\ pc' = "idle" /\ call' = call + 1 /\ call < MaxCalls
      /\ function' = "from_json_file" /\ returned' = FALSE /\ reaped' = 0
      /\ UNCHANGED <<code, parse, errorStackVars>>
  BY DEF from_json_file_unopened
<1>2. ListsKnown /\ ListsKnown' /\ ErrorsTyped /\ ErrorsTyped' /\ CallsKnown /\ CallsKnown'
  BY DEF ProgramKnown
<1>3. Pending = 0 /\ Levels \in Nat /\ Pending' = 0 /\ Levels' \in Nat
  BY <1>1, <1>2, PendingIs, NextPendingIs DEF CallsKnown
<1>4. Levels' = 0
  BY <1>1, <1>3 DEF Levels
<1>5. \A s \in {"result", "errs"} : Names(s)' = Names(s)
  <2>1. \A s \in {"result", "errs"} : Contents(s)' = Contents(s)
    BY <1>1, <1>2, UnchangedLists, ProgramAssumption DEF ListsKnown
  <2>2. QED
    BY <1>2, <1>3, <2>1, NamesWhenIdle, NextNamesWhenIdle
<1>6. [n \in 1..Levels' |-> [call |-> call', level |-> n]] = <<>>
  BY <1>4
<1>7. QED
  BY <1>1, <1>5, <1>6 DEF Promised!from_json_file_unopened, Promised!Calls,
                          Promised!resultVars

(* The caller takes the innermost error.                                   *)
LEMMA PopIsPop ==
  ASSUME ProgramKnown, ProgramKnown', Pop
  PROVE  Promised!pop
<1>1. /\ pc = "idle" /\ pc' = "idle" /\ pop("errs")
      /\ UNCHANGED <<code, returned, function, call, parse, reaped>>
  BY DEF Pop, callVars
<1>2. ListsKnown /\ ListsKnown' /\ ErrorsTyped /\ ErrorsTyped' /\ CallsKnown /\ CallsKnown'
  BY DEF ProgramKnown
<1>3. Pending = 0 /\ Levels \in Nat /\ Pending' = 0 /\ Levels' \in Nat
  BY <1>1, <1>2, PendingIs, NextPendingIs DEF CallsKnown
<1>4. Levels' = Levels
  BY <1>1, <1>3 DEF Levels
<1>5. /\ Contents("errs") # <<>> /\ Contents("errs")' = Tail(Contents("errs"))
      /\ Contents("result")' = Contents("result")
      /\ Contents("errs") \in Seq(Records)
  BY <1>1, <1>2, HeadLeaves, ContentsAreRecords, ProgramAssumption
     DEF ListsKnown, SizesKnown
<1>6. \A s \in {"result", "errs"} : /\ Names(s) = NamesOf(Contents(s))
                                    /\ Names(s)' = NamesOf(Contents(s)')
  BY <1>2, <1>3, NamesWhenIdle, NextNamesWhenIdle
<1>7. /\ Names("errs") # <<>> /\ Names("errs")' = Tail(Names("errs"))
      /\ Names("result")' = Names("result")
  BY <1>5, <1>6, NamesOfTyped, NamesOfTail
<1>8. QED
  BY <1>1, <1>4, <1>7 DEF Promised!pop, Promised!resultVars

(* A step that only moves errors from what is to come into a list, or none *)
(* at all, is not seen.                                                    *)
LEMMA UnseenStep ==
  ASSUME UNCHANGED <<code, call, parse, function, returned>>,
         Names("result")' = Names("result"), Names("errs")' = Names("errs"),
         Levels' = Levels,
         pc \in {"clearing", "reaping"} <=> pc' \in {"clearing", "reaping"}
  PROVE  UNCHANGED Promised!vars
<1>1. AnswerToCome' = AnswerToCome
  BY DEF AnswerToCome
<1>2. AnswerSeen' = AnswerSeen
  BY <1>1 DEF AnswerSeen
<1>3. QED
  BY <1>2, SeenUnchanged

(* Pushing, for every list and every error.                                *)
LEMMA EveryPushing ==
  \A p \in Nat \ {0} : \A levels, k \in Nat : \A c \in Seq(Records) :
    \A e \in Records :
      e.call = k /\ e.level = levels + 1 - p
      => Coming(p - 1, levels, k) \o NamesOf(<<e>> \o c)
           = Coming(p, levels, k) \o NamesOf(c)
  BY Pushing

(* ReapError() moves errors from what is to come into the list.            *)
LEMMA ReapIsUnseen ==
  ASSUME ProgramKnown, Reap
  PROVE  UNCHANGED Promised!vars
<1>1. /\ ListsKnown /\ ErrorsTyped /\ CallsKnown /\ HandlersSound
      /\ Levels \in Nat /\ call \in Nat /\ reaped \in Nat
      /\ Pending \in 0..3
  BY PendingBounds DEF ProgramKnown, ErrorsTyped, CallsKnown
<1>2. /\ pc = "reaping" /\ pc' = "reaping"
      /\ UNCHANGED <<code, call, parse, function, returned>>
  BY DEF Reap, ReapClass, ReapMember, ReapElement, Asks
<1>3. Levels' = Levels
  <2>1. ~set_result /\ ~Accepted /\ ~from_json_file_unopened
    BY <1>2 DEF set_result, Accepted, Ended, from_json_file_unopened
  <2>2. QED
    BY <1>1, <2>1, LevelsStep DEF Next, CallsKnown
<1>4. \A s \in {"result", "errs"} : Names(s)' = Names(s)
  <2>1. CASE PushesNothing
    <3>1. \A s \in Stacks : Contents(s)' = Contents(s)
      BY <1>1, <2>1, UnchangedLists DEF ListsKnown, PushesNothing
    <3>2. Pending' = Pending
      <4>1. reaped' = reaped
        BY <2>1 DEF PushesNothing
      <4>2. reaped' # reaped + 1
        BY <1>1, <4>1
      <4>3. QED
        BY <1>1, <4>2, ReapTakesPending
    <3>3. QED
      BY <1>2, <1>3, <3>1, <3>2, NamesKept, ProgramAssumption
  <2>2. CASE \E e \in Records : /\ push(Target, e) /\ reaped' = reaped + 1
                                /\ e.call = call /\ e.level = reaped + 1
    <3>1. PICK e \in Records : /\ push(Target, e) /\ reaped' = reaped + 1
                               /\ e.call = call /\ e.level = reaped + 1
      BY <2>2
    <3>2. PICK s \in {"result", "errs"} : s = Target
      BY DEF Target
    <3>3. push(s, e) /\ s \in Stacks
      BY <3>1, <3>2, ProgramAssumption
    <3>4. /\ Contents(s)' = <<e>> \o Contents(s)
          /\ \A t \in Stacks : t # s => Contents(t)' = Contents(t)
      BY <1>1, <3>3, PushLinks DEF ListsKnown
    <3>5. Contents(s) \in Seq(Records)
      BY <1>1, <3>3, ContentsAreRecords DEF ListsKnown
    <3>6. Pending \in Nat \ {0} /\ Pending' = Pending - 1
      <4>1. reaped' # reaped
        BY <1>1, <3>1
      <4>2. ~PushesNothing
        BY <4>1 DEF PushesNothing
      <4>3. QED
        BY <1>1, <4>2, ReapTakesPending
    <3>7. e.level = Levels + 1 - Pending
      BY <1>1, <3>1 DEF Levels
    <3>8. Target' = s
      BY <1>2, <3>2 DEF Target
    <3>9. Names(s)' = Names(s)
      <4>1. PICK p \in Nat \ {0}, levels \in Nat, k \in Nat, c \in Seq(Records) :
              p = Pending /\ levels = Levels /\ k = call /\ c = Contents(s)
        BY <1>1, <3>5, <3>6
      <4>2. e.call = k /\ e.level = levels + 1 - p
        BY <3>1, <3>7, <4>1
      <4>3. Names(s)' = Coming(p - 1, levels, k) \o NamesOf(<<e>> \o c)
        BY <1>2, <1>3, <3>4, <3>6, <3>8, <4>1, NextNamesAre
      <4>4. Names(s) = Coming(p, levels, k) \o NamesOf(c)
        BY <3>2, <4>1, NamesAre
      <4>5. Coming(p - 1, levels, k) \o NamesOf(<<e>> \o c)
              = Coming(p, levels, k) \o NamesOf(c)
        <5>1. e \in Records
          BY <3>1
        <5>2. p \in Nat \ {0} /\ levels \in Nat /\ k \in Nat /\ c \in Seq(Records)
          BY <4>1
        <5>3. \A d \in Seq(Records) : \A f \in Records :
                f.call = k /\ f.level = levels + 1 - p
                => Coming(p - 1, levels, k) \o NamesOf(<<f>> \o d)
                     = Coming(p, levels, k) \o NamesOf(d)
          BY <5>2, EveryPushing, Zenon
        <5>4. QED
          BY <4>2, <5>1, <5>2, <5>3, Zenon
      <4>6. QED
        BY <4>3, <4>4, <4>5
    <3>10. ASSUME NEW t \in {"result", "errs"}, t # s PROVE Names(t)' = Names(t)
      <4>1. Contents(t)' = Contents(t)
        BY <3>4, <3>10, ProgramAssumption
      <4>2. QED
        BY <3>2, <3>8, <3>10, <4>1, NamesAre, NextNamesAre
    <3>11. QED
      BY <3>9, <3>10
  <2>3. QED
    BY <1>1, <2>1, <2>2, ReapPushes
<1>5. QED
  BY <1>2, <1>3, <1>4, UnseenStep

(* What is returned is what the complete call was to return.               *)
LEMMA ReturnIsUnseen ==
  ASSUME ProgramKnown, ProgramKnown', Return
  PROVE  UNCHANGED Promised!vars
<1>1. /\ pc = "reaping" /\ asked = "nobody" /\ pc' = "idle" /\ returned' = Answer
      /\ UNCHANGED <<code, function, call, parse, reaped, errorStackVars>>
  BY DEF Return
<1>2. ListsKnown /\ ListsKnown' /\ ErrorsTyped /\ ErrorsTyped' /\ CallsKnown /\ CallsKnown'
  BY DEF ProgramKnown
<1>3. Pending = 0 /\ Levels \in Nat /\ Pending' = 0 /\ Levels' \in Nat
  BY <1>1, <1>2, PendingIs, NextPendingIs DEF CallsKnown
<1>4. Levels' = Levels
  BY <1>1, <1>3 DEF Levels
<1>5. \A s \in {"result", "errs"} : Contents(s)' = Contents(s)
  BY <1>1, <1>2, UnchangedLists, ProgramAssumption DEF ListsKnown
<1>6. \A s \in {"result", "errs"} : /\ Names(s) = NamesOf(Contents(s))
                                    /\ Names(s)' = NamesOf(Contents(s)')
  BY <1>2, <1>3, NamesWhenIdle, NextNamesWhenIdle
<1>7. \A s \in {"result", "errs"} : empty(s) <=> Names(s) = <<>>
  <2>1. ASSUME NEW s \in {"result", "errs"} PROVE empty(s) <=> Names(s) = <<>>
    <3>1. s \in Stacks
      BY ProgramAssumption
    <3>2. Contents(s) \in Seq(Records)
      BY <1>2, <3>1, ContentsAreRecords DEF ListsKnown
    <3>3. QED
      BY <1>2, <1>6, <3>1, <3>2, EmptyIs, NamesOfTyped
  <2>2. QED
    BY <2>1
<1>8. AnswerSeen' = AnswerSeen
  <2>1. AnswerSeen = AnswerToCome /\ AnswerSeen' = Answer
    BY <1>1 DEF AnswerSeen
  <2>2. CASE function = "from_json"
    <3>1. Answer = ~has_error
      BY <2>2 DEF Answer
    <3>2. AnswerToCome = (code = "None" /\ Names("result") = <<>>)
      BY <2>2 DEF AnswerToCome
    <3>3. QED
      BY <1>7, <2>1, <3>1, <3>2 DEF has_error
  <2>3. CASE function # "from_json"
    <3>1. Answer = empty("errs")
      BY <2>3 DEF Answer
    <3>2. AnswerToCome = (Names("errs") = <<>>)
      BY <2>3 DEF AnswerToCome
    <3>3. empty("errs") \in BOOLEAN
      BY DEF empty
    <3>4. QED
      BY <1>7, <2>1, <3>1, <3>2, <3>3
  <2>4. QED
    BY <2>2, <2>3
<1>9. QED
  BY <1>1, <1>4, <1>5, <1>6, <1>8, SeenUnchanged

(* Reading, printing and deleting are not seen, nor is the destruction of  *)
(* the temporary.                                                          *)
LEMMA OthersAreUnseen ==
  ASSUME ProgramKnown, ProgramKnown',
         \/ from_json \/ from_document \/ Event \/ ClearTemporary
         \/ PrintTrace \/ PrintNext \/ Delete \/ UNCHANGED vars
  PROVE  UNCHANGED Promised!vars
<1>1. ListsKnown /\ ErrorsTyped /\ CallsKnown /\ HandlersSound
  BY DEF ProgramKnown
<1>2. /\ UNCHANGED <<code, call, parse, function, returned, reaped>>
      /\ pc \in {"clearing", "reaping"} <=> pc' \in {"clearing", "reaping"}
  BY DEF from_json, from_document, Begin, Event, ClearTemporary, PrintTrace,
         PrintNext, Delete, vars, callVars
<1>3. Pending' = Pending
  <2>1. CASE ClearTemporary \/ UNCHANGED vars
    <3>1. asked' = asked /\ UNCHANGED handlerVars
          /\ (pc' = pc \/ {pc, pc'} \subseteq {"clearing", "reaping"})
      BY <2>1 DEF ClearTemporary, vars
    <3>2. QED
      BY <1>1, <3>1, PendingKept DEF CallsKnown
  <2>2. CASE from_json \/ from_document \/ Event \/ PrintTrace \/ PrintNext \/ Delete
    <3>1. pc \notin {"clearing", "reaping"}
      BY <2>2 DEF from_json, from_document, Begin, Event, PrintTrace, PrintNext,
                  Delete
    <3>2. QED
      BY <1>1, <1>2, <3>1, PendingKept DEF CallsKnown
  <2>3. QED
    BY <2>1, <2>2
<1>4. Levels' = Levels
  BY <1>2, <1>3 DEF Levels
<1>5. \A s \in {"result", "errs"} : Contents(s)' = Contents(s)
  <2>1. CASE UNCHANGED errorStackVars
    BY <1>1, <2>1, UnchangedLists, ProgramAssumption DEF ListsKnown
  <2>2. CASE destroy_head("temporary")
    BY <1>1, <2>2, HeadLeaves, ProgramAssumption DEF ListsKnown
  <2>3. CASE empty("temporary") /\ construct("temporary")
    BY <1>1, <2>3, ConstructLinks, ProgramAssumption DEF ListsKnown
  <2>4. CASE \E a \in released : delete(a)
    BY <1>1, <2>4, DeleteLinks, ProgramAssumption DEF ListsKnown
  <2>5. QED
    BY <2>1, <2>2, <2>3, <2>4
       DEF from_json, from_document, Begin, Event, ClearTemporary, PrintTrace,
           PrintNext, Delete, vars
<1>6. \A s \in {"result", "errs"} : Names(s)' = Names(s)
  BY <1>2, <1>3, <1>4, <1>5, NamesKept
<1>7. QED
  BY <1>2, <1>4, <1>6, UnseenStep

(* Each step is one of Session, or is not seen.                            *)
LEMMA SessionStep ==
  ASSUME ProgramKnown, ProgramKnown', [Next]_vars
  PROVE  [Promised!Next]_(Promised!vars)
<1>1. CASE set_result
  BY <1>1, SetResultIsFromJson DEF Promised!Next
<1>2. CASE Accepted
  BY <1>2, AcceptedIsFromDocument DEF Promised!Next
<1>3. CASE from_json_file_unopened
  BY <1>3, UnopenedIsUnopened DEF Promised!Next
<1>4. CASE Pop
  BY <1>4, PopIsPop DEF Promised!Next
<1>5. CASE Reap
  BY <1>5, ReapIsUnseen
<1>6. CASE Return
  BY <1>6, ReturnIsUnseen
<1>7. CASE from_json \/ from_document \/ Event \/ ClearTemporary \/ PrintTrace
           \/ PrintNext \/ Delete \/ UNCHANGED vars
  BY <1>7, OthersAreUnseen
<1>8. QED
  BY <1>1, <1>2, <1>3, <1>4, <1>5, <1>6, <1>7 DEF Next

(* The calls of from_json(), from_document() and pop(), with their linked  *)
(* lists and their chain of ReapError(), are the complete calls of Session *)
(* with the only outcomes Session has.                                     *)
THEOREM SessionImplemented == Spec => ImplementsSession
<1>1. Init /\ ProgramKnown => Promised!Init
  BY SessionInit
<1>2. ProgramKnown /\ ProgramKnown' /\ [Next]_vars => [Promised!Next]_(Promised!vars)
  BY SessionStep
<1>3. QED
  BY <1>1, <1>2, AlwaysKnown, PTL DEF Spec, ImplementsSession, Promised!Spec
-----------------------------------------------------------------------------
(* What Session promises of its calls, of traces that are sequences of     *)
(* names.                                                                  *)
LEMMA NamesTyped ==
  ASSUME ProgramKnown, NEW s \in {"result", "errs"}
  PROVE  Names(s) \in Seq(NamedErrors)
<1>1. Contents(s) \in Seq(Records)
  BY ContentsAreRecords, ProgramAssumption DEF ProgramKnown, ListsKnown
<1>2. NamesOf(Contents(s)) \in Seq(NamedErrors)
  BY <1>1, NamesOfTyped
<1>3. Pending \in Nat /\ Levels \in Nat /\ call \in Nat
  BY PendingBounds DEF ProgramKnown, CallsKnown, ErrorsTyped
<1>4. Coming(Pending, Levels, call) \in Seq(NamedErrors)
  BY <1>3, ComingTyped
<1>5. Coming(Pending, Levels, call) \o NamesOf(Contents(s)) \in Seq(NamedErrors)
  BY <1>2, <1>4, ConcatProperties
<1>6. QED
  BY <1>2, <1>5, NamesAre

(* The errors a complete call leaves, and how many there are.              *)
LEMMA CallLeaves ==
  ASSUME ProgramKnown, NEW p \in 0..3
  PROVE  /\ Promised!Reverse(Promised!Reaped(p)) \o <<>> = Coming(p, p, call + 1)
         /\ Promised!Reverse(Promised!Reaped(p)) = Coming(p, p, call + 1)
         /\ Coming(p, p, call + 1) \in Seq(NamedErrors)
         /\ Len(Coming(p, p, call + 1)) = p
         /\ \A i \in 1..p : Coming(p, p, call + 1)[i]
                              = [call |-> call + 1, level |-> p + 1 - i]
         /\ Len(Promised!Reaped(p)) = p
         /\ Promised!Reaped(p) = <<>> <=> p = 0
         /\ Coming(p, p, call + 1) = <<>> <=> p = 0
<1>1. call \in Nat /\ call + 1 \in Nat /\ p \in Nat
  BY DEF ProgramKnown, ErrorsTyped
<1>2. /\ Coming(p, p, call + 1) \in Seq(NamedErrors)
      /\ Len(Coming(p, p, call + 1)) = p
  BY <1>1, ComingTyped
<1>3. Coming(p, p, call + 1) \o <<>> = Coming(p, p, call + 1)
  BY <1>2, ConcatEmptySeq
<1>4. Promised!Reaped(p) = [n \in 1..p |-> [call |-> call + 1, level |-> n]]
  BY <1>1, ReapedIsComing
<1>5. Promised!Reaped(p) \in Seq(NamedErrors) /\ Len(Promised!Reaped(p)) = p
  <2>1. \A n \in 1..p : [call |-> call + 1, level |-> n] \in NamedErrors
    BY <1>1 DEF NamedErrors
  <2>2. Promised!Reaped(p) \in [1..p -> NamedErrors]
    BY <1>4, <2>1
  <2>3. QED
    BY <1>1, <2>2, LenProperties DEF Seq
<1>6. \A i \in 1..p : Coming(p, p, call + 1)[i]
                        = [call |-> call + 1, level |-> p + 1 - i]
  BY DEF Coming
<1>7. Promised!Reaped(p) = <<>> <=> p = 0
  BY <1>5, EmptySeq
<1>8. Coming(p, p, call + 1) = <<>> <=> p = 0
  BY <1>2, EmptySeq
<1>9. QED
  BY <1>1, <1>2, <1>3, <1>5, <1>6, <1>7, <1>8, ReapedIsComing

(* A complete from_json(), by the number of errors it leaves.              *)
LEMMA FromJsonLeaves ==
  ASSUME ProgramKnown, Promised!from_json
  PROVE  \E p \in 0..3 :
           /\ code' \in {"None", "Termination", "Malformed"}
           /\ code' = "None" => p = 0
           /\ code' = "Termination" => p # 0
           /\ Names("result")' = Coming(p, p, call + 1)
           /\ parse' = call + 1 /\ function' = "from_json"
           /\ FailedSeen' = Promised!Reaped(p)
           /\ AnswerSeen' = ~(code' # "None" \/ Names("result")' # <<>>)
<1>1. PICK o \in Promised!Outcomes :
        /\ call' = call + 1 /\ function' = "from_json" /\ parse' = call'
        /\ FailedSeen' = Promised!Reaped(o[2])
        /\ code' = o[1]
        /\ Names("result")' = Promised!Reverse(Promised!Reaped(o[2])) \o <<>>
        /\ AnswerSeen' = ~(code' # "None" \/ Names("result")' # <<>>)
  BY DEF Promised!from_json, Promised!Calls, Promised!set_result, Promised!Pushed,
         Promised!has_error, FailedSeen, AnswerSeen
<1>2. /\ o[2] \in 0..3 /\ o[1] \in {"None", "Termination", "Malformed"}
      /\ o[1] = "None" => o[2] = 0
      /\ o[1] = "Termination" => o[2] # 0
  BY DEF Promised!Outcomes
<1>3. PICK p \in 0..3 : p = o[2]
  BY <1>2
<1>4. Promised!Reaped(o[2]) = Promised!Reaped(p)
  BY <1>3 DEF Promised!Reaped
<1>5. Names("result")' = Promised!Reverse(Promised!Reaped(p)) \o <<>>
  BY <1>1, <1>4 DEF Promised!Reverse
<1>6. Names("result")' = Coming(p, p, call + 1)
  BY <1>5, CallLeaves
<1>7. QED
  BY <1>1, <1>2, <1>3, <1>4, <1>6

(* Session's steps keep the result's trace that of the last parse.         *)
LEMMA TraceOfLastParseStep ==
  ASSUME ProgramKnown, Promised!TraceOfLastParse, [Promised!Next]_(Promised!vars)
  PROVE  Promised!TraceOfLastParse'
<1>1. CASE Promised!from_json
  <2>1. PICK p \in 0..3 :
          /\ code' \in {"None", "Termination", "Malformed"}
          /\ code' = "Termination" => p # 0
          /\ Names("result")' = Coming(p, p, call + 1)
          /\ parse' = call + 1 /\ function' = "from_json"
          /\ FailedSeen' = Promised!Reaped(p)
    BY <1>1, FromJsonLeaves
  <2>2. /\ Coming(p, p, call + 1) \in Seq(NamedErrors)
        /\ Len(Coming(p, p, call + 1)) = p
        /\ \A i \in 1..p : Coming(p, p, call + 1)[i]
                             = [call |-> call + 1, level |-> p + 1 - i]
        /\ Len(Promised!Reaped(p)) = p
        /\ Coming(p, p, call + 1) = <<>> <=> p = 0
    BY CallLeaves
  <2>3. /\ Names("result")' \in Seq(NamedErrors) /\ Len(Names("result")') = p
        /\ DOMAIN Names("result")' = 1..p
    BY <2>1, <2>2, LenProperties
  <2>4. \A i \in DOMAIN Names("result")' :
          Names("result")'[i] = [call |-> parse', level |-> Len(Names("result")') + 1 - i]
    BY <2>1, <2>2, <2>3
  <2>5. Len(FailedSeen') = p
    BY <2>1, <2>2
  <2>6. code' = "Termination" => Names("result")' # <<>>
    BY <2>1, <2>2
  <2>7. QED
    BY <2>3, <2>4, <2>5, <2>6 DEF Promised!TraceOfLastParse, FailedSeen
<1>2. CASE Promised!from_json_file_unopened \/ Promised!from_document
  <2>1. /\ UNCHANGED <<code, Names("result"), parse>>
        /\ function' # "from_json"
    BY <1>2 DEF Promised!from_json_file_unopened, Promised!from_document,
                Promised!Calls, Promised!resultVars
  <2>2. QED
    BY <2>1 DEF Promised!TraceOfLastParse
<1>3. CASE Promised!pop \/ UNCHANGED Promised!vars
  <2>1. UNCHANGED <<code, Names("result"), parse, function, FailedSeen>>
    BY <1>3 DEF Promised!pop, Promised!resultVars, Promised!vars, FailedSeen
  <2>2. QED
    BY <2>1 DEF Promised!TraceOfLastParse, FailedSeen
<1>4. QED
  BY <1>1, <1>2, <1>3 DEF Promised!Next

(* Session's steps answer what the last call's errors say.                 *)
LEMMA AnswerIsTrueStep ==
  ASSUME ProgramKnown, Promised!AnswerIsTrue, [Promised!Next]_(Promised!vars)
  PROVE  Promised!AnswerIsTrue'
<1>1. CASE Promised!from_json
  <2>1. PICK p \in 0..3 :
          /\ Names("result")' = Coming(p, p, call + 1)
          /\ function' = "from_json"
          /\ FailedSeen' = Promised!Reaped(p)
          /\ AnswerSeen' = ~(code' # "None" \/ Names("result")' # <<>>)
    BY <1>1, FromJsonLeaves
  <2>2. Names("result")' = <<>> <=> FailedSeen' = <<>>
    BY <2>1, CallLeaves
  <2>3. AnswerSeen' <=> code' = "None" /\ FailedSeen' = <<>>
    BY <2>1, <2>2
  <2>4. QED
    BY <2>1, <2>3 DEF Promised!AnswerIsTrue, AnswerSeen, FailedSeen
<1>2. CASE Promised!from_json_file_unopened
  <2>1. function' = "from_json_file"
    BY <1>2 DEF Promised!from_json_file_unopened, Promised!Calls
  <2>2. QED
    BY <2>1 DEF Promised!AnswerIsTrue
<1>3. CASE Promised!from_document
  <2>1. PICK p \in 0..3 :
          /\ function' = "from_document"
          /\ FailedSeen' = Promised!Reaped(p)
          /\ Names("errs")' = Promised!Reverse(Promised!Reaped(p)) \o Names("errs")
          /\ AnswerSeen' = (Names("errs")' = <<>>)
    BY <1>3 DEF Promised!from_document, Promised!Calls, Promised!Pushed, FailedSeen,
                AnswerSeen
  <2>2. /\ Names("errs")' = Coming(p, p, call + 1) \o Names("errs")
        /\ Coming(p, p, call + 1) \in Seq(NamedErrors)
        /\ Names("errs") \in Seq(NamedErrors)
    BY <2>1, CallLeaves, NamesTyped
  <2>3. Names("errs")' = <<>> => Coming(p, p, call + 1) = <<>>
    BY <2>2, ConcatEmptySeq
  <2>4. AnswerSeen' => FailedSeen' = <<>>
    BY <2>1, <2>3, CallLeaves
  <2>5. QED
    BY <2>1, <2>4 DEF Promised!AnswerIsTrue, AnswerSeen, FailedSeen
<1>4. CASE Promised!pop \/ UNCHANGED Promised!vars
  <2>1. UNCHANGED <<code, AnswerSeen, function, FailedSeen>>
    BY <1>4 DEF Promised!pop, Promised!resultVars, Promised!vars, FailedSeen, AnswerSeen
  <2>2. QED
    BY <2>1 DEF Promised!AnswerIsTrue, FailedSeen, AnswerSeen
<1>5. QED
  BY <1>1, <1>2, <1>3, <1>4 DEF Promised!Next

(* In every state the result's trace is that of the last parse, complete,  *)
(* innermost level first, whatever calls came before it.                   *)
THEOREM TraceIsOfLastParse == Spec => []TraceOfLastParse
<1>1. Init /\ ProgramKnown => Promised!TraceOfLastParse
  <2>1. Promised!Init => Promised!TraceOfLastParse
    BY DEF Promised!Init, Promised!TraceOfLastParse
  <2>2. QED
    BY <2>1, SessionInit
<1>2. /\ ProgramKnown /\ ProgramKnown' /\ Promised!TraceOfLastParse /\ [Next]_vars
      => Promised!TraceOfLastParse'
  BY SessionStep, TraceOfLastParseStep
<1>3. QED
  BY <1>1, <1>2, AlwaysKnown, PTL DEF Spec, TraceOfLastParse

(* from_json() answers what its result says, and from_document() never     *)
(* reports success for a conversion that failed.                           *)
THEOREM AnswersAreTrue == Spec => []AnswerIsTrue
<1>1. Init /\ ProgramKnown => Promised!AnswerIsTrue
  <2>1. Promised!Init => Promised!AnswerIsTrue
    BY DEF Promised!Init, Promised!AnswerIsTrue
  <2>2. QED
    BY <2>1, SessionInit
<1>2. /\ ProgramKnown /\ ProgramKnown' /\ Promised!AnswerIsTrue /\ [Next]_vars
      => Promised!AnswerIsTrue'
  BY SessionStep, AnswerIsTrueStep
<1>3. QED
  BY <1>1, <1>2, AlwaysKnown, PTL DEF Spec, AnswerIsTrue
-----------------------------------------------------------------------------
(* The errors of a call are a path.                                        *)

(* What is known of the members until all have been asked: the vector has  *)
(* an error only after a rejection, and it is a link exactly when the      *)
(* element has the next one; when the text breaks off, an error inside the *)
(* optional is one noted by the value being read.                          *)
MembersLeft ==
  /\ vec_error # Vec!NoError =>
       /\ phase = "terminated" /\ handlers["sequence"].status # "busy"
       /\ vec_error.type \in Intermediate <=> Vec!HasError(inner)
       /\ vec_error.type # "OBJECT_MEMBER"
       /\ vec_error.type = "ARRAY_ELEMENT" => vec_error.at = base + vec_count
  /\ phase = "malformed" /\ state = "optional" /\ Opt!HasError(opt_handler)
       => handlers["optional"].status = "busy"
  /\ asked = "element" /\ state # "optional" => phase = "terminated"

(* What an error of the call says, by how the parse ended and by whether   *)
(* there are errors inside of it.                                          *)
Fits(e, inside) ==
  /\ phase = "terminated" => (e.type \in Intermediate <=> inside)
  /\ phase = "malformed" =>
       /\ e.type \in {"DUPLICATE_KEYS", "FINAL"}
       /\ e.type = "FINAL" <=> ~inside /\ MemberNoted
  /\ e.type = "OBJECT_MEMBER" => e.member = Last(named)
  /\ e.type = "ARRAY_ELEMENT" => e.index = base + vec_count

(* The first n errors of c are the call's, with p more to come inside the  *)
(* first; the others are of earlier calls.                                 *)
Path(c, n, p) ==
  /\ n <= Len(c)
  /\ \A i \in 1..Len(c) :
       IF i <= n THEN c[i].call = call /\ Fits(c[i], i > 1 \/ p > 0)
                 ELSE c[i].call < call

Older(c) == \A i \in 1..Len(c) : c[i].call <= call

PathKnown ==
  /\ MembersLeft
  /\ \A s \in Stacks : Older(Contents(s))
  /\ pc \in {"clearing", "reaping"} =>
       /\ \A s \in {"result", "errs"} :
            s = Target => Path(Contents(s), reaped, Pending)
       /\ phase = "terminated" => Levels > 0
       /\ phase = "done" => Levels = 0

(* How many errors the members' chain has, by what its handlers hold.      *)
LEMMA MemberErrorsMean ==
  ASSUME HandlersKnown
  PROVE  /\ MemberErrors \in 0..2
         /\ state = "unknown" => MemberErrors = 0
         /\ state \in {"optional", "sequence"} =>
              (MemberErrors > 0 <=> ErrorOf(state))
<1>1. state \in {"optional", "sequence", "unknown"}
  BY DEF HandlersKnown, ClassKnown, ClassP!IInv, ClassP!ClassTypeOK
<1>2. CASE state = "unknown"
  <2>1. MemberErrors = 0
    BY <1>2, MemberErrorsAre
  <2>2. QED
    BY <1>2, <2>1
<1>3. CASE state = "optional"
  <2>1. MemberErrors = ElementErrors
    BY <1>3, MemberErrorsAre
  <2>2. ElementErrors = IF Opt!HasError(opt_handler) THEN 1 ELSE 0
    BY <1>3 DEF ElementErrors, ElementHasError
  <2>3. ErrorOf("optional") <=> Opt!HasError(opt_handler)
    BY OptionalErrorIs DEF HandlersKnown
  <2>4. QED
    BY <1>3, <2>1, <2>2, <2>3
<1>4. CASE state = "sequence"
  <2>1. MemberErrors = IF vec_error = Vec!NoError THEN 0 ELSE 1 + ElementErrors
    BY <1>4, MemberErrorsAre
  <2>2. ElementErrors \in {0, 1}
    BY ElementErrorsAre
  <2>3. ErrorOf("sequence") <=> vec_error # Vec!NoError
    BY VectorErrorIs
  <2>4. QED
    BY <1>4, <2>1, <2>2, <2>3
<1>5. QED
  BY <1>1, <1>2, <1>3, <1>4

(* The class handler's error fits what the member of the last key holds.   *)
LEMMA ClassLink ==
  ASSUME HandlersKnown, NEW e, e.type = the_error.type, e.member = state,
         the_error # Class!NoError
  PROVE  Fits(e, MemberErrors > 0)
<1>1. ClassKnown /\ ClassP!IInv /\ OptionalSound /\ StateIsNamed
  BY DEF HandlersKnown, ClassKnown
<1>2. /\ the_error \in ClassP!Errors
      /\ state \in {"optional", "sequence", "unknown"}
  BY <1>1 DEF ClassP!IInv, ClassP!ClassTypeOK
<1>3. e.type \in Intermediate <=> e.type = "OBJECT_MEMBER"
  BY <1>2 DEF ClassP!Errors, Intermediate
<1>4. /\ ErrorOf("optional") <=> handlers["optional"].status = "failed"
                                 \/ (handlers["optional"].status = "busy" /\ opt_noted)
      /\ ErrorOf("sequence") <=> handlers["sequence"].status = "failed"
  BY <1>1, OptionalErrorIs, PhaseIsStatus, VectorErrorIs
<1>5. ASSUME phase = "terminated"
      PROVE  e.type \in Intermediate <=> MemberErrors > 0
  <2>1. \A m \in {"optional", "sequence"} :
          ErrorOf(m) <=> the_error = ClassP!ObjectMember(m)
    BY <1>1, <1>4, <1>5
       DEF ClassKnown, ClassP!OneReads, ClassP!IInv, ClassP!RefusalRecorded,
           ClassP!HasRejected
  <2>2. e.type = "OBJECT_MEMBER" => the_error = ClassP!ObjectMember(state)
    BY <1>1 DEF ClassP!IInv, ClassP!RefusalRecorded
  <2>3. e.type = "OBJECT_MEMBER" => state \in {"optional", "sequence"}
    BY <1>2, <2>2 DEF ClassP!ObjectMember, ClassP!Errors
  <2>4. \A m : the_error = ClassP!ObjectMember(m) => e.type = "OBJECT_MEMBER"
    BY DEF ClassP!ObjectMember
  <2>5. state = "unknown" => ~(MemberErrors > 0)
    BY MemberErrorsMean
  <2>6. QED
    BY <1>2, <1>3, <2>1, <2>2, <2>3, <2>4, <2>5, MemberErrorsMean
<1>6. ASSUME phase = "malformed"
      PROVE  /\ e.type = "DUPLICATE_KEYS"
             /\ MemberNoted => MemberErrors > 0
             /\ MemberErrors > 0 => MemberNoted
  <2>1. the_error # ClassP!NoError
    BY ClassDefinitions
  <2>2. PICK m \in {"optional", "sequence"} : the_error = ClassP!DuplicateKeys(m)
    BY <1>1, <1>6, <2>1 DEF ClassKnown, ClassP!OneReads
  <2>3. e.type = "DUPLICATE_KEYS"
    BY <2>2 DEF ClassP!DuplicateKeys
  <2>4. \A k \in {"optional", "sequence"} : handlers[k].status # "failed"
    BY <1>1, <2>2 DEF ClassP!IInv, ClassP!RefusalRecorded, ClassP!HasRejected,
                      ClassP!DuplicateKeys, ClassP!ObjectMember
  <2>5. \A k \in {"optional", "sequence"} : ErrorOf(k) => handlers[k].status = "busy"
    BY <1>4, <2>4
  <2>6. \A k \in {"optional", "sequence"} : handlers[k].status = "busy" => k = state
    BY <1>1 DEF ClassKnown, ClassP!OneReads
  <2>7. MemberNoted <=> state \in {"optional", "sequence"} /\ ErrorOf(state)
    BY <2>5, <2>6 DEF MemberNoted
  <2>8. state = "unknown" => ~(MemberErrors > 0)
    BY MemberErrorsMean
  <2>9. QED
    BY <1>2, <2>3, <2>7, <2>8, MemberErrorsMean
<1>7. ASSUME e.type = "OBJECT_MEMBER"
      PROVE  e.member = Last(named)
  <2>1. the_error = ClassP!ObjectMember(state)
    BY <1>1, <1>7 DEF ClassP!IInv, ClassP!RefusalRecorded
  <2>2. state \in {"optional", "sequence"}
    BY <1>2, <2>1 DEF ClassP!ObjectMember, ClassP!Errors
  <2>3. QED
    BY <1>1, <2>2 DEF StateIsNamed
<1>8. e.type # "ARRAY_ELEMENT"
  BY <1>2 DEF ClassP!Errors
<1>9. QED
  BY <1>5, <1>6, <1>7, <1>8 DEF Fits

(* While no error has been taken from them, the members hold what they do. *)
LEMMA MembersHold == HandlersKnown /\ asked = "class" => MembersLeft
<1>. SUFFICES ASSUME HandlersKnown, asked = "class" PROVE MembersLeft
  OBVIOUS
<1>1. VecP!TypeOK /\ VecP!RefusalRecorded /\ VecP!ErrorNamesElement
  BY DEF HandlersKnown, VecP!IInv, VecP!Positions
<1>2. ASSUME vec_error # Vec!NoError
      PROVE  /\ phase = "terminated" /\ handlers["sequence"].status # "busy"
             /\ vec_error.type \in Intermediate <=> Vec!HasError(inner)
             /\ vec_error.type # "OBJECT_MEMBER"
             /\ vec_error.type = "ARRAY_ELEMENT" => vec_error.at = base + vec_count
  <2>1. vec_error \in VecP!Errors
    BY <1>1 DEF VecP!TypeOK
  <2>2. /\ vec_error.type \in Intermediate <=> vec_error.type = "ARRAY_ELEMENT"
        /\ vec_error.type # "OBJECT_MEMBER"
    BY <2>1 DEF VecP!Errors, Intermediate
  <2>3. handlers["sequence"].status = "failed"
    BY <1>2, VectorErrorIs
  <2>4. phase = "terminated"
    <3>1. the_error = ClassP!ObjectMember("sequence")
      BY <2>3 DEF HandlersKnown, ClassKnown, ClassP!IInv, ClassP!RefusalRecorded,
                  ClassP!HasRejected
    <3>2. QED
      BY <3>1 DEF HandlersKnown, ClassKnown, ClassP!OneReads, ClassP!NoError,
                  ClassP!DuplicateKeys, ClassP!ObjectMember
  <2>5. PhaseOf("sequence") = "terminated"
    BY <2>3, PhaseIsStatus
  <2>6. inner.status # "busy"
    BY <1>1, <2>5 DEF VecP!RefusalRecorded
  <2>7. vec_error.type = "ARRAY_ELEMENT" <=> Vec!HasError(inner)
    BY <1>1, <2>6 DEF VecP!RefusalRecorded, Vec!HasError
  <2>8. vec_error.type = "ARRAY_ELEMENT" => vec_error.at = base + vec_count
    BY <1>1 DEF VecP!ErrorNamesElement, VecP!Fixed
  <2>9. QED
    BY <2>2, <2>3, <2>4, <2>7, <2>8
<1>3. ASSUME phase = "malformed", Opt!HasError(opt_handler)
      PROVE  handlers["optional"].status = "busy"
  <2>1. OptionalSound
    BY DEF HandlersKnown
  <2>2. handlers["optional"].status # "failed"
    BY <1>3 DEF HandlersKnown, ClassKnown, ClassP!IInv, ClassP!RefusalRecorded,
                ClassP!HasRejected, ClassP!OneReads, ClassP!NoError,
                ClassP!DuplicateKeys, ClassP!ObjectMember
  <2>3. PhaseOf("optional") \in {"reading", "terminated"}
    BY <1>3, <2>1, OptionalErrorIs, PhaseIsStatus
  <2>4. QED
    BY <2>2, <2>3, PhaseIsStatus
<1>4. QED
  BY <1>2, <1>3 DEF MembersLeft

(* The same in the next state.                                             *)
LEMMA NextMembersHold == HandlersKnown' /\ asked' = "class" => MembersLeft'
<1>1. HandlersKnown /\ asked = "class" => MembersLeft
  BY MembersHold
<1>2. (HandlersKnown /\ asked = "class" => MembersLeft)'
  BY <1>1, PTL
<1>3. QED
  BY <1>2

(* Taking errors from the handlers changes nothing an error is about.      *)
LEMMA ReapChanges ==
  ASSUME MembersLeft, Reap
  PROVE  /\ UNCHANGED <<call, named, base, vec_count, phase, state, handlers,
                        inner, vec_noted, opt_handler, opt_noted>>
         /\ vec_error' = vec_error \/ vec_error' = Vec!NoError
         /\ MemberNoted' <=> MemberNoted
<1>1. /\ UNCHANGED <<call, named, base, vec_count, phase, state, handlers,
                     inner, vec_noted, opt_handler, opt_noted>>
      /\ vec_error' = vec_error \/ vec_error' = Vec!NoError
  BY DEF Reap, ReapClass, ReapMember, ReapElement, Asks, classVars, vecVars,
         optVars
<1>2. Vec!NoError' = Vec!NoError /\ (Opt!Error' <=> Opt!Error)
  BY <1>1 DEF Vec!NoError, Opt!Error, Opt!HasError, Opt!none
<1>3. handlers["sequence"].status = "busy" =>
        vec_error = Vec!NoError /\ vec_error' = Vec!NoError
  BY <1>1 DEF MembersLeft
<1>4. MemberNoted <=> handlers["optional"].status = "busy" /\ Opt!Error
  BY <1>3 DEF MemberNoted, ErrorOf
<1>5. MemberNoted' <=> handlers["optional"].status = "busy" /\ Opt!Error
  BY <1>1, <1>2, <1>3 DEF MemberNoted, ErrorOf
<1>6. QED
  BY <1>1, <1>4, <1>5

(* What is pushed continues the path.                                      *)
LEMMA ReapExtends ==
  ASSUME HandlersSound, ErrorsTyped, MembersLeft, Reap
  PROVE  \/ PushesNothing /\ Pending' = Pending
         \/ \E e \in Records :
              /\ push(Target, e) /\ reaped' = reaped + 1 /\ e.call = call
              /\ Pending > 0 /\ Pending' = Pending - 1
              /\ Fits(e, Pending' > 0)
<1>. DEFINE Extends(e) ==
       /\ push(Target, e) /\ reaped' = reaped + 1 /\ e.call = call
       /\ Pending > 0 /\ Pending' = Pending - 1
       /\ Fits(e, Pending' > 0)
<1>1. pc = "reaping" /\ reaped \in Nat /\ call \in Nat
  BY DEF Reap, ReapClass, ReapMember, ReapElement, Asks, ErrorsTyped
<1>2. ASSUME ~(PushesNothing /\ Pending' = Pending)
      PROVE  Pending \in Nat \ {0} /\ Pending' = Pending - 1 /\ ~PushesNothing
  <2>1. \/ PushesNothing /\ Pending' = Pending
        \/ reaped' = reaped + 1 /\ Pending \in Nat \ {0} /\ Pending' = Pending - 1
    BY ReapTakesPending
  <2>2. reaped + 1 # reaped
    BY <1>1
  <2>3. QED
    BY <1>2, <2>1, <2>2 DEF PushesNothing
<1>3. ASSUME NEW type, NEW member, NEW index,
             Pushes(NewError(type, member, index)),
             NewError(type, member, index) \in Records,
             Pending > 0 /\ Pending' = Pending - 1,
             Fits(NewError(type, member, index), Pending' > 0)
      PROVE  \E e \in Records : Extends(e)
  <2>1. PICK e \in Records : e = NewError(type, member, index)
    BY <1>3
  <2>2. push(Target, e) /\ reaped' = reaped + 1
    BY <1>3, <2>1 DEF Pushes
  <2>3. e.call = call /\ Fits(e, Pending' > 0)
    BY <1>3, <2>1 DEF NewError
  <2>4. Extends(e)
    BY <1>3, <2>2, <2>3
  <2>5. QED
    BY <2>4
<1>4. SUFFICES ASSUME ~(PushesNothing /\ Pending' = Pending)
               PROVE  \E e \in Records : Extends(e)
  OBVIOUS
<1>5. Pending \in Nat \ {0} /\ Pending' = Pending - 1 /\ ~PushesNothing /\ Pending > 0
  BY <1>2, <1>4
<1>6. CASE ReapClass
  <2>1. /\ the_error # Class!NoError /\ asked = "class"
        /\ Pushes(NewError(the_error.type, state, -1))
    BY <1>5, <1>6 DEF ReapClass, Asks
  <2>2. HandlersKnown
    BY <2>1 DEF HandlersSound
  <2>3. Pending = 1 + MemberErrors
    BY <1>1, <2>1, PendingIs
  <2>4. MemberErrors \in 0..2
    BY MemberErrorsBounds
  <2>5. Pending' = MemberErrors
    BY <1>5, <2>3, <2>4
  <2>6. PICK e : e = NewError(the_error.type, state, -1)
    OBVIOUS
  <2>7. Fits(e, MemberErrors > 0)
    BY <2>1, <2>2, <2>6, ClassLink DEF NewError
  <2>8. Fits(NewError(the_error.type, state, -1), Pending' > 0)
    BY <2>5, <2>6, <2>7 DEF Fits
  <2>9. NewError(the_error.type, state, -1) \in Records
    <3>1. the_error.type \in {"none", "TYPE_MISMATCH", "UNKNOWN_FIELD",
             "DUPLICATE_KEYS", "OBJECT_MEMBER", "MISSING_REQUIRED"}
      BY DEF ErrorsTyped, ClassP!Errors
    <3>2. -1 \in Int
      OBVIOUS
    <3>3. QED
      BY <3>1, <3>2 DEF NewError, Records, ErrorsTyped
  <2>10. QED
    BY <1>3, <1>5, <2>1, <2>8, <2>9
<1>7. CASE ReapMember
  <2>1. /\ state = "sequence" /\ vec_error # Vec!NoError /\ asked = "member"
        /\ Pushes(NewError(vec_error.type, "unknown", vec_error.at))
    BY <1>5, <1>7 DEF ReapMember, Asks
  <2>2. Pending = 1 + ElementErrors
    BY <1>1, <2>1, PendingIs, MemberErrorsAre
  <2>3. Pending' = ElementErrors
    BY <1>5, <2>2, ElementErrorsAre
  <2>4. ElementErrors = IF Vec!HasError(inner) THEN 1 ELSE 0
    BY <2>1 DEF ElementErrors, ElementHasError
  <2>5. Vec!HasError(inner) <=> Pending' > 0
    BY <2>3, <2>4
  <2>6. Fits(NewError(vec_error.type, "unknown", vec_error.at), Pending' > 0)
    BY <2>1, <2>5 DEF MembersLeft, Fits, NewError
  <2>7. NewError(vec_error.type, "unknown", vec_error.at) \in Records
    <3>1. vec_error.type \in {"none", "TYPE_MISMATCH", "ARRAY_LENGTH_MISMATCH",
                              "ARRAY_ELEMENT"} /\ vec_error.at \in Int
      BY DEF ErrorsTyped, VecP!Errors
    <3>2. QED
      BY <3>1 DEF NewError, Records, ErrorsTyped
  <2>8. QED
    BY <1>3, <1>5, <2>1, <2>6, <2>7
<1>8. CASE ReapElement
  <2>1. /\ asked = "element" /\ Pushes(NewError("FINAL", "unknown", -1))
        /\ ElementHasError
    BY <1>5, <1>8 DEF ReapElement, Asks
  <2>2. Pending = ElementErrors
    BY <1>1, <2>1, PendingIs
  <2>3. Pending' = 0
    BY <1>5, <2>2, ElementErrorsAre
  <2>4. ~(Pending' > 0) /\ "FINAL" \notin Intermediate /\ -1 \in Int
    BY <2>3 DEF Intermediate
  <2>5. NewError("FINAL", "unknown", -1) \in Records
    BY <2>4 DEF NewError, Records, ErrorsTyped
  <2>6. phase = "malformed" => MemberNoted
    <3>1. ASSUME phase = "malformed"
          PROVE  state = "optional" /\ Opt!HasError(opt_handler)
      BY <2>1, <3>1 DEF MembersLeft, ElementHasError
    <3>2. Opt!HasError(opt_handler) => Opt!Error
      BY DEF Opt!Error, Opt!HasError, Opt!none
    <3>3. QED
      BY <3>1, <3>2 DEF MembersLeft, MemberNoted, ErrorOf
  <2>7. Fits(NewError("FINAL", "unknown", -1), Pending' > 0)
    BY <2>4, <2>6 DEF Fits, NewError
  <2>8. QED
    BY <1>3, <1>5, <2>1, <2>5, <2>7
<1>9. QED
  BY <1>6, <1>7, <1>8 DEF Reap

(* The elements of a list that has a new head.                             *)
LEMMA PushedElements ==
  ASSUME NEW c \in Seq(Records), NEW e \in Records
  PROVE  /\ <<e>> \o c \in Seq(Records) /\ Len(<<e>> \o c) = Len(c) + 1
         /\ Len(c) \in Nat /\ (<<e>> \o c)[1] = e
         /\ \A i \in 2..Len(c) + 1 : (<<e>> \o c)[i] = c[i - 1]
<1>1. <<e>> \in Seq(Records) /\ Len(<<e>>) = 1 /\ Len(c) \in Nat
  BY LenProperties
<1>2. PICK d : d = <<e>> \o c
  OBVIOUS
<1>3. /\ d \in Seq(Records) /\ Len(d) = 1 + Len(c)
      /\ \A i \in 1..Len(d) : d[i] = IF i <= 1 THEN <<e>>[i] ELSE c[i - 1]
  BY <1>1, <1>2, ConcatProperties
<1>4. d[1] = e
  <2>1. 1 \in 1..Len(d)
    BY <1>1, <1>3
  <2>2. QED
    BY <1>3, <2>1
<1>5. \A i \in 2..Len(c) + 1 : d[i] = c[i - 1]
  <2>1. TAKE i \in 2..Len(c) + 1
  <2>2. i \in 1..Len(d) /\ ~(i <= 1)
    BY <1>1, <1>3
  <2>3. QED
    BY <1>3, <2>2
<1>6. Len(d) = Len(c) + 1
  BY <1>1, <1>3
<1>7. QED
  BY <1>1, <1>2, <1>3, <1>4, <1>5, <1>6

(* A path grows at its inner end.                                          *)
LEMMA PathPush ==
  ASSUME NEW c \in Seq(Records), NEW e \in Records, NEW n \in Nat,
         NEW p \in Nat, NEW q \in Nat, p > 0, Path(c, n, p), e.call = call,
         Fits(e, q > 0)
  PROVE  Path(<<e>> \o c, n + 1, q)
<1>1. PICK d : d = <<e>> \o c
  OBVIOUS
<1>2. /\ d \in Seq(Records) /\ Len(d) = Len(c) + 1 /\ Len(c) \in Nat /\ d[1] = e
      /\ \A i \in 2..Len(c) + 1 : d[i] = c[i - 1]
  BY <1>1, PushedElements
<1>3. n <= Len(c)
  BY DEF Path
<1>4. n + 1 <= Len(d) /\ 1 <= n + 1
  BY <1>2, <1>3
<1>5. ASSUME NEW i \in 1..Len(d)
      PROVE  IF i <= n + 1 THEN d[i].call = call /\ Fits(d[i], i > 1 \/ q > 0)
                           ELSE d[i].call < call
  <2>1. CASE i = 1
    <3>1. d[i] = e /\ i <= n + 1 /\ ~(i > 1)
      BY <1>2, <1>4, <2>1
    <3>2. Fits(d[i], i > 1 \/ q > 0)
      BY <3>1 DEF Fits
    <3>3. QED
      BY <3>1, <3>2
  <2>2. CASE i # 1
    <3>1. i \in 2..Len(c) + 1 /\ i - 1 \in 1..Len(c) /\ i > 1
      BY <1>2, <2>2
    <3>2. d[i] = c[i - 1] /\ (i <= n + 1 <=> i - 1 <= n)
      BY <1>2, <3>1
    <3>3. PICK k \in 1..Len(c) : k = i - 1
      BY <3>1
    <3>4. IF k <= n THEN c[k].call = call /\ Fits(c[k], k > 1 \/ p > 0)
                    ELSE c[k].call < call
      BY DEF Path
    <3>5. Fits(c[k], k > 1 \/ p > 0) => Fits(c[k], i > 1 \/ q > 0)
      BY <3>1 DEF Fits
    <3>6. QED
      BY <3>2, <3>3, <3>4, <3>5
  <2>3. QED
    BY <2>1, <2>2
<1>6. Path(d, n + 1, q)
  BY <1>4, <1>5 DEF Path
<1>7. QED
  BY <1>1, <1>6

(* A path stays one while the text stays where it is.                      *)
LEMMA PathKept ==
  ASSUME UNCHANGED <<call, named, base, vec_count, phase>>,
         MemberNoted' <=> MemberNoted, NEW c, NEW n, NEW p, Path(c, n, p)
  PROVE  Path(c, n, p)'
<1>1. \A e : Fits(e, TRUE) => Fits(e, TRUE)'
  BY DEF Fits
<1>2. \A e : Fits(e, FALSE) => Fits(e, FALSE)'
  BY DEF Fits
<1>3. QED
  BY <1>1, <1>2 DEF Path, Fits

(* A call that has pushed nothing yet finds errors of earlier calls only.  *)
LEMMA PathBegins ==
  ASSUME NEW c \in Seq(Records), NEW p \in Nat, Older(c), call \in Nat,
         call' = call + 1
  PROVE  Path(c, 0, p)'
<1>1. Len(c) \in Nat /\ \A i \in 1..Len(c) : c[i] \in Records
  BY LenProperties, ElementOfSeq
<1>2. \A i \in 1..Len(c) : c[i].call \in Nat
  BY <1>1 DEF Records
<1>3. \A i \in 1..Len(c) : c[i].call <= call
  BY DEF Older
<1>4. \A i \in 1..Len(c) : ~(i <= 0) /\ c[i].call < call'
  BY <1>1, <1>2, <1>3
<1>5. QED
  BY <1>1, <1>4 DEF Path

(* No list ever holds an error of a later call.                            *)
LEMMA OlderStep ==
  ASSUME ErrorsTyped, ListsKnown, [Next]_vars,
         \A s \in Stacks : Older(Contents(s))
  PROVE  (\A s \in Stacks : Older(Contents(s)))'
<1>1. /\ ListsLinked /\ Stacks = {"result", "errs", "temporary"}
      /\ \A s \in {"result", "errs"} : m_size[s] = Len(Contents(s))
      /\ call \in Nat
  BY ProgramAssumption DEF ListsKnown, SizesKnown, ErrorsTyped
<1>2. \A s \in Stacks : /\ Contents(s) \in Seq(Records) /\ Len(Contents(s)) \in Nat
                        /\ \A i \in 1..Len(Contents(s)) :
                             /\ Contents(s)[i].call \in Nat
                             /\ Contents(s)[i].call <= call
  <2>1. ASSUME NEW s \in Stacks
        PROVE  /\ Contents(s) \in Seq(Records) /\ Len(Contents(s)) \in Nat
               /\ \A i \in 1..Len(Contents(s)) :
                    Contents(s)[i].call \in Nat /\ Contents(s)[i].call <= call
    <3>1. Contents(s) \in Seq(Records)
      BY <1>1, ContentsAreRecords
    <3>2. Len(Contents(s)) \in Nat
          /\ \A i \in 1..Len(Contents(s)) : Contents(s)[i] \in Records
      BY <3>1, LenProperties, ElementOfSeq
    <3>3. \A i \in 1..Len(Contents(s)) : Contents(s)[i].call <= call
      BY DEF Older
    <3>4. QED
      BY <3>1, <3>2, <3>3 DEF Records
  <2>2. QED
    BY <2>1
<1>3. call' = call \/ call' = call + 1
  BY DEF Next, vars, callVars, from_json, from_document, Begin,
         from_json_file_unopened, Event, set_result, Accepted, Ended,
         ClearTemporary, Reap, ReapClass, ReapMember, ReapElement, Asks, Return,
         PrintTrace, PrintNext, Pop, Delete
<1>4. ASSUME NEW s \in Stacks, NEW t \in Stacks, Contents(t)' = Contents(s)
      PROVE  Older(Contents(t))'
  <2>1. \A i \in 1..Len(Contents(s)) : Contents(s)[i].call <= call'
    BY <1>1, <1>2, <1>3
  <2>2. QED
    BY <1>4, <2>1 DEF Older
<1>5. ASSUME NEW s \in Stacks, Contents(s)' = Tail(Contents(s)), Contents(s) # <<>>
      PROVE  Older(Contents(s))'
  <2>1. PICK c \in Seq(Records) : c = Contents(s)
    BY <1>2
  <2>2. /\ Len(Tail(c)) = Len(c) - 1 /\ Len(c) \in Nat
        /\ \A i \in 1..Len(Tail(c)) : Tail(c)[i] = c[i + 1]
    BY <1>5, <2>1, HeadTailProperties, LenProperties
  <2>3. \A i \in 1..Len(Tail(c)) : i + 1 \in 1..Len(c)
    BY <2>2
  <2>4. \A i \in 1..Len(c) : c[i].call \in Nat /\ c[i].call <= call
    BY <1>2, <2>1
  <2>5. \A i \in 1..Len(Tail(c)) : Tail(c)[i].call <= call'
    BY <1>1, <1>3, <2>2, <2>3, <2>4
  <2>6. QED
    BY <1>5, <2>1, <2>5 DEF Older
<1>6. CASE Reap
  <2>1. call' = call
    BY <1>6 DEF Reap, ReapClass, ReapMember, ReapElement, Asks
  <2>2. CASE PushesNothing
    <3>1. \A s \in Stacks : Contents(s)' = Contents(s)
      BY <1>1, <2>2, UnchangedLists DEF PushesNothing
    <3>2. QED
      BY <1>4, <3>1
  <2>3. CASE \E e \in Records : push(Target, e) /\ e.call = call
    <3>1. PICK e \in Records : push(Target, e) /\ e.call = call
      BY <2>3
    <3>2. PICK s \in {"result", "errs"} : s = Target
      BY DEF Target
    <3>3. /\ Contents(s)' = <<e>> \o Contents(s)
          /\ \A t \in Stacks : t # s => Contents(t)' = Contents(t)
      BY <1>1, <3>1, <3>2, PushLinks
    <3>4. PICK c \in Seq(Records) : c = Contents(s)
      BY <1>1, <1>2, <3>2
    <3>5. PICK d : d = <<e>> \o c
      OBVIOUS
    <3>6. /\ Len(d) = Len(c) + 1 /\ Len(c) \in Nat /\ d[1] = e
          /\ \A i \in 2..Len(c) + 1 : d[i] = c[i - 1]
      BY <3>5, PushedElements
    <3>7. \A i \in 1..Len(c) : c[i].call <= call
      BY <1>1, <1>2, <3>2, <3>4
    <3>8. \A i \in 1..Len(d) : d[i].call <= call
      <4>1. TAKE i \in 1..Len(d)
      <4>2. CASE i = 1
        BY <1>1, <3>1, <3>6, <4>2
      <4>3. CASE i # 1
        <5>1. i \in 2..Len(c) + 1 /\ i - 1 \in 1..Len(c)
          BY <3>6, <4>3
        <5>2. QED
          BY <3>6, <3>7, <5>1
      <4>4. QED
        BY <4>2, <4>3
    <3>9. Older(Contents(s))'
      BY <2>1, <3>3, <3>4, <3>5, <3>8 DEF Older
    <3>10. QED
      BY <1>4, <3>3, <3>9
  <2>4. QED
    BY <1>6, <2>2, <2>3, ReapPushes
<1>7. CASE \/ from_json \/ from_document \/ from_json_file_unopened \/ Event
           \/ Accepted \/ Return \/ PrintTrace \/ PrintNext \/ UNCHANGED vars
  <2>1. UNCHANGED errorStackVars
    BY <1>7 DEF from_json, from_document, Begin, from_json_file_unopened, Event,
                Accepted, Return, PrintTrace, PrintNext, vars
  <2>2. \A s \in Stacks : Contents(s)' = Contents(s)
    BY <1>1, <2>1, UnchangedLists
  <2>3. QED
    BY <1>4, <2>2
<1>8. CASE set_result
  <2>1. /\ Contents("result")' = Contents("temporary")
        /\ Contents("temporary")' = Contents("result")
        /\ Contents("errs")' = Contents("errs")
    BY <1>1, <1>8, SwapLinks DEF set_result
  <2>2. QED
    BY <1>1, <1>4, <2>1
<1>9. CASE ClearTemporary
  <2>1. CASE destroy_head("temporary")
    <3>1. /\ Contents("temporary") # <<>>
          /\ Contents("temporary")' = Tail(Contents("temporary"))
          /\ \A t \in Stacks : t # "temporary" => Contents(t)' = Contents(t)
      BY <1>1, <2>1, HeadLeaves
    <3>2. QED
      BY <1>1, <1>4, <1>5, <3>1
  <2>2. CASE empty("temporary") /\ construct("temporary")
    <3>1. \A t \in Stacks : Contents(t)' = Contents(t)
      BY <1>1, <2>2, ConstructLinks
    <3>2. QED
      BY <1>4, <3>1
  <2>3. QED
    BY <1>9, <2>1, <2>2 DEF ClearTemporary
<1>10. CASE Pop
  <2>1. /\ Contents("errs") # <<>> /\ Contents("errs")' = Tail(Contents("errs"))
        /\ \A t \in Stacks : t # "errs" => Contents(t)' = Contents(t)
    BY <1>1, <1>10, HeadLeaves DEF Pop
  <2>2. QED
    BY <1>1, <1>4, <1>5, <2>1
<1>11. CASE Delete
  <2>1. \A t \in Stacks : Contents(t)' = Contents(t)
    BY <1>1, <1>11, DeleteLinks DEF Delete
  <2>2. QED
    BY <1>4, <2>1
<1>12. QED
  BY <1>6, <1>7, <1>8, <1>9, <1>10, <1>11 DEF Next

(* At the start there is no path.                                          *)
LEMMA PathInit == Init /\ ProgramKnown => PathKnown
<1>. SUFFICES ASSUME Init, ProgramKnown PROVE PathKnown
  OBVIOUS
<1>1. MembersLeft /\ pc = "idle"
  BY MembersHold DEF Init, ProgramKnown, HandlersSound
<1>2. \A s \in Stacks : Contents(s) = <<>>
  <2>1. \A s \in Stacks : empty(s)
    BY DEF Init, ErrorStackInit, empty
  <2>2. QED
    BY <2>1, EmptyIs DEF ProgramKnown
<1>3. \A s \in Stacks : Older(Contents(s))
  BY <1>2 DEF Older
<1>4. QED
  BY <1>1, <1>3 DEF PathKnown

(* What the members hold stays until it is taken.                          *)
LEMMA MembersLeftStep ==
  ASSUME HandlersSound, HandlersSound', MembersLeft, [Next]_vars
  PROVE  MembersLeft'
<1>1. CASE asked' = "class"
  <2>1. HandlersKnown'
    BY <1>1 DEF HandlersSound
  <2>2. QED
    BY <1>1, <2>1, NextMembersHold
<1>2. CASE Reap
  <2>1. /\ UNCHANGED <<base, vec_count, phase, state, handlers, inner, vec_noted,
                       opt_handler, opt_noted>>
        /\ vec_error' = vec_error \/ vec_error' = Vec!NoError
    BY <1>2, ReapChanges
  <2>2. Vec!NoError' = Vec!NoError
    BY DEF Vec!NoError
  <2>3. asked' = "element" => state = "optional" \/ vec_error # Vec!NoError
    BY <1>2 DEF Reap, ReapClass, ReapMember, ReapElement, Asks
  <2>4. asked' = "element" /\ state # "optional" => phase = "terminated"
    BY <2>3 DEF MembersLeft
  <2>5. QED
    BY <2>1, <2>2, <2>4
       DEF MembersLeft, Vec!HasError, Opt!HasError, Intermediate
<1>3. CASE asked' # "class" /\ ~Reap
  <2>1. pc # "reaping" => asked = "class"
    BY DEF HandlersSound
  <2>2. UNCHANGED <<handlerVars, asked>>
    BY <1>3, <2>1
       DEF Next, vars, from_json, from_document, Begin, from_json_file_unopened,
           Event, set_result, Accepted, Ended, ClearTemporary, Return,
           PrintTrace, PrintNext, Pop, Delete
  <2>3. UNCHANGED <<vec_error, base, vec_count, phase, state, handlers, inner,
                    vec_noted, opt_handler, opt_noted, asked>>
    BY <2>2 DEF handlerVars, classVars, vecVars, optVars
  <2>4. QED
    BY <2>3 DEF MembersLeft, Vec!HasError, Opt!HasError, Vec!NoError, Intermediate
<1>4. QED
  BY <1>1, <1>2, <1>3

(* What a member has noted is there while the handlers are left alone.     *)
LEMMA NotedStill == UNCHANGED handlerVars => (MemberNoted' <=> MemberNoted)
  BY DEF handlerVars, classVars, optVars, vecVars, MemberNoted, ErrorOf,
         Opt!Error, Opt!HasError, Opt!none, Vec!NoError

(* The path in the next state, given by what the next state holds.         *)
LEMMA NextPath ==
  ASSUME NEW c, NEW n, NEW p, Path(c, n, p)',
         NEW s, c = Contents(s)', n = reaped', p = Pending'
  PROVE  Path(Contents(s), reaped, Pending)'
  BY DEF Path, Fits

(* How many errors are to come when a parse has ended.                     *)
LEMMA EndedPending ==
  ASSUME ProgramKnown, ProgramKnown', set_result \/ Accepted
  PROVE  /\ Pending' \in 0..3 /\ Levels' = Pending'
         /\ phase = "terminated" => Pending' > 0
         /\ phase = "done" => Pending' = 0
<1>1. /\ pc' \in {"clearing", "reaping"} /\ asked = "class" /\ asked' = "class"
      /\ pc # "reaping" /\ the_error' = the_error /\ reaped' = 0
      /\ ErrorsTyped' /\ HandlersSound
  BY DEF set_result, Accepted, Ended, ProgramKnown, HandlersSound, handlerVars,
         classVars
<1>2. Pending' \in 0..3
  <2>1. (ErrorsTyped /\ asked \in ReapSteps => Pending \in 0..3)'
    BY PendingBounds, PTL
  <2>2. QED
    BY <1>1, <2>1 DEF ReapSteps
<1>3. Levels' = Pending'
  BY <1>1, <1>2, LevelsOfCall
<1>4. ASSUME phase = "terminated" PROVE Pending' > 0
  <2>1. the_error # Class!NoError
    BY <1>1, <1>4, OutcomePossible
  <2>2. Pending' = 1 + MemberErrors'
    BY <1>1, <2>1, NextPendingIs DEF Class!NoError
  <2>3. MemberErrors' \in 0..2
    BY <1>1, NextMemberErrorsBounds
  <2>4. \A n \in 0..2 : 1 + n > 0
    OBVIOUS
  <2>5. QED
    BY <2>2, <2>3, <2>4, Zenon
<1>5. ASSUME phase = "done" PROVE Pending' = 0
  <2>1. the_error = Class!NoError
    BY <1>1, <1>5, OutcomePossible
  <2>2. QED
    BY <1>1, <2>1, NextPendingIs DEF Class!NoError
<1>6. QED
  BY <1>2, <1>3, <1>4, <1>5

(* Every step leaves the errors pushed so far a path.                      *)
LEMMA PathStep ==
  ASSUME ProgramKnown, ProgramKnown', PathKnown, [Next]_vars
  PROVE  PathKnown'
<1>1. /\ HandlersSound /\ HandlersSound' /\ ErrorsTyped /\ ListsKnown /\ CallsKnown
      /\ MembersLeft /\ Stacks = {"result", "errs", "temporary"}
      /\ call \in Nat /\ reaped \in Nat
      /\ \A s \in Stacks : Older(Contents(s))
  BY ProgramAssumption DEF ProgramKnown, PathKnown, ErrorsTyped
<1>2. MembersLeft'
  BY <1>1, MembersLeftStep
<1>3. (\A s \in Stacks : Older(Contents(s)))'
  BY <1>1, OlderStep
<1>4. ASSUME NEW s \in {"result", "errs"}, s = Target', pc' \in {"clearing", "reaping"}
      PROVE  /\ Path(Contents(s), reaped, Pending)'
             /\ (phase' = "terminated" => Levels' > 0)
             /\ (phase' = "done" => Levels' = 0)
  <2>1. Contents(s) \in Seq(Records)
    BY <1>1, ContentsAreRecords DEF ListsKnown
  <2>2. CASE set_result \/ Accepted
    <3>1. /\ reaped' = 0 /\ call' = call + 1 /\ phase' = phase
      BY <2>2 DEF set_result, Accepted, Ended, handlerVars, classVars
    <3>2. /\ Pending' \in 0..3 /\ Levels' = Pending'
          /\ phase = "terminated" => Pending' > 0
          /\ phase = "done" => Pending' = 0
      BY <2>2, EndedPending
    <3>3. PICK c \in Seq(Records) : c = Contents(s)' /\ Older(c)
      <4>1. CASE set_result
        <5>1. function' = "from_json" /\ pc = "from_json"
              /\ swap("temporary", "result")
          BY <4>1 DEF set_result, Ended
        <5>2. s = "result"
          BY <1>4, <5>1 DEF Target
        <5>3. Contents(s)' = <<>>
          BY <1>1, <5>1, <5>2, SwapLinks DEF ListsKnown, SizesKnown
        <5>4. <<>> \in Seq(Records) /\ Older(<<>>)
          BY DEF Older
        <5>5. QED
          BY <5>3, <5>4
      <4>2. CASE Accepted
        <5>1. Contents(s)' = Contents(s)
          BY <1>1, <4>2, UnchangedLists DEF Accepted, ListsKnown
        <5>2. Older(Contents(s))
          BY <1>1
        <5>3. QED
          BY <2>1, <5>1, <5>2
      <4>3. QED
        BY <2>2, <4>1, <4>2
    <3>4. PICK p \in Nat : p = Pending'
      BY <3>2
    <3>5. Path(c, 0, p)'
      BY <1>1, <3>1, <3>3, PathBegins
    <3>6. Path(Contents(s), reaped, Pending)'
      BY <3>1, <3>3, <3>4, <3>5, NextPath
    <3>7. QED
      BY <3>1, <3>2, <3>6
  <2>3. CASE ClearTemporary \/ UNCHANGED vars \/ Reap
    <3>1. /\ pc \in {"clearing", "reaping"} /\ phase' = phase
          /\ UNCHANGED <<call, named, base, vec_count, function>>
          /\ ~set_result /\ ~Accepted /\ ~from_json_file_unopened
      BY <1>4, <2>3
         DEF ClearTemporary, Reap, ReapClass, ReapMember, ReapElement, Asks, vars,
             handlerVars, callVars, classVars, vecVars, set_result, Accepted,
             from_json_file_unopened, Ended
    <3>2. Levels' = Levels
      BY <1>1, <3>1, LevelsStep DEF CallsKnown
    <3>3. s = Target
      BY <1>4, <3>1 DEF Target
    <3>4. /\ Path(Contents(s), reaped, Pending)
          /\ phase = "terminated" => Levels > 0
          /\ phase = "done" => Levels = 0
      BY <3>1, <3>3 DEF PathKnown
    <3>5. MemberNoted' <=> MemberNoted
      <4>1. CASE Reap
        BY <1>1, <4>1, ReapChanges
      <4>2. CASE ClearTemporary \/ UNCHANGED vars
        BY <4>2, NotedStill DEF ClearTemporary, vars
      <4>3. QED
        BY <2>3, <4>1, <4>2
    <3>6. PICK c \in Seq(Records) : c = Contents(s)
      BY <2>1
    <3>7. PICK p \in 0..3 : p = Pending
      BY <1>1, PendingBounds DEF CallsKnown
    <3>8. PICK n \in Nat : n = reaped
      BY <1>1
    <3>9. Path(c, n, p)
      BY <3>4, <3>6, <3>7, <3>8 DEF Path
    <3>10. ASSUME Contents(s)' = Contents(s), reaped' = reaped, Pending' = Pending
          PROVE  Path(Contents(s), reaped, Pending)'
      <4>1. Path(c, n, p)'
        BY <3>5, <3>1, <3>9, PathKept
      <4>2. QED
        BY <3>6, <3>7, <3>8, <3>10, <4>1, NextPath
    <3>11. CASE ClearTemporary \/ UNCHANGED vars
      <4>1. asked' = asked /\ UNCHANGED handlerVars /\ reaped' = reaped
            /\ (pc' = pc \/ {pc, pc'} \subseteq {"clearing", "reaping"})
        BY <3>11 DEF ClearTemporary, vars, callVars
      <4>2. Pending' = Pending
        BY <1>1, <4>1, PendingKept DEF CallsKnown
      <4>3. CASE UNCHANGED errorStackVars
        <5>1. Contents(s)' = Contents(s)
          BY <1>1, <4>3, UnchangedLists DEF ListsKnown
        <5>2. QED
          BY <3>2, <3>1, <3>4, <3>10, <4>1, <4>2, <5>1
      <4>4. CASE destroy_head("temporary") \/ (empty("temporary") /\ construct("temporary"))
        <5>1. Contents(s)' = Contents(s)
          BY <1>1, <4>4, HeadLeaves, ConstructLinks DEF ListsKnown
        <5>2. QED
          BY <3>2, <3>1, <3>4, <3>10, <4>1, <4>2, <5>1
      <4>5. QED
        BY <3>11, <4>3, <4>4 DEF ClearTemporary, vars
    <3>12. CASE Reap
      <4>1. CASE PushesNothing /\ Pending' = Pending
        <5>1. UNCHANGED errorStackVars /\ reaped' = reaped
          BY <4>1 DEF PushesNothing
        <5>2. Contents(s)' = Contents(s)
          BY <1>1, <5>1, UnchangedLists DEF ListsKnown
        <5>3. QED
          BY <3>2, <3>1, <3>4, <3>10, <4>1, <5>1, <5>2
      <4>2. CASE \E e \in Records :
              /\ push(Target, e) /\ reaped' = reaped + 1 /\ e.call = call
              /\ Pending > 0 /\ Pending' = Pending - 1
              /\ Fits(e, Pending' > 0)
        <5>1. PICK e \in Records :
                /\ push(s, e) /\ reaped' = reaped + 1 /\ e.call = call
                /\ Pending > 0 /\ Pending' = Pending - 1
                /\ Fits(e, Pending' > 0)
          BY <3>3, <4>2
        <5>2. Contents(s)' = <<e>> \o c
          BY <1>1, <3>6, <5>1, PushLinks DEF ListsKnown
        <5>3. PICK q \in Nat : q = p - 1 /\ p > 0 /\ q = Pending'
          BY <3>7, <5>1
        <5>4. Path(<<e>> \o c, n + 1, q)
          <6>1. Fits(e, q > 0)
            BY <5>1, <5>3 DEF Fits
          <6>2. QED
            BY <3>9, <5>1, <5>3, <6>1, PathPush
        <5>5. PICK d : d = <<e>> \o c
          OBVIOUS
        <5>6. PICK m : m = n + 1
          OBVIOUS
        <5>7. Path(d, m, q)'
            BY <3>5, <3>1, <5>4, <5>5, <5>6, PathKept
        <5>8. Path(Contents(s), reaped, Pending)'
          BY <3>8, <5>1, <5>2, <5>3, <5>5, <5>6, <5>7, NextPath
        <5>9. QED
          BY <3>2, <3>1, <3>4, <5>8
      <4>3. QED
        BY <1>1, <3>12, <4>1, <4>2, ReapExtends
    <3>13. QED
      BY <2>3, <3>11, <3>12
  <2>4. QED
    <3>1. \/ set_result \/ Accepted \/ ClearTemporary \/ UNCHANGED vars \/ Reap
      BY <1>4 DEF Next, from_json, from_document, Begin, from_json_file_unopened,
                  Event, Return, PrintTrace, PrintNext, Pop, Delete
    <3>2. QED
      BY <2>2, <2>3, <3>1
<1>5. pc' \in {"clearing", "reaping"} =>
        (phase' = "terminated" => Levels' > 0) /\ (phase' = "done" => Levels' = 0)
  <2>1. \E s \in {"result", "errs"} : s = Target'
    BY DEF Target
  <2>2. QED
    BY <1>4, <2>1
<1>6. (/\ MembersLeft
       /\ \A s \in Stacks : Older(Contents(s))
       /\ pc \in {"clearing", "reaping"} =>
            /\ \A s \in {"result", "errs"} :
                 s = Target => Path(Contents(s), reaped, Pending)
            /\ phase = "terminated" => Levels > 0
            /\ phase = "done" => Levels = 0)'
  BY <1>2, <1>3, <1>4, <1>5
<1>7. QED
  BY <1>6 DEF PathKnown

(* When all handlers have been asked, the call's errors lead from the      *)
(* class to the failure: each but the innermost is a link, and a link      *)
(* names the key or the position the text was at.                          *)
THEOREM TraceIsAPath == Spec => []TraceIsPath
<1>1. ProgramKnown /\ PathKnown => TraceIsPath
  <2>. SUFFICES ASSUME ProgramKnown, PathKnown, pc = "reaping", asked = "nobody"
                PROVE  TraceIsPath
    BY DEF TraceIsPath
  <2>. DEFINE Calls(list) == {i \in DOMAIN list : list[i].call = call}
  <2>1. PICK pushed : pushed = Contents(Target)
    OBVIOUS
  <2>2. PICK mine : mine = Calls(pushed)
    OBVIOUS
  <2>3. PICK s \in {"result", "errs"} : s = Target
    BY DEF Target
  <2>4. pushed \in Seq(Records) /\ s \in Stacks /\ pushed = Contents(s)
    BY <2>1, <2>3, ContentsAreRecords, ProgramAssumption DEF ProgramKnown, ListsKnown
  <2>5. Pending = 0 /\ Levels \in Nat /\ reaped \in Nat /\ call \in Nat
    BY PendingIs DEF ProgramKnown, CallsKnown, ErrorsTyped
  <2>6. Levels = reaped
    BY <2>5 DEF Levels
  <2>7. Path(pushed, reaped, 0)
    BY <2>3, <2>4, <2>5 DEF PathKnown, Path
  <2>8. DOMAIN pushed = 1..Len(pushed) /\ Len(pushed) \in Nat /\ reaped <= Len(pushed)
    BY <2>4, <2>7, LenProperties DEF Path
  <2>9. \A i \in 1..Len(pushed) : pushed[i].call = call <=> i <= reaped
    <3>1. TAKE i \in 1..Len(pushed)
    <3>2. IF i <= reaped THEN pushed[i].call = call ELSE pushed[i].call < call
      BY <2>7 DEF Path
    <3>3. pushed[i].call < call => pushed[i].call # call
      BY <2>5
    <3>4. QED
      BY <3>2, <3>3
  <2>10. mine = 1..reaped
    BY <2>2, <2>5, <2>8, <2>9
  <2>11. phase = "terminated" => mine # {}
    <3>1. phase = "terminated" => reaped > 0
      BY <2>6 DEF PathKnown
    <3>2. reaped > 0 => 1 \in 1..reaped
      BY <2>5
    <3>3. QED
      BY <2>10, <3>1, <3>2
  <2>12. phase = "done" => mine = {}
    BY <2>5, <2>6, <2>10 DEF PathKnown
  <2>13. ASSUME NEW i \in mine
         PROVE  Fits(pushed[i], {j \in mine : j < i} # {})
    <3>1. i \in 1..Len(pushed) /\ i <= reaped
      BY <2>5, <2>8, <2>10
    <3>2. Fits(pushed[i], i > 1 \/ 0 > 0)
      BY <2>7, <3>1 DEF Path
    <3>3. {j \in mine : j < i} # {} <=> i > 1
      <4>1. i > 1 => 1 \in 1..reaped /\ 1 < i
        BY <2>5, <3>1
      <4>2. \A j \in 1..reaped : j < i => i > 1
        BY <2>5, <3>1
      <4>3. QED
        BY <2>10, <4>1, <4>2
    <3>4. ~(0 > 0)
      OBVIOUS
    <3>5. QED
      BY <3>2, <3>3, <3>4 DEF Fits
  <2>14. ASSUME NEW i \in mine
         PROVE  LET e == pushed[i]
                    inside == {j \in mine : j < i}
                IN  /\ phase = "terminated" =>
                         (e.type \in Intermediate <=> inside # {})
                    /\ phase = "malformed" =>
                         /\ e.type \in {"DUPLICATE_KEYS", "FINAL"}
                         /\ e.type = "FINAL" <=> inside = {} /\ MemberNoted
                    /\ e.type = "OBJECT_MEMBER" => e.member = Last(named)
                    /\ e.type = "ARRAY_ELEMENT" => e.index = base + vec_count
    BY <2>13 DEF Fits
  <2>15. mine = {i \in DOMAIN Contents(Target) : Contents(Target)[i].call = call}
    BY <2>1, <2>2
  <2>. HIDE DEF Calls
  <2>16. QED
    BY <2>1, <2>11, <2>12, <2>14, <2>15 DEF TraceIsPath
<1>2. Init /\ ProgramKnown => PathKnown
  BY PathInit
<1>3. ProgramKnown /\ ProgramKnown' /\ PathKnown /\ [Next]_vars => PathKnown'
  BY PathStep
<1>4. QED
  BY <1>1, <1>2, <1>3, AlwaysKnown, PTL DEF Spec
=============================================================================
