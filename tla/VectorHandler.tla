---------------------------- MODULE VectorHandler ----------------------------
(***************************************************************************)
(* VectorBaseSAXEventHandler<ElementType, Derived> (array_types.hpp) with  *)
(* the derived handlers of std::vector, std::deque and std::array.  The    *)
(* handler receives SAX events, forwards those inside an element to the    *)
(* element's handler, and moves the element into the container as soon as  *)
(* its own stack of open containers says the element is complete.          *)
(*                                                                         *)
(* Element data is abstracted to its origin: the set of positions of the   *)
(* JSON elements whose events were written into it.  ElementType() is {}.  *)
(*                                                                         *)
(* check_depth() also guards Key and EndObject, where it cannot fail: the  *)
(* first event is never a Key, and EndObject pops above an outermost array *)
(* (StackMirrorsText).  Those two failures have no disjunct here.          *)
(***************************************************************************)
EXTENDS AbstractHandler

CONSTANTS
  N,          (* the size of the std::array                                *)
  MaxPrior    (* bound: elements a vector may hold before a parse          *)

ASSUME VectorAssumption ==
  /\ N \in Nat \ {0}
  /\ MaxPrior \in Nat

VARIABLES
  container,  (* the type: "vector" (or std::deque) or "array"             *)
  state,      (* the handler's stack of StartArray and StartObject         *)
  the_error,
  current,    (* the element being parsed                                  *)
  inner,      (* internal_handler, the handler of current                  *)
  value,      (* *m_value, the user's container                            *)
  index,      (* SAXEventHandler<std::array<T, N>>::index                  *)
  base        (* history: size of the container when this value began      *)

handlerVars == <<state, the_error, current, inner, value, index, base>>
vars == <<sourceVars, handlerVars, container, noted>>

Fixed == container = "array"

Blank == {}            (* a value initialised element                      *)
Prior == {-1}          (* an element the container held before the parse   *)

NoError == [type |-> "none", at |-> -1]
TypeMismatch == [type |-> "TYPE_MISMATCH", at |-> -1]
LengthMismatch(length) == [type |-> "ARRAY_LENGTH_MISMATCH", at |-> length]
ElementError(i) == [type |-> "ARRAY_ELEMENT", at |-> i]

Errors == [type : {"none", "TYPE_MISMATCH", "ARRAY_LENGTH_MISMATCH",
                   "ARRAY_ELEMENT"},
           at : Nat \cup {-1}]

-----------------------------------------------------------------------------
(* The member functions the Derived class supplies.                        *)

Push(element) ==
  \/ /\ Fixed
     /\ value' = [value EXCEPT ![index + 1] = element]
     /\ index' = (index + 1) % N
  \/ /\ ~Fixed
     /\ value' = Append(value, element)
     /\ UNCHANGED index

(* Mutant: std::array accepts short arrays.                                *)
CheckLength_AtMost(length) == Fixed => length <= N

CheckLength(length) == Fixed => length = N

(* Mutant: positions counted from 1.                                       *)
GetCurrentSize_FromOne == IF Fixed THEN index + 1 ELSE Len(value) + 1

GetCurrentSize == IF Fixed THEN index ELSE Len(value)

(* The contents of a container that is value initialised.                  *)
EmptyContainer == IF Fixed THEN [i \in 1..N |-> Blank] ELSE <<>>

-----------------------------------------------------------------------------
(* The private member functions; stack is what state is at the call.       *)

(* Mutant: the size of the stack is not tested.                            *)
Settled_AnyArray(stack) == stack # <<>> /\ Last(stack) = "array"

Settled(stack) == Len(stack) = 1 /\ Last(stack) = "array"

(* Mutant: the element's handler is not prepared for the next element.     *)
push_WithoutPrepare(stack, element, handler) ==
  \/ /\ Settled(stack)
     /\ Push(element)
     /\ current' = Blank
     /\ inner' = handler
  \/ /\ ~Settled(stack)
     /\ current' = element
     /\ inner' = handler
     /\ UNCHANGED <<value, index>>

push_when_time_is_right(stack, element, handler) ==
  \/ /\ Settled(stack)
     /\ Push(element)
     /\ current' = Blank
     /\ inner' = Fresh
  \/ /\ ~Settled(stack)
     /\ current' = element
     /\ inner' = handler
     /\ UNCHANGED <<value, index>>

(* current after an event of the JSON element at position count.           *)
Written == current \cup {count}

set_element_error == the_error' = ElementError(GetCurrentSize)

(* Mutant: the element's false is returned and nothing is recorded.        *)
RejectedByElement_Silently(e) ==
  /\ inner' = Feed(inner, e, FALSE)
  /\ current' = Written
  /\ UNCHANGED <<the_error, value, index>>

RejectedByElement(e) ==
  /\ inner' = Feed(inner, e, FALSE)
  /\ current' = Written
  /\ set_element_error
  /\ UNCHANGED <<value, index>>

checked_event_forwarding(e, ok, stack) ==
  \/ /\ ok
     /\ push_when_time_is_right(stack, Written, Feed(inner, e, TRUE))
     /\ UNCHANGED the_error
  \/ /\ ~ok
     /\ RejectedByElement(e)

(* check_depth() fails: the value is not an array.                         *)
RejectedByDepth(e) ==
  /\ state = <<>>
  /\ Emit(e, FALSE)
  /\ the_error' = TypeMismatch
  /\ UNCHANGED <<state, current, inner, value, index>>

-----------------------------------------------------------------------------
(* One action per SAX method.                                              *)

Init ==
  /\ SourceInit
  /\ container \in {"vector", "array"}
  /\ state = <<>>
  /\ the_error = NoError
  /\ current = Blank
  /\ inner = Fresh
  /\ noted = FALSE
  /\ index = 0
  /\ IF Fixed THEN value = [i \in 1..N |-> Prior]
              ELSE \E k \in 0..MaxPrior : value = [i \in 1..k |-> Prior]
  /\ base = Len(value)

Scalar ==
  /\ \/ RejectedByDepth("Scalar")
     \/ /\ state # <<>>
        /\ \E ok \in BOOLEAN : /\ Emit("Scalar", ok)
                               /\ checked_event_forwarding("Scalar", ok, state)
        /\ UNCHANGED state
  /\ UNCHANGED base

Key ==
  /\ state # <<>>
  /\ \E ok \in BOOLEAN : /\ Emit("Key", ok)
                         /\ checked_event_forwarding("Key", ok, state)
  /\ UNCHANGED <<state, base>>

StartArray ==
  /\ state' = Append(state, "array")
  /\ \/ /\ state = <<>>
        /\ Emit("StartArray", TRUE)
        /\ UNCHANGED <<the_error, current, inner, value, index>>
     \/ /\ state # <<>>
        /\ Emit("StartArray", TRUE)
        /\ inner' = Feed(inner, "StartArray", TRUE)
        /\ current' = Written
        /\ UNCHANGED <<the_error, value, index>>
     \/ /\ state # <<>>
        /\ Emit("StartArray", FALSE)
        /\ RejectedByElement("StartArray")
  /\ UNCHANGED base

EndArray ==
  /\ \/ /\ Len(state) > 1
        /\ Emit("EndArray", FALSE)
        /\ RejectedByElement("EndArray")
        /\ UNCHANGED state
     \/ /\ Settled(state) /\ ~CheckLength(count)
        /\ Emit("EndArray", FALSE)
        /\ the_error' = LengthMismatch(count)
        /\ UNCHANGED <<state, current, inner, value, index>>
     \/ /\ Settled(state) => CheckLength(count)
        /\ Emit("EndArray", TRUE)
        /\ state' = Front(state)
        /\ IF Len(state) > 1
           THEN push_when_time_is_right(Front(state), Written,
                                        Feed(inner, "EndArray", TRUE))
           ELSE push_when_time_is_right(Front(state), current, inner)
        /\ UNCHANGED the_error
  /\ UNCHANGED base

(* Mutant: the start of an object is not recorded.                         *)
StartObject_NoPush ==
  /\ \/ RejectedByDepth("StartObject")
     \/ /\ state # <<>>
        /\ \E ok \in BOOLEAN :
             /\ Emit("StartObject", ok)
             /\ checked_event_forwarding("StartObject", ok, state)
        /\ UNCHANGED state
  /\ UNCHANGED base

StartObject ==
  /\ \/ RejectedByDepth("StartObject")
     \/ /\ state # <<>>
        /\ state' = Append(state, "object")
        /\ \E ok \in BOOLEAN :
             /\ Emit("StartObject", ok)
             /\ checked_event_forwarding("StartObject", ok, state')
  /\ UNCHANGED base

EndObject ==
  /\ Len(state) > 1
  /\ state' = Front(state)
  /\ \E ok \in BOOLEAN :
       /\ Emit("EndObject", ok)
       /\ checked_event_forwarding("EndObject", ok, state')
  /\ UNCHANGED base

SyntaxError ==
  /\ Malformed
  /\ UNCHANGED handlerVars

(* An enclosing container takes the finished container away, resets it to  *)
(* ElementType() and calls PrepareForReuse().                              *)
PrepareForReuse ==
  /\ AnotherValue
  /\ the_error' = NoError
  /\ state' = <<>>
  /\ inner' = Fresh
  /\ value' = EmptyContainer
  /\ base' = Len(EmptyContainer)
  /\ UNCHANGED <<current, index>>

(* A class handler meets the key of this member once more: no reset.       *)
RepeatedMember ==
  /\ AnotherValue
  /\ Len(value) <= MaxPrior
  /\ base' = Len(value)
  /\ UNCHANGED <<state, the_error, current, inner, value, index>>

(* What internal_handler may note in a step.                               *)
PartNotes ==
  /\ noted' \in BOOLEAN
  /\ noted' => inner'.status = "busy"
  /\ ErrorProtocol(HasError(inner), HasError(inner)', inner'.status)

Next ==
  /\ \/ Scalar
     \/ Key
     \/ StartArray
     \/ EndArray
     \/ StartObject
     \/ EndObject
     \/ SyntaxError
     \/ PrepareForReuse
     \/ RepeatedMember
  /\ PartNotes
  /\ UNCHANGED container

Spec == Init /\ [][Next]_vars
-----------------------------------------------------------------------------

TypeOK ==
  /\ SourceTypeOK
  /\ container \in {"vector", "array"}
  /\ state \in Seq(Kinds)
  /\ the_error \in Errors
  /\ current \in SUBSET (Nat \cup {-1})
  /\ inner \in Handlers
  /\ noted \in BOOLEAN
  /\ value \in Seq(SUBSET (Nat \cup {-1}))
  /\ Fixed => Len(value) = N
  /\ index \in 0..N-1
  /\ base \in Nat

Alive == phase \in {"waiting", "reading", "done"}

(* The stack the handler keeps is the stack of containers the text has     *)
(* open.  On it rest the assertions in EndArray and EndObject, the choice  *)
(* of the moment to push, and that PrepareForReuse, which clears the       *)
(* stack, always finds it empty.                                           *)
StackMirrorsText == Alive => state = open

(* The element's handler sees the events of one element and nothing else:  *)
(* what it has open is what the text has open inside the outermost array,  *)
(* and it begins every element newly made or prepared.                     *)
ElementIsolated ==
  Alive => IF Len(open) > 1
           THEN /\ inner.fed = Tail(open)
                /\ inner.status = "busy"
                /\ current = {count}
           ELSE inner = Fresh /\ current = Blank

(* Each finished JSON element is in the container exactly once, in its     *)
(* place, made of its own events only, after what the container held       *)
(* before the parse.                                                       *)
VectorExact ==
  Alive /\ ~Fixed =>
    /\ Len(value) = base + count
    /\ \A i \in 1..count : value[base + i] = {i - 1}

(* std::array: index is never reset by PrepareForReuse, yet every value    *)
(* begins at slot 0, and an accepted value has filled each slot from the   *)
(* JSON element of that position.                                          *)
ArrayExact ==
  Fixed =>
    /\ Alive => index = count % N
    /\ phase = "waiting" => index = 0
    /\ phase = "done" => value = [i \in 1..N |-> {i - 1}]

(* The part of the inductive invariant that is about the source: where a   *)
(* value stands is where its containers stand, and the only container the  *)
(* handler lets begin at depth 0 is an array.                              *)
SourceConsistent ==
  /\ phase \in {"waiting", "done"} => open = <<>>
  /\ phase = "reading" => open # <<>>
  /\ phase = "waiting" => count = 0
  /\ Alive /\ open # <<>> => open[1] = "array"

(* What ReapError will push: there is an error exactly when the producer   *)
(* was stopped; then an ARRAY_ELEMENT link is followed by an error of the  *)
(* element's handler and any other error is the last of the trace.  An     *)
(* error the element has noted is not reported unless it stops the parse.  *)
TraceContinues ==
  /\ (the_error # NoError) = (phase = "terminated")
  /\ phase = "terminated" =>
       (the_error.type = "ARRAY_ELEMENT" <=> HasError(inner))
  /\ HasError(inner) => phase = "terminated" \/ Len(open) > 1

(* The index in an ARRAY_ELEMENT error is the position of the offending    *)
(* element: in the JSON array, plus what the vector held before the parse, *)
(* or modulo the size of a std::array, whose own position wraps.           *)
ErrorNamesElement ==
  the_error.type = "ARRAY_ELEMENT" =>
    the_error.at = IF Fixed THEN count % N ELSE base + count
=============================================================================
