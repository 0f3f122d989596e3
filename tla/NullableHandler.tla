---------------------------- MODULE NullableHandler ----------------------------
(***************************************************************************)
(* NullableBaseSAXEventHandler (nullable_types.hpp) with the handlers of   *)
(* std::shared_ptr and std::unique_ptr.  The pointee and its handler are   *)
(* made when the first event of a value meets a null pointer, and a JSON   *)
(* null outside any container makes the pointer null again.  A pointer     *)
(* that is not null is taken for one this handler has made.                *)
(***************************************************************************)
EXTENDS AbstractHandler

VARIABLES
  m_value,           (* *m_value, the user's smart pointer                 *)
  internal_handler,
  depth,
  current,           (* internal_handler fills the object *m_value owns    *)
  fault,             (* a null or dangling handler was called              *)
  preset,            (* history: the pointer was not null at construction  *)
  text               (* history: the JSON value is null, or another        *)

handlerVars ==
  <<m_value, internal_handler, depth, current, fault, preset, text>>
vars == <<sourceVars, handlerVars, noted>>

NoHandler == [fed |-> <<>>, status |-> "none"]

IsNull == m_value = "null"

(* internal_handler after initialize().                                    *)
Initialized == IF IsNull THEN Fresh ELSE internal_handler

Began(kind) == text' = IF phase = "waiting" THEN kind ELSE text

(* What follows the call through a null pointer is not modelled.           *)
NullDereferenced(e) ==
  /\ Initialized = NoHandler
  /\ Emit(e, FALSE)
  /\ fault' = TRUE
  /\ UNCHANGED <<m_value, internal_handler, current>>

(* Mutant: initialize() asks for a handler, not for an object, and keeps   *)
(* the one whose object a null has destroyed.                              *)
Forwarded_KeepsHandler(e) ==
  \E ok \in BOOLEAN :
    LET made == internal_handler = NoHandler
    IN  /\ Emit(e, ok)
        /\ internal_handler' = Feed(IF made THEN Fresh ELSE internal_handler, e, ok)
        /\ m_value' = IF made THEN "object" ELSE m_value
        /\ current' = (made \/ current)
        /\ fault' = (fault \/ ~current')

(* initialize() and the call of internal_handler's method for e.           *)
Forwarded(e) ==
  \/ NullDereferenced(e)
  \/ \E ok \in BOOLEAN :
       /\ Initialized # NoHandler
       /\ Emit(e, ok)
       /\ internal_handler' = Feed(Initialized, e, ok)
       /\ m_value' = "object"
       /\ current' = (IsNull \/ current)
       /\ fault' = (fault \/ ~current')

-----------------------------------------------------------------------------

(* The user's pointer may own an object already.                           *)
Init ==
  /\ SourceInit
  /\ m_value \in {"null", "object"}
  /\ internal_handler = NoHandler
  /\ noted = FALSE
  /\ depth = 0
  /\ current = FALSE
  /\ fault = FALSE
  /\ preset = (m_value = "object")
  /\ text = "none"

(* Mutant: null is the pointer's at any depth.                             *)
Null_AnyDepth ==
  /\ Emit("Scalar", TRUE)
  /\ m_value' = "null"
  /\ current' = FALSE
  /\ UNCHANGED <<internal_handler, fault>>
  /\ Began("null")
  /\ UNCHANGED <<depth, preset>>

(* Mutant: the pointer is set to null but the event is refused.            *)
Null_ReturnsFalse ==
  /\ \/ /\ depth = 0
        /\ Emit("Scalar", FALSE)
        /\ m_value' = "null"
        /\ current' = FALSE
        /\ UNCHANGED <<internal_handler, fault>>
     \/ depth # 0 /\ Forwarded("Scalar")
  /\ Began("null")
  /\ UNCHANGED <<depth, preset>>

(* SetNull() destroys the object; its handler is kept.                     *)
Null ==
  /\ \/ /\ depth = 0
        /\ Emit("Scalar", TRUE)
        /\ m_value' = "null"
        /\ current' = FALSE
        /\ UNCHANGED <<internal_handler, fault>>
     \/ depth # 0 /\ Forwarded("Scalar")
  /\ Began("null")
  /\ UNCHANGED <<depth, preset>>

(* The other scalars and Key.                                              *)
Scalar ==
  /\ \E e \in {"Scalar", "Key"} : Forwarded(e)
  /\ Began("value")
  /\ UNCHANGED <<depth, preset>>

(* StartObject and StartArray.                                             *)
Start ==
  /\ \E e \in Starts : Forwarded(e)
  /\ depth' = depth + 1
  /\ Began("value")
  /\ UNCHANGED preset

(* EndObject and EndArray.                                                 *)
End ==
  /\ \E e \in Ends : Forwarded(e)
  /\ depth' = depth - 1
  /\ UNCHANGED <<preset, text>>

SyntaxError ==
  /\ Malformed
  /\ UNCHANGED handlerVars

(* An enclosing container takes the pointer away, leaves ElementType(), a  *)
(* null pointer, and prepares the handler.                                 *)
PrepareForReuse ==
  /\ AnotherValue
  /\ m_value' = "null"
  /\ internal_handler' = NoHandler
  /\ depth' = 0
  /\ current' = FALSE
  /\ preset' = FALSE
  /\ text' = "none"
  /\ UNCHANGED fault

(* A class handler meets the key of this member once more: no reset.       *)
RepeatedMember ==
  /\ AnotherValue
  /\ text' = "none"
  /\ UNCHANGED <<m_value, internal_handler, depth, current, fault, preset>>

(* What internal_handler may note in a step.                               *)
PartNotes ==
  /\ noted' \in BOOLEAN
  /\ noted' => internal_handler'.status = "busy"
  /\ ErrorProtocol(HasError(internal_handler), HasError(internal_handler)',
                   internal_handler'.status)

Next ==
  /\ \/ Null
     \/ Scalar
     \/ Start
     \/ End
     \/ SyntaxError
     \/ PrepareForReuse
     \/ RepeatedMember
  /\ PartNotes

Spec == Init /\ [][Next]_vars
-----------------------------------------------------------------------------

TypeOK ==
  /\ SourceTypeOK
  /\ m_value \in {"null", "object"}
  /\ internal_handler \in Handlers \cup {NoHandler}
  /\ noted \in BOOLEAN
  /\ depth \in Nat
  /\ current \in BOOLEAN
  /\ fault \in BOOLEAN
  /\ preset \in BOOLEAN
  /\ text \in {"none", "null", "value"}

Alive == phase \in {"waiting", "reading", "done"}

(* initialize() makes sure that every event finds a handler, and the one   *)
(* of the object the pointer owns: a null or dangling handler is called    *)
(* only if the user's pointer was not null when the parse began.           *)
HandlerExists == fault => preset

(* null for the pointer itself is told from null inside the pointee: a     *)
(* JSON null leaves the pointer null and any other value leaves it owning  *)
(* an object that got exactly that value's events.                         *)
NullIsNull ==
  /\ phase = "done" /\ text = "null" => m_value = "null"
  /\ phase = "done" /\ text = "value" => m_value = "object"
  /\ Alive /\ text = "value" /\ ~fault =>
       /\ current
       /\ internal_handler.fed = open
       /\ internal_handler.status = IF phase = "done" THEN "complete" ELSE "busy"

(* HasError()                                                              *)
Error == internal_handler # NoHandler /\ HasError(internal_handler)

(* The pointer keeps the protocol it takes for granted of its pointee:     *)
(* behind a handler made late, kept after its object is gone, or dropped,  *)
(* a rejection leaves an error to reap, an error the pointee has noted is  *)
(* the pointer's until the parse ends, and no accepted value leaves one.   *)
KeepsErrorProtocol == [][~fault' => ErrorProtocol(Error, Error', AsPart')]_vars
=============================================================================
