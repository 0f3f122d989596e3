---------------------------- MODULE OptionalHandler ----------------------------
(***************************************************************************)
(* SAXEventHandler<boost::optional<T>> (boost_types.hpp), a handler of its *)
(* own: the value lives inside the optional, and the handler that fills it *)
(* is made together with it, when the first event of a value meets an      *)
(* empty optional.  What is "null" for a smart pointer is boost::none.     *)
(***************************************************************************)
EXTENDS AbstractHandler

VARIABLES
  m_value,           (* *m_value: "null" or "object"                       *)
  internal_handler,  (* boost::optional<SAXEventHandler<T>>                *)
  depth,
  fault,             (* an empty internal_handler was used                 *)
  preset,            (* history: the optional had a value at construction  *)
  text               (* history: the JSON value is null, or another        *)

handlerVars == <<m_value, internal_handler, depth, fault, preset, text>>
vars == <<sourceVars, handlerVars, noted>>

none == [fed |-> <<>>, status |-> "none"]

(* internal_handler after initialize().                                    *)
Initialized == IF m_value = "null" THEN Fresh ELSE internal_handler

(* An optional owns its value in place: its handler is the value's         *)
(* whenever both are there.                                                *)
InPlace == m_value = "object" /\ internal_handler # none

Began(kind) == text' = IF phase = "waiting" THEN kind ELSE text

(* initialize() and the call of internal_handler's method for e.           *)
Forwarded(e) ==
  \/ /\ Initialized = none
     /\ Emit(e, FALSE)
     /\ fault' = TRUE
     /\ UNCHANGED <<m_value, internal_handler>>
  \/ /\ Initialized # none
     /\ \E ok \in BOOLEAN :
          /\ Emit(e, ok)
          /\ internal_handler' = Feed(Initialized, e, ok)
     /\ m_value' = "object"
     /\ UNCHANGED fault

-----------------------------------------------------------------------------

(* The user's optional may have a value already.                           *)
Init ==
  /\ SourceInit
  /\ m_value \in {"null", "object"}
  /\ internal_handler = none
  /\ noted = FALSE
  /\ depth = 0
  /\ fault = FALSE
  /\ preset = (m_value = "object")
  /\ text = "none"

(* Mutant: null is the optional's at any depth.                            *)
Null_AnyDepth ==
  /\ Emit("Scalar", TRUE)
  /\ m_value' = "null"
  /\ UNCHANGED <<internal_handler, fault>>
  /\ Began("null")
  /\ UNCHANGED <<depth, preset>>

(* Outside any container null empties the optional; the handler is kept.   *)
Null ==
  /\ \/ /\ depth = 0
        /\ Emit("Scalar", TRUE)
        /\ m_value' = "null"
        /\ UNCHANGED <<internal_handler, fault>>
     \/ depth # 0 /\ Forwarded("Scalar")
  /\ Began("null")
  /\ UNCHANGED <<depth, preset>>

(* The other scalars and Key.                                              *)
Scalar ==
  /\ \E e \in {"Scalar", "Key"} : Forwarded(e)
  /\ Began("value")
  /\ UNCHANGED <<depth, preset>>

Start ==
  /\ \E e \in Starts : Forwarded(e)
  /\ depth' = depth + 1
  /\ Began("value")
  /\ UNCHANGED preset

End ==
  /\ \E e \in Ends : Forwarded(e)
  /\ depth' = depth - 1
  /\ UNCHANGED <<preset, text>>

SyntaxError ==
  /\ Malformed
  /\ UNCHANGED handlerVars

(* An enclosing container takes the optional away, leaves ElementType(),   *)
(* an empty optional, and prepares the handler.                            *)
PrepareForReuse ==
  /\ AnotherValue
  /\ m_value' = "null"
  /\ internal_handler' = none
  /\ depth' = 0
  /\ preset' = FALSE
  /\ text' = "none"
  /\ UNCHANGED fault

(* A class handler meets the key of this member once more: no reset.       *)
RepeatedMember ==
  /\ AnotherValue
  /\ text' = "none"
  /\ UNCHANGED <<m_value, internal_handler, depth, fault, preset>>

Event == Null \/ Scalar \/ Start \/ End

(* What internal_handler may note in a step.                               *)
PartNotes ==
  /\ noted' \in BOOLEAN
  /\ noted' => internal_handler'.status = "busy"
  /\ ErrorProtocol(HasError(internal_handler), HasError(internal_handler)',
                   internal_handler'.status)

Next ==
  /\ Event \/ SyntaxError \/ PrepareForReuse \/ RepeatedMember
  /\ PartNotes

Spec == Init /\ [][Next]_vars
-----------------------------------------------------------------------------

(* HasError()                                                              *)
Error == internal_handler # none /\ HasError(internal_handler)
=============================================================================
