----------------------------- MODULE BasicHandlers -----------------------------
(***************************************************************************)
(* The handlers of the types that are one JSON scalar (base.hpp): null,    *)
(* bool, char, int, unsigned, int64_t, uint64_t, double and string.  The   *)
(* source chooses the event of a number by its sign and size, or by the    *)
(* flags of a DOM value, so every integer event reaches every integer type *)
(* and must be narrowed without changing the number.                       *)
(*                                                                         *)
(* Machine integers are given by half of their number of values: HalfInt   *)
(* is 2^31 for the 32 bit int, HalfInt64 is 2^63.  A string, a bool and a  *)
(* Double are a number too: only where they are stored matters.            *)
(***************************************************************************)
EXTENDS Integers

CONSTANTS
  HalfInt,
  HalfInt64,
  Threshold     (* 2^53, the integers up to it are exact in a double       *)

ASSUME WidthAssumption ==
  /\ HalfInt \in Nat \ {0}
  /\ HalfInt64 \in Nat
  /\ Threshold \in Nat
  /\ 2 * HalfInt <= Threshold
  /\ Threshold < HalfInt64

VARIABLES
  target,       (* the type of *m_value                                    *)
  m_value,
  scalar_error, (* the_error                                               *)
  event         (* history: the last event                                 *)

scalarVars == <<target, m_value, scalar_error, event>>

Signed(half) == -half .. half - 1
Unsigned(half) == 0 .. 2 * half - 1

IntMax == HalfInt - 1
IntMin == -HalfInt
UintMax == 2 * HalfInt - 1
Int64Max == HalfInt64 - 1

(* static_cast to a signed and to an unsigned type, and to double: beyond  *)
(* the threshold the lowest bit is lost.                                   *)
ToSigned(n, half) == ((n + half) % (2 * half)) - half
ToUnsigned(n, half) == n % (2 * half)
ToDouble(n) == IF n \in -Threshold .. Threshold THEN n ELSE 2 * (n \div 2)

IntegerEvents == {"Int", "Uint", "Int64", "Uint64"}

Payload ==
  [Int  |-> Signed(HalfInt),   Int64  |-> Signed(HalfInt64),
   Uint |-> Unsigned(HalfInt), Uint64 |-> Unsigned(HalfInt64),
   Bool |-> {0, 1}, Double |-> {1}, String |-> {1}, Null |-> {0},
   Structure |-> {0}]

(* "Structure" is any of the events of objects and arrays.                 *)
EventTypes == DOMAIN Payload

NoEvent == [type |-> "none", v |-> 0]

Targets == {"null", "bool", "char", "int", "unsigned", "int64_t", "uint64_t",
            "double", "string"}

ScalarErrors == {"none", "TYPE_MISMATCH", "NUMBER_OUT_OF_RANGE"}

-----------------------------------------------------------------------------

store(n) == m_value' = n /\ scalar_error' = "none"

set_out_of_range == scalar_error' = "NUMBER_OUT_OF_RANGE" /\ UNCHANGED m_value

(* BaseSAXEventHandler's own methods, which the type has not hidden.       *)
set_type_mismatch == scalar_error' = "TYPE_MISMATCH" /\ UNCHANGED m_value

(* The number is stored, converted, if it is in range.                     *)
checked(inRange, converted) ==
  \/ inRange /\ store(converted)
  \/ ~inRange /\ set_out_of_range

handler_int(type, i) ==
  \/ type = "Int"    /\ store(i)
  \/ type = "Uint"   /\ checked(~(i > IntMax), ToSigned(i, HalfInt))
  \/ type = "Int64"  /\ checked(~(i > IntMax \/ i < IntMin), ToSigned(i, HalfInt))
  \/ type = "Uint64" /\ checked(~(i > IntMax), ToSigned(i, HalfInt))
  \/ type \notin IntegerEvents /\ set_type_mismatch

handler_unsigned(type, i) ==
  \/ type = "Int"    /\ checked(~(i < 0), ToUnsigned(i, HalfInt))
  \/ type = "Uint"   /\ store(i)
  \/ type = "Int64"  /\ checked(~(i < 0 \/ i > UintMax), ToUnsigned(i, HalfInt))
  \/ type = "Uint64" /\ checked(~(i > UintMax), ToUnsigned(i, HalfInt))
  \/ type \notin IntegerEvents /\ set_type_mismatch

handler_int64_t(type, i) ==
  \/ type \in {"Int", "Uint", "Int64"} /\ store(i)
  \/ type = "Uint64" /\ checked(~(i > Int64Max), ToSigned(i, HalfInt64))
  \/ type \notin IntegerEvents /\ set_type_mismatch

(* Mutant: Int64 is not checked for its sign.                              *)
handler_uint64_t_Unchecked(type, i) ==
  \/ type = "Int" /\ checked(~(i < 0), ToUnsigned(i, HalfInt64))
  \/ type = "Int64" /\ store(ToUnsigned(i, HalfInt64))
  \/ type \in {"Uint", "Uint64"} /\ store(i)
  \/ type \notin IntegerEvents /\ set_type_mismatch

handler_uint64_t(type, i) ==
  \/ type \in {"Int", "Int64"} /\ checked(~(i < 0), ToUnsigned(i, HalfInt64))
  \/ type \in {"Uint", "Uint64"} /\ store(i)
  \/ type \notin IntegerEvents /\ set_type_mismatch

(* Mutant: the threshold itself is refused.                                *)
handler_double_Strict(type, i) ==
  \/ type \in {"Int", "Uint", "Double"} /\ store(i)
  \/ type = "Int64"  /\ checked(i < Threshold /\ i > -Threshold, ToDouble(i))
  \/ type = "Uint64" /\ checked(i < Threshold, ToDouble(i))
  \/ type \notin IntegerEvents \cup {"Double"} /\ set_type_mismatch

handler_double(type, i) ==
  \/ type \in {"Int", "Uint", "Double"} /\ store(i)
  \/ type = "Int64"
     /\ checked(~(i > Threshold \/ i < -Threshold), ToDouble(i))
  \/ type = "Uint64" /\ checked(~(i > Threshold), ToDouble(i))
  \/ type \notin IntegerEvents \cup {"Double"} /\ set_type_mismatch

(* nullptr_t, bool, char and string accept one event.                      *)
OwnEvent == [null |-> "Null", bool |-> "Bool", char |-> "Bool", string |-> "String"]

handler_plain(type, v) ==
  \/ type = OwnEvent[target] /\ store(v)
  \/ type # OwnEvent[target] /\ set_type_mismatch

-----------------------------------------------------------------------------

ScalarInit ==
  /\ target \in Targets
  /\ m_value = 0
  /\ scalar_error = "none"
  /\ event = NoEvent

(* The source stops after the first event a handler refuses.               *)
Handle(type, v) ==
  /\ scalar_error = "none"
  /\ \/ target = "int"      /\ handler_int(type, v)
     \/ target = "unsigned" /\ handler_unsigned(type, v)
     \/ target = "int64_t"  /\ handler_int64_t(type, v)
     \/ target = "uint64_t" /\ handler_uint64_t(type, v)
     \/ target = "double"   /\ handler_double(type, v)
     \/ target \in DOMAIN OwnEvent /\ handler_plain(type, v)
  /\ event' = [type |-> type, v |-> v]
  /\ UNCHANGED target

(* An enclosing container takes the value, puts ElementType() in its place *)
(* and prepares the handler, which resets scalar_error.                       *)
ScalarPrepareForReuse ==
  /\ scalar_error = "none"
  /\ event # NoEvent
  /\ m_value' = 0
  /\ event' = NoEvent
  /\ UNCHANGED <<target, scalar_error>>

ScalarNext ==
  \/ ScalarPrepareForReuse
  \/ \E type \in EventTypes : \E v \in Payload[type] : Handle(type, v)

ScalarSpec == ScalarInit /\ [][ScalarNext]_scalarVars
-----------------------------------------------------------------------------

(* The integers a type can hold; for double those this library takes.      *)
Representable ==
  [int      |-> Signed(HalfInt),
   unsigned |-> Unsigned(HalfInt),
   int64_t  |-> Signed(HalfInt64),
   uint64_t |-> Unsigned(HalfInt64),
   double   |-> -Threshold .. Threshold]

(* *m_value is always a value of its type.                                 *)
ScalarTypeOK ==
  /\ target \in Targets
  /\ m_value \in IF target \in DOMAIN Representable THEN Representable[target]
                ELSE {0, 1}
  /\ scalar_error \in ScalarErrors
  /\ event.type \in EventTypes \cup {"none"}
  /\ event.v \in Int

(* What was accepted is stored as the same number, whatever event brought  *)
(* it and however it was narrowed.                                         *)
Exact == scalar_error = "none" => m_value = event.v

(* A number is refused for its size exactly when the type cannot hold it.  *)
RangeErrorIsReal ==
  event.type \in IntegerEvents /\ target \in DOMAIN Representable =>
    (scalar_error = "NUMBER_OUT_OF_RANGE" <=> event.v \notin Representable[target])

(* A refused event leaves the user's value as it was.                      *)
RefusalKeepsValue == [][scalar_error' # "none" => m_value' = m_value]_scalarVars
=============================================================================
