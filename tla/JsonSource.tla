------------------------------ MODULE JsonSource ------------------------------
(***************************************************************************)
(* The producer of SAX events: rapidjson's Reader (from_json) or           *)
(* Document::Accept (from_document).  Neither is part of this repository;  *)
(* they are modelled from how the handlers are driven: a value is a scalar *)
(* event, or StartArray .. EndArray, or StartObject .. EndObject with a    *)
(* Key before every member, and the producer stops for good as soon as a   *)
(* handler method returns false.  A syntax error may cut the text off      *)
(* after any event.                                                        *)
(*                                                                         *)
(* The eight scalar events (Null, Bool, Int, Uint, Int64, Uint64, Double,  *)
(* String) are one event here: container handlers treat them alike.        *)
(***************************************************************************)
EXTENDS Integers, Sequences, SequencesExt

CONSTANTS
  MaxDepth,   (* bound: containers open at once                            *)
  MaxCount    (* bound: elements or members of the outermost container     *)

ASSUME BoundsAssumption == MaxDepth \in Nat /\ MaxCount \in Nat

VARIABLES
  open,       (* containers begun and not ended, outermost first           *)
  keyed,      (* a Key was read and its value has not begun                *)
  phase,      (* where the producer stands, see Phases                     *)
  count       (* elements or members of the outermost container completed  *)

sourceVars == <<open, keyed, phase, count>>

Kinds  == {"array", "object"}
Phases == {"waiting",     (* no event of the value yet                     *)
           "reading",     (* inside the value                              *)
           "done",        (* the value ended, every event accepted         *)
           "terminated",  (* a handler method returned false               *)
           "malformed"}   (* the text is not JSON                          *)

Starts == {"StartArray", "StartObject"}
Ends   == {"EndArray", "EndObject"}
Events == {"Scalar", "Key"} \cup Starts \cup Ends

KindOf(e) == IF e \in {"StartArray", "EndArray"} THEN "array" ELSE "object"

SourceTypeOK ==
  /\ open \in Seq(Kinds)
  /\ keyed \in BOOLEAN
  /\ phase \in Phases
  /\ count \in Nat

SourceInit ==
  /\ open = <<>>
  /\ keyed = FALSE
  /\ phase = "waiting"
  /\ count = 0

-----------------------------------------------------------------------------

(* A stack of open containers after event e has been seen.                 *)
After(stack, e) ==
  IF e \in Starts THEN Append(stack, KindOf(e))
  ELSE IF e \in Ends THEN Front(stack)
  ELSE stack

InArray  == open # <<>> /\ Last(open) = "array"
InObject == open # <<>> /\ Last(open) = "object"

(* The events the JSON grammar allows next.                                *)
ValueMayBegin ==
  \/ phase = "waiting"
  \/ /\ phase = "reading"
     /\ InArray \/ (InObject /\ keyed)
     /\ Len(open) = 1 => count < MaxCount

MayEmit(e) ==
  \/ e = "Scalar" /\ ValueMayBegin
  \/ e \in Starts /\ ValueMayBegin /\ Len(open) < MaxDepth
  \/ e = "EndArray" /\ phase = "reading" /\ InArray
  \/ e = "EndObject" /\ phase = "reading" /\ InObject /\ ~keyed
  \/ /\ e = "Key" /\ phase = "reading" /\ InObject /\ ~keyed
     /\ Len(open) = 1 => count < MaxCount

(* e ends an element or a member of the outermost container.               *)
ClosesElement(e) == e \in {"Scalar"} \cup Ends /\ Len(After(open, e)) = 1

(* The producer delivers e and the handler's method returns ok.            *)
Emit(e, ok) ==
  /\ MayEmit(e)
  /\ open' = After(open, e)
  /\ keyed' = (e = "Key")
  /\ count' = IF ok /\ ClosesElement(e) THEN count + 1 ELSE count
  /\ phase' = IF ~ok THEN "terminated"
              ELSE IF After(open, e) = <<>> THEN "done" ELSE "reading"

(* A syntax error, or garbage after the value, ends the parse.             *)
Malformed ==
  /\ phase \in {"waiting", "reading", "done"}
  /\ phase' = "malformed"
  /\ UNCHANGED <<open, keyed, count>>

(* The same handler is about to be given another value.                    *)
AnotherValue ==
  /\ phase = "done"
  /\ phase' = "waiting"
  /\ count' = 0
  /\ UNCHANGED <<open, keyed>>
=============================================================================
