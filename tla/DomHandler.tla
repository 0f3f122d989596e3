------------------------------ MODULE DomHandler ------------------------------
(***************************************************************************)
(* SAXEventHandler<rapidjson::Document> (dom.hpp) builds a DOM value from  *)
(* SAX events with a stack of unfinished values above the document.  A key *)
(* waits on the stack as a string, with a placeholder for its value above  *)
(* it; a value that ends is moved into the array or object below.          *)
(*                                                                         *)
(* A DOM value is its type and its contents, kept as the text they         *)
(* serialise to.  A scalar's text is its position in the JSON text, so     *)
(* that no two are alike.                                                  *)
(***************************************************************************)
EXTENDS JsonSource

CONSTANTS
  MaxText,    (* bound: events of one JSON value                           *)
  MaxHeld     (* bound: events of a document that is parsed into again     *)

ASSUME TextAssumption == MaxText \in Nat /\ MaxHeld \in Nat

VARIABLES
  working_stack,
  the_error,
  doc,               (* the user's document                                *)
  log,               (* history: the text of this JSON value so far        *)
  base               (* history: the document when the value began         *)

handlerVars == <<working_stack, the_error, doc, log, base>>
vars == <<sourceVars, handlerVars>>

(* Brackets and what the document held before have the position 0.         *)
Mark(k) == <<k, 0>>
Tokens == {Mark(k) : k \in {"[", "]", "{", "}", "old"}}
              \cup {"scalar", "string", "key"} \X (0..MaxText)

Types == {"null", "scalar", "string", "array", "object"}
DomValues == [type : Types, body : Seq(Tokens)]

EmptyValue(type) == [type |-> type, body |-> <<>>]
Placeholder == EmptyValue("null")          (* value_type()                 *)
Leaf(type, token) == [type |-> type, body |-> <<token>>]

(* The opening bracket of a value, and all of its text.                    *)
Opened(v) ==
  IF v.type = "array" THEN <<Mark("[")>> \o v.body
  ELSE IF v.type = "object" THEN <<Mark("{")>> \o v.body
  ELSE v.body

Text(v) ==
  IF v.type = "array" THEN Opened(v) \o <<Mark("]")>>
  ELSE IF v.type = "object" THEN Opened(v) \o <<Mark("}")>>
  ELSE v.body

-----------------------------------------------------------------------------
(* The document and the stack above it, as one sequence: top_value() is    *)
(* its last element.                                                       *)

AllValues == <<doc>> \o working_stack
top_value(vs) == Last(vs)
SetTop(vs, v) == Append(Front(vs), v)
Extended(v, text) == [v EXCEPT !.body = @ \o text]

(* Mutant: an element is written over the array it belongs to.             *)
pre_processing_None(vs) == vs

pre_processing(vs) ==
  IF top_value(vs).type = "array" THEN Append(vs, Placeholder) ELSE vs

Corrupted == [ok |-> FALSE, vs |-> <<>>]
Built(vs) == [ok |-> TRUE, vs |-> vs]

(* What post_processing() makes of the document and the stack.             *)
AddMember(vs, key, v) ==
  IF top_value(vs).type = "object"
  THEN Built(SetTop(vs, Extended(top_value(vs), Text(key) \o Text(v))))
  ELSE Corrupted

(* Mutant: a string element of an array is taken for a key.                *)
post_processing_AnyString(vs) ==
  IF Len(vs) = 1 THEN Built(vs)
  ELSE LET v == Last(vs)  rest == Front(vs)
       IN  IF Len(rest) > 1 /\ v.type = "string"
           THEN AddMember(Front(rest), Last(rest), v)
           ELSE IF top_value(rest).type = "array"
           THEN Built(SetTop(rest, Extended(top_value(rest), Text(v))))
           ELSE Corrupted

post_processing(vs) ==
  IF Len(vs) = 1 THEN Built(vs)
  ELSE LET v == Last(vs)  rest == Front(vs)
       IN  IF Len(rest) > 1 /\ top_value(rest).type = "string"
           THEN AddMember(Front(rest), Last(rest), v)
           ELSE IF top_value(rest).type = "array"
           THEN Built(SetTop(rest, Extended(top_value(rest), Text(v))))
           ELSE Corrupted

(* The stack and the document after an event, whose text is token.         *)
Becomes(e, token, result) ==
  /\ Len(log) < MaxText
  /\ Emit(e, result.ok)
  /\ log' = Append(log, token)
  /\ UNCHANGED base
  /\ \/ /\ result.ok
        /\ doc' = Head(result.vs)
        /\ working_stack' = Tail(result.vs)
        /\ UNCHANGED the_error
     \/ /\ ~result.ok
        /\ the_error' = "CORRUPTED_DOM"
        /\ UNCHANGED <<doc, working_stack>>

-----------------------------------------------------------------------------
(* One action per kind of SAX method.                                      *)

(* The document is new, or holds a value already.                          *)
Init ==
  /\ SourceInit
  /\ working_stack = <<>>
  /\ the_error = "none"
  /\ doc \in {Placeholder} \cup {[type |-> t, body |-> <<Mark("old")>>] : t \in Types}
  /\ log = <<>>
  /\ base = doc

(* Null, Bool, Int ... Double.                                             *)
Scalar ==
  LET token == <<"scalar", Len(log)>>
  IN  Becomes("Scalar", token,
        post_processing(SetTop(pre_processing(AllValues), Leaf("scalar", token))))

String ==
  LET token == <<"string", Len(log)>>
  IN  Becomes("Scalar", token,
        post_processing(SetTop(pre_processing(AllValues), Leaf("string", token))))

Key ==
  LET token == <<"key", Len(log)>>
  IN  Becomes("Key", token,
        IF top_value(AllValues).type = "object"
        THEN Built(AllValues \o <<Leaf("string", token), Placeholder>>)
        ELSE Corrupted)

StartArray ==
  Becomes("StartArray", Mark("["),
    Built(SetTop(pre_processing(AllValues), EmptyValue("array"))))

EndArray == Becomes("EndArray", Mark("]"), post_processing(AllValues))

StartObject ==
  Becomes("StartObject", Mark("{"),
    Built(SetTop(pre_processing(AllValues), EmptyValue("object"))))

(* Mutant: the object stays on the stack.                                  *)
EndObject_Kept == Becomes("EndObject", Mark("}"), Built(AllValues))

EndObject == Becomes("EndObject", Mark("}"), post_processing(AllValues))

SyntaxError ==
  /\ Malformed
  /\ UNCHANGED handlerVars

(* An enclosing container takes the document, leaves a new one and         *)
(* prepares the handler.                                                   *)
PrepareForReuse ==
  /\ AnotherValue
  /\ doc' = Placeholder
  /\ base' = Placeholder
  /\ working_stack' = <<>>
  /\ the_error' = "none"
  /\ log' = <<>>

(* A class handler meets the key of this member once more, or the user     *)
(* parses into a document that holds a value: no reset.                    *)
RepeatedMember ==
  /\ AnotherValue
  /\ Len(Text(doc)) <= MaxHeld
  /\ base' = doc
  /\ log' = <<>>
  /\ UNCHANGED <<working_stack, the_error, doc>>

Next ==
  \/ Scalar
  \/ String
  \/ Key
  \/ StartArray
  \/ EndArray
  \/ StartObject
  \/ EndObject
  \/ SyntaxError
  \/ PrepareForReuse
  \/ RepeatedMember

Spec == Init /\ [][Next]_vars
-----------------------------------------------------------------------------

TypeOK ==
  /\ SourceTypeOK
  /\ working_stack \in Seq(DomValues)
  /\ the_error \in {"none", "CORRUPTED_DOM"}
  /\ doc \in DomValues
  /\ log \in Seq(Tokens)
  /\ base \in DomValues

Alive == phase \in {"waiting", "reading", "done"}

(* What a value read now is appended to: a document that is an array       *)
(* already is not replaced but extended.                                   *)
Before == IF base.type = "array" THEN Opened(base) ELSE <<>>
Behind == IF base.type = "array" THEN <<Mark("]")>> ELSE <<>>

(* The document is the text: while it is read, what the document and the   *)
(* stack hold is the text so far, nothing lost, reordered or read twice,   *)
(* and when it ends the document serialises to it.                         *)
DocumentIsText ==
  /\ phase = "reading" =>
       Before \o log = FlattenSeq([i \in DOMAIN AllValues |-> Opened(AllValues[i])])
  /\ phase = "done" => Text(doc) = Before \o log \o Behind

(* The checks of post_processing() and Key() for a corrupted DOM never     *)
(* fail: strings that are keys are never confused with strings that are    *)
(* values.                                                                 *)
NeverCorrupted == the_error = "none"

(* Between values the stack is empty, which PrepareForReuse(), where it is *)
(* cleared, relies on (NodeStack, AssertProtects).                         *)
EmptyBetweenValues == phase \in {"waiting", "done"} => working_stack = <<>>
=============================================================================
