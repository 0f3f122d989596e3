------------------------------ MODULE MapHandler ------------------------------
(***************************************************************************)
(* MapBaseSAXEventHandler<ElementType, Derived> (map_types.hpp) with the   *)
(* derived handlers of std::map and std::unordered_map.  Like the vector's *)
(* handler it keeps its own stack of open containers to know when a member *)
(* is complete; it then emplaces the member under the last key read, and   *)
(* an emplacement that does not insert is a duplicate key.                 *)
(*                                                                         *)
(* Element data is abstracted to its origin, as in VectorHandler.          *)
(***************************************************************************)
EXTENDS AbstractHandler

CONSTANTS
  Keys,       (* the keys of the outermost object                          *)
  NoKey       (* std::string(), the key before any is read                 *)

ASSUME KeysAssumption == NoKey \notin Keys

VARIABLES
  state,      (* the handler's stack of StartArray and StartObject         *)
  the_error,
  key,
  value,      (* the element being parsed                                  *)
  inner,      (* internal_handler, the handler of value                    *)
  m_value,    (* *m_value, the user's map                                  *)
  base,       (* history: the map when this JSON value began               *)
  names       (* history: the keys of the outermost object read so far     *)

handlerVars == <<state, the_error, key, value, inner, m_value, base, names>>
vars == <<sourceVars, handlerVars, noted>>

Blank == {}            (* a value initialised element                      *)
Prior == {-1}          (* an element the map held before the parse         *)
Origins == SUBSET (Nat \cup {-1})

EmptyMap == <<>>

NoError == [type |-> "none", key |-> NoKey]
TypeMismatch == [type |-> "TYPE_MISMATCH", key |-> NoKey]
DuplicateKeys == [type |-> "DUPLICATE_KEYS", key |-> key]
ObjectMember == [type |-> "OBJECT_MEMBER", key |-> key]

Errors == [type : {"none", "TYPE_MISMATCH", "DUPLICATE_KEYS", "OBJECT_MEMBER"},
           key : Keys \cup {NoKey}]

-----------------------------------------------------------------------------
(* The private member functions; stack is what state is at the call.       *)

(* insert(make_pair(key, element)).second for the two results.             *)
Emplaced(element) ==
  /\ key \notin DOMAIN m_value
  /\ m_value' = [k \in DOMAIN m_value \cup {key} |->
                   IF k = key THEN element ELSE m_value[k]]

NotEmplaced == key \in DOMAIN m_value /\ UNCHANGED m_value

Settled(stack) == Len(stack) = 1 /\ Last(stack) = "object"

(* value after an event of the member at position count.                   *)
Written == value \cup {count}

(* Mutant: the element's handler is not prepared for the next member.      *)
StoreMember_WithoutPrepare(e) ==
  /\ Emplaced(Written)
  /\ Emit(e, TRUE)
  /\ value' = Blank
  /\ inner' = Feed(inner, e, TRUE)
  /\ UNCHANGED the_error

StoreMember(e) ==
  /\ Emplaced(Written)
  /\ Emit(e, TRUE)
  /\ value' = Blank
  /\ inner' = Fresh
  /\ UNCHANGED the_error

(* Mutant: the result of Emplace is not looked at.                         *)
RefuseDuplicate_Ignored(e) ==
  /\ NotEmplaced
  /\ Emit(e, TRUE)
  /\ value' = Blank
  /\ inner' = Fresh
  /\ UNCHANGED the_error

RefuseDuplicate(e) ==
  /\ NotEmplaced
  /\ Emit(e, FALSE)
  /\ value' = Written
  /\ inner' = Feed(inner, e, TRUE)
  /\ the_error' = DuplicateKeys

ContinueMember(e) ==
  /\ Emit(e, TRUE)
  /\ value' = Written
  /\ inner' = Feed(inner, e, TRUE)
  /\ UNCHANGED <<the_error, m_value>>

(* The element's handler has accepted event e.                             *)
emplace_when_time_is_right(e, stack) ==
  \/ Settled(stack) /\ StoreMember(e)
  \/ Settled(stack) /\ RefuseDuplicate(e)
  \/ ~Settled(stack) /\ ContinueMember(e)

(* Mutant: a rejection overwrites nothing.                                 *)
set_member_error_Silent == UNCHANGED the_error

set_member_error == the_error' = ObjectMember

checked_event_forwarding(e, stack) ==
  \/ emplace_when_time_is_right(e, stack)
  \/ /\ Emit(e, FALSE)
     /\ inner' = Feed(inner, e, FALSE)
     /\ value' = Written
     /\ set_member_error
     /\ UNCHANGED m_value

(* check_depth() fails: the value is not an object.                        *)
RejectedByDepth(e) ==
  /\ state = <<>>
  /\ Emit(e, FALSE)
  /\ the_error' = TypeMismatch
  /\ UNCHANGED <<state, value, inner, m_value>>

-----------------------------------------------------------------------------
(* One action per SAX method.                                              *)

(* The map may be empty or already hold any of the keys.                   *)
Init ==
  /\ SourceInit
  /\ state = <<>>
  /\ the_error = NoError
  /\ key = NoKey
  /\ value = Blank
  /\ inner = Fresh
  /\ noted = FALSE
  /\ \E held \in SUBSET Keys : m_value = [k \in held |-> Prior]
  /\ base = m_value
  /\ names = <<>>

Scalar ==
  /\ \/ RejectedByDepth("Scalar")
     \/ /\ state # <<>>
        /\ checked_event_forwarding("Scalar", state)
        /\ UNCHANGED state
  /\ UNCHANGED <<key, base, names>>

(* Mutant: the key of a nested object is taken for the member's.           *)
Key_AnyDepth ==
  /\ \E k \in Keys : key' = k /\ names' = IF Len(open) = 1 THEN Append(names, k)
                                                           ELSE names
  /\ \/ /\ Len(state) > 1
        /\ checked_event_forwarding("Key", state)
     \/ /\ Len(state) <= 1
        /\ Emit("Key", TRUE)
        /\ UNCHANGED <<the_error, value, inner, m_value>>
  /\ UNCHANGED <<state, base>>

Key ==
  /\ \/ /\ Len(state) > 1
        /\ checked_event_forwarding("Key", state)
        /\ UNCHANGED <<key, names>>
     \/ /\ Len(state) <= 1
        /\ Emit("Key", TRUE)
        /\ \E k \in Keys : key' = k /\ names' = Append(names, k)
        /\ UNCHANGED <<the_error, value, inner, m_value>>
  /\ UNCHANGED <<state, base>>

(* Mutant: the start of an array is not recorded.                          *)
StartArray_NoPush ==
  /\ \/ RejectedByDepth("StartArray")
     \/ /\ state # <<>>
        /\ checked_event_forwarding("StartArray", state)
        /\ UNCHANGED state
  /\ UNCHANGED <<key, base, names>>

StartArray ==
  /\ \/ RejectedByDepth("StartArray")
     \/ /\ state # <<>>
        /\ state' = Append(state, "array")
        /\ checked_event_forwarding("StartArray", state')
  /\ UNCHANGED <<key, base, names>>

EndArray ==
  /\ Len(state) > 1
  /\ state' = Front(state)
  /\ checked_event_forwarding("EndArray", state')
  /\ UNCHANGED <<key, base, names>>

StartObject ==
  /\ state' = Append(state, "object")
  /\ \/ /\ state # <<>>
        /\ checked_event_forwarding("StartObject", state')
     \/ /\ state = <<>>
        /\ Emit("StartObject", TRUE)
        /\ UNCHANGED <<the_error, value, inner, m_value>>
  /\ UNCHANGED <<key, base, names>>

EndObject ==
  /\ state # <<>>
  /\ state' = Front(state)
  /\ \/ /\ state' # <<>>
        /\ checked_event_forwarding("EndObject", state')
     \/ /\ state' = <<>>
        /\ Emit("EndObject", TRUE)
        /\ UNCHANGED <<the_error, value, inner, m_value>>
  /\ UNCHANGED <<key, base, names>>

SyntaxError ==
  /\ Malformed
  /\ UNCHANGED handlerVars

(* An enclosing container takes the finished map away, resets it to        *)
(* ElementType() and calls PrepareForReuse().                              *)
PrepareForReuse ==
  /\ AnotherValue
  /\ the_error' = NoError
  /\ state' = <<>>
  /\ inner' = Fresh
  /\ m_value' = EmptyMap
  /\ base' = EmptyMap
  /\ names' = <<>>
  /\ UNCHANGED <<key, value>>

(* A class handler meets the key of this member once more: no reset.       *)
RepeatedMember ==
  /\ AnotherValue
  /\ base' = m_value
  /\ names' = <<>>
  /\ UNCHANGED <<state, the_error, key, value, inner, m_value>>

(* What internal_handler may note in a step.                               *)
PartNotes ==
  /\ noted' \in BOOLEAN
  /\ noted' => inner'.status = "busy"
  /\ ErrorProtocol(HasError(inner), HasError(inner)', inner'.status)

Next ==
  /\ \/ Scalar
     \/ Key
     \/ StartArray
     \/ EndArray
     \/ StartObject
     \/ EndObject
     \/ SyntaxError
     \/ PrepareForReuse
     \/ RepeatedMember
  /\ PartNotes

Spec == Init /\ [][Next]_vars
-----------------------------------------------------------------------------

TypeOK ==
  /\ SourceTypeOK
  /\ state \in Seq(Kinds)
  /\ the_error \in Errors
  /\ key \in Keys \cup {NoKey}
  /\ value \in Origins
  /\ inner \in Handlers
  /\ noted \in BOOLEAN
  /\ \E S \in SUBSET Keys : m_value \in [S -> Origins]
  /\ \E S \in SUBSET Keys : base \in [S -> Origins]
  /\ names \in Seq(Keys)

Alive == phase \in {"waiting", "reading", "done"}

(* The stack the handler keeps is the stack of containers the text has     *)
(* open; on it rest the assertions in EndArray and EndObject and the       *)
(* choice of the moment to emplace.                                        *)
StackMirrorsText == Alive => state = open

(* The element's handler sees the events of one member's value and nothing *)
(* else, and begins every value newly made or prepared.                    *)
ElementIsolated ==
  Alive => IF Len(open) > 1
           THEN /\ inner.fed = Tail(open)
                /\ inner.status = "busy"
                /\ value = {count}
           ELSE inner = Fresh /\ value = Blank

(* An object is accepted only if its keys are new and distinct, and each   *)
(* finished member is in the map under the key that precedes it in the     *)
(* text, made of its own events; what the map held before is untouched.    *)
MapExact ==
  Alive =>
    /\ DOMAIN m_value = DOMAIN base \cup {names[i] : i \in 1..count}
    /\ \A k \in DOMAIN base : m_value[k] = base[k]
    /\ \A i \in 1..count : m_value[names[i]] = {i - 1}

(* There is an error exactly when the producer was stopped.  The key it    *)
(* names is the key of the member it happened in, an OBJECT_MEMBER link is *)
(* followed by an error of the element's handler and any other error is    *)
(* the last of the trace.  An error the element has noted is not reported  *)
(* unless it stops the parse.                                              *)
TraceContinues ==
  /\ (the_error # NoError) = (phase = "terminated")
  /\ phase = "terminated" =>
       (the_error.type = "OBJECT_MEMBER" <=> HasError(inner))
  /\ HasError(inner) => phase = "terminated" \/ Len(open) > 1
  /\ the_error.key # NoKey => the_error.key = names[count + 1]

(* A DUPLICATE_KEYS error names a key that stands twice in the object      *)
(* being parsed, or that the map held when this object began: a repeated   *)
(* member's earlier keys count as duplicates.                              *)
DuplicateIsReal ==
  the_error.type = "DUPLICATE_KEYS" =>
    \/ the_error.key \in DOMAIN base
    \/ \E i \in 1..count : names[i] = the_error.key
=============================================================================
