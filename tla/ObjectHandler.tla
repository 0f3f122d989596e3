---------------------------- MODULE ObjectHandler ----------------------------
(***************************************************************************)
(* The handler autojsoncxx.py generates for a class definition: the text   *)
(* of code_template with its comments replaced by HelperClassCodeGenerator.*)
(* It counts open objects, keeps the member the last key of depth 1 named, *)
(* and forwards every other event to that member's handler.  Duplicates    *)
(* are noted at the key, but reported at the end of the object.            *)
(***************************************************************************)
EXTENDS AbstractHandler, FiniteSets

CONSTANTS
  Members,      (* the members of the class                                *)
  Required,     (* those with "required": true                             *)
  Unknown       (* a key that names no member; also state -1               *)

ASSUME ClassAssumption ==
  /\ IsFiniteSet(Members)
  /\ Required \subseteq Members
  /\ Unknown \notin Members

VARIABLES
  options,      (* of the class definition, see Options                     *)
  state,        (* the member the events belong to, Unknown for -1         *)
  depth,
  the_error,
  has,          (* the has_<member> flags                                  *)
  handlers,     (* handler_0, handler_1, ...                               *)
  named,        (* history: the keys of the object at hand, in order       *)
  earlier,      (* history: the members of earlier objects the handler was  *)
                (* given without being prepared                             *)
  fedBy         (* history: the positions in the object at hand whose      *)
                (* events reached each member's handler                    *)

handlerVars == <<state, depth, the_error, has, handlers, named, fedBy>>
vars == <<sourceVars, handlerVars, options, earlier, noted>>

(* "no_duplicates": true and "parse_mode": "strict".                       *)
Options == {"no_duplicates", "strict"}
NoDuplicates == "no_duplicates" \in options
Strict == "strict" \in options

Flagged == IF NoDuplicates THEN Members ELSE Required

NoFlags == [m \in Flagged |-> FALSE]
AllFresh == [m \in Members |-> Fresh]
NeverFed == [m \in Members |-> {}]

NoError == [type |-> "none", members |-> {}]
TypeMismatch == [type |-> "TYPE_MISMATCH", members |-> {}]
UnknownField == [type |-> "UNKNOWN_FIELD", members |-> {}]
DuplicateKeys(m) == [type |-> "DUPLICATE_KEYS", members |-> {m}]
ObjectMember(m) == [type |-> "OBJECT_MEMBER", members |-> {m}]
MissingRequired(missing) == [type |-> "MISSING_REQUIRED", members |-> missing]

Errors == [type : {"none", "TYPE_MISMATCH", "UNKNOWN_FIELD", "DUPLICATE_KEYS",
                   "OBJECT_MEMBER", "MISSING_REQUIRED"},
           members : SUBSET Members]

-----------------------------------------------------------------------------

(* Mutant: the member's false is returned and nothing is recorded.         *)
RejectedByMember_Silently(e) ==
  /\ Emit(e, FALSE)
  /\ handlers' = [handlers EXCEPT ![state] = Feed(@, e, FALSE)]
  /\ fedBy' = [fedBy EXCEPT ![state] = @ \cup {count}]
  /\ UNCHANGED the_error

RejectedByMember(e) ==
  /\ Emit(e, FALSE)
  /\ handlers' = [handlers EXCEPT ![state] = Feed(@, e, FALSE)]
  /\ fedBy' = [fedBy EXCEPT ![state] = @ \cup {count}]
  /\ the_error' = ObjectMember(state)

AcceptedByMember(e) ==
  /\ Emit(e, TRUE)
  /\ handlers' = [handlers EXCEPT ![state] = Feed(@, e, TRUE)]
  /\ fedBy' = [fedBy EXCEPT ![state] = @ \cup {count}]
  /\ UNCHANGED the_error

(* The default case of the switch: nobody is given the event, and the      *)
(* method returns ok.                                                      *)
Ignored(e, ok) ==
  /\ Emit(e, ok)
  /\ UNCHANGED <<handlers, fedBy, the_error>>

(* The switch on state that forwards an event to a member.                 *)
Forwarded(e, okWhenIgnored) ==
  \/ state \in Members /\ AcceptedByMember(e)
  \/ state \in Members /\ RejectedByMember(e)
  \/ state = Unknown /\ Ignored(e, okWhenIgnored)

(* check_depth() fails: the value is not an object.                        *)
RejectedByDepth(e) ==
  /\ depth <= 0
  /\ Emit(e, FALSE)
  /\ the_error' = TypeMismatch
  /\ UNCHANGED <<handlers, fedBy>>

ValueEvent(e) ==
  /\ \/ RejectedByDepth(e)
     \/ depth > 0 /\ Forwarded(e, TRUE)
  /\ UNCHANGED <<state, depth, has, named>>

-----------------------------------------------------------------------------
(* One action per SAX method.                                              *)

Init ==
  /\ SourceInit
  /\ options \in SUBSET Options
  /\ earlier = {}
  /\ state = Unknown
  /\ depth = 0
  /\ the_error = NoError
  /\ has = NoFlags
  /\ handlers = AllFresh
  /\ noted = FALSE
  /\ named = <<>>
  /\ fedBy = NeverFed

Scalar == ValueEvent("Scalar")
StartArray == ValueEvent("StartArray")
EndArray == ValueEvent("EndArray")

(* Mutant: the flag is looked at after it was set.                         *)
KnownKey_SetFirst(m) ==
  /\ Emit("Key", TRUE)
  /\ state' = m
  /\ the_error' = IF NoDuplicates THEN DuplicateKeys(m) ELSE the_error
  /\ has' = [k \in Flagged |-> has[k] \/ k = m]
  /\ named' = Append(named, m)

(* Mutant: a key that is new takes an error noted earlier back.            *)
KnownKey_Forgets(m) ==
  /\ Emit("Key", TRUE)
  /\ state' = m
  /\ the_error' = IF NoDuplicates /\ has[m] THEN DuplicateKeys(m) ELSE NoError
  /\ has' = [k \in Flagged |-> has[k] \/ k = m]
  /\ named' = Append(named, m)

KnownKey(m) ==
  /\ Emit("Key", TRUE)
  /\ state' = m
  /\ the_error' = IF NoDuplicates /\ has[m] THEN DuplicateKeys(m) ELSE the_error
  /\ has' = [k \in Flagged |-> has[k] \/ k = m]
  /\ named' = Append(named, m)

(* Mutant: state still names the last member that is known.                *)
UnknownKey_KeepsState ==
  /\ named' = Append(named, Unknown)
  /\ \/ /\ Strict
        /\ Emit("Key", FALSE)
        /\ the_error' = UnknownField
     \/ /\ ~Strict
        /\ Emit("Key", TRUE)
        /\ UNCHANGED the_error
  /\ UNCHANGED <<state, has>>

UnknownKey ==
  /\ state' = Unknown
  /\ named' = Append(named, Unknown)
  /\ \/ /\ Strict
        /\ Emit("Key", FALSE)
        /\ the_error' = UnknownField
     \/ /\ ~Strict
        /\ Emit("Key", TRUE)
        /\ UNCHANGED the_error
  /\ UNCHANGED has

Key ==
  /\ \/ /\ depth = 1
        /\ UnknownKey \/ \E m \in Members : KnownKey(m)
        /\ UNCHANGED <<handlers, fedBy>>
     \/ /\ depth > 1
        /\ Forwarded("Key", TRUE)
        /\ UNCHANGED <<state, has, named>>
  /\ UNCHANGED depth

StartObject ==
  /\ depth' = depth + 1
  /\ \/ /\ depth' > 1
        /\ Forwarded("StartObject", TRUE)
     \/ /\ depth' <= 1
        /\ Ignored("StartObject", TRUE)
  /\ UNCHANGED <<state, has, named>>

Missing == {m \in Required : ~has[m]}

(* The end of the outermost object: set_missing_required() replaces an     *)
(* error noted earlier, and the object is accepted if there is none.       *)
Validated ==
  /\ the_error' = IF Missing # {} THEN MissingRequired(Missing) ELSE the_error
  /\ Emit("EndObject", the_error' = NoError)

EndObject ==
  /\ depth' = depth - 1
  /\ \/ /\ depth' > 0
        /\ Forwarded("EndObject", the_error = NoError)
     \/ /\ depth' <= 0
        /\ Validated
        /\ UNCHANGED <<handlers, fedBy>>
  /\ UNCHANGED <<state, has, named>>

SyntaxError ==
  /\ Malformed
  /\ UNCHANGED handlerVars

(* Mutant: reset_flags() is not called.                                    *)
PrepareForReuse_KeepsFlags ==
  /\ AnotherValue
  /\ depth' = 0
  /\ state' = Unknown
  /\ the_error' = NoError
  /\ handlers' = AllFresh
  /\ named' = <<>>
  /\ earlier' = {}
  /\ fedBy' = NeverFed
  /\ UNCHANGED has

(* An enclosing container takes the object away and prepares the handler   *)
(* for the next one.                                                       *)
PrepareForReuse ==
  /\ AnotherValue
  /\ depth' = 0
  /\ state' = Unknown
  /\ the_error' = NoError
  /\ has' = NoFlags
  /\ handlers' = AllFresh
  /\ named' = <<>>
  /\ earlier' = {}
  /\ fedBy' = NeverFed

(* The handler of an enclosing class meets the key of this object again:   *)
(* the same handler is given a second object, without PrepareForReuse().   *)
RepeatedMember ==
  /\ AnotherValue
  /\ earlier' = earlier \cup {m \in Members : \E i \in DOMAIN named : named[i] = m}
  /\ named' = <<>>
  /\ fedBy' = NeverFed
  /\ UNCHANGED <<state, depth, the_error, has, handlers>>

(* One object, whatever its events.                                        *)
Event ==
  \/ Scalar
  \/ Key
  \/ StartArray
  \/ EndArray
  \/ StartObject
  \/ EndObject
  \/ SyntaxError

(* What the members' handlers may note in a step.                          *)
PartNotes ==
  /\ noted' \in BOOLEAN
  /\ noted' => \E m \in Members : handlers'[m].status = "busy"
  /\ \A m \in Members :
       ErrorProtocol(HasError(handlers[m]), HasError(handlers[m])',
                     handlers'[m].status)

Next ==
  /\ \/ Event /\ UNCHANGED earlier
     \/ PrepareForReuse
     \/ RepeatedMember
  /\ PartNotes
  /\ UNCHANGED options

Spec == Init /\ [][Next]_vars
-----------------------------------------------------------------------------

TypeOK ==
  /\ SourceTypeOK
  /\ options \in SUBSET Options
  /\ earlier \in SUBSET Members
  /\ state \in Members \cup {Unknown}
  /\ depth \in Nat
  /\ the_error \in Errors
  /\ has \in [Flagged -> BOOLEAN]
  /\ handlers \in [Members -> Handlers]
  /\ noted \in BOOLEAN
  /\ named \in Seq(Members \cup {Unknown})
  /\ fedBy \in [Members -> SUBSET Nat]

Alive == phase \in {"waiting", "reading", "done"}

Occurrences(m) == {i \in 1..Len(named) : named[i] = m}

(* depth counts the objects the text has open, arrays between them or not. *)
(* On it rest that only keys of the outermost object select a member, and  *)
(* that validation runs exactly at that object's end.                      *)
DepthMirrorsText ==
  Alive => depth = Cardinality({i \in 1..Len(open) : open[i] = "object"})

(* A member's handler is given the events of the values whose key named    *)
(* it, all of them, and none of the values of other or unknown keys.       *)
MemberIsolated ==
  Alive => \A m \in Members :
    /\ handlers[m].fed = IF Len(open) > 1 /\ state = m THEN Tail(open) ELSE <<>>
    /\ LET begun == IF Len(open) > 1 THEN count + 1 ELSE count
       IN  fedBy[m] = {i - 1 : i \in Occurrences(m) \cap 1..begun}

(* What ReapError will push: the producer was stopped for a reason, and    *)
(* then an OBJECT_MEMBER link names the one member whose handler holds an  *)
(* error, which state selects in ReapError: nothing is left unreported.    *)
(* Before, only the member being read can hold an error (one it has noted, *)
(* and which ReapError reaches only behind an error of the class itself).  *)
TraceContinues ==
  /\ phase = "terminated" =>
       /\ the_error # NoError
       /\ \A m \in Members :
            HasError(handlers[m]) <=> the_error = ObjectMember(m)
  /\ phase # "terminated" =>
       \A m \in Members : HasError(handlers[m]) => m = state /\ Len(open) > 1
  /\ the_error.type = "OBJECT_MEMBER" =>
       phase = "terminated" /\ the_error = ObjectMember(state)

(* The class handler keeps the protocol it takes for granted of its own    *)
(* members: an error it notes at a key is never lost, nor accepted at the  *)
(* end of the object, nor carried into the next one.                       *)
KeepsErrorProtocol ==
  [][ErrorProtocol(the_error # NoError, the_error' # NoError, AsPart')]_vars

(* An object is accepted only if no error was noted, at a key or at its    *)
(* end, if it has every required member (or, a repeated member, had it in  *)
(* an earlier occurrence), with no_duplicates no member twice, and in      *)
(* strict mode no unknown key.                                             *)
AcceptanceIsEarned ==
  phase = "done" =>
    /\ the_error = NoError
    /\ \A m \in Required : Occurrences(m) # {} \/ m \in earlier
    /\ NoDuplicates => \A m \in Members : Cardinality(Occurrences(m)) <= 1
    /\ Strict => Occurrences(Unknown) = {}

(* An error is about the object at hand, or about an earlier occurrence of *)
(* it: DUPLICATE_KEYS names a member that was there before, and            *)
(* MISSING_REQUIRED lists exactly the required members that were not.      *)
ErrorIsReal ==
  /\ the_error.type = "DUPLICATE_KEYS" =>
       \A m \in the_error.members :
         Cardinality(Occurrences(m)) > 1 \/ m \in earlier
  /\ the_error.type = "MISSING_REQUIRED" =>
       /\ the_error.members = {m \in Required : Occurrences(m) = {}} \ earlier
       /\ the_error.members # {}

(* An object is accepted only with every required member.                  *)
RequiredPresent ==
  phase = "done" => \A m \in Required : Occurrences(m) # {}

(* A parse that ends in a syntax error leaves no mapping error behind.     *)
MalformedHasNoMappingError == phase = "malformed" => the_error = NoError
=============================================================================
