------------------------ MODULE NullableHandlersProofs ------------------------
(***************************************************************************)
(* The handlers of smart pointers and of boost::optional keep what         *)
(* NullableHandlers promises, for texts of every depth.  The proof treats  *)
(* the pointers only: a step of boost::optional's handler is first shown   *)
(* to be a step of theirs, so one inductive invariant serves for both.     *)
(***************************************************************************)
EXTENDS NullableHandlers, SourceLemmas

(* depth is the number of containers open, whoever receives the events.    *)
DepthMirrorsText ==
  /\ Alive => depth = Len(open)
  /\ phase \in {"waiting", "done"} => open = <<>>
  /\ phase = "reading" => open # <<>>

(* The object a pointer owns has the handler that fills it, unless the     *)
(* user put it there; a handler whose object is gone has finished.         *)
HandlerOwned ==
  /\ m_value = "object" =>
       IF internal_handler = NoHandler THEN preset ELSE current
  /\ current => m_value = "object"
  /\ phase \in {"waiting", "done"} => internal_handler.fed = <<>>
  /\ fault => phase = "terminated"

(* text is known as soon as the value has begun, and only null ends it     *)
(* without the pointee's handler.                                          *)
TextKnown ==
  /\ phase = "waiting" => text = "none"
  /\ phase = "reading" => text = "value"

(* What the pointee's handler has rejected ends the parse, and it is in    *)
(* the middle of a value only while the text is.                           *)
VerdictKnown ==
  /\ ~fault => (internal_handler.status = "failed" <=> phase = "terminated")
  /\ internal_handler.status = "busy" => phase \in {"reading", "malformed"}

(* The types of everything but what the pointee notes.                     *)
PointerTypeOK ==
  /\ SourceTypeOK
  /\ m_value \in {"null", "object"}
  /\ internal_handler \in Handlers \cup {NoHandler}
  /\ depth \in Nat
  /\ current \in BOOLEAN
  /\ fault \in BOOLEAN
  /\ preset \in BOOLEAN
  /\ text \in {"none", "null", "value"}

IInv ==
  /\ PointerTypeOK
  /\ DepthMirrorsText
  /\ HandlerOwned
  /\ TextKnown
  /\ HandlerExists
  /\ NullIsNull
  /\ VerdictKnown

(* For a boost::optional, current is what can be read off the optional.    *)
CurrentInPlace == type = "optional" => current = Optional!InPlace

-----------------------------------------------------------------------------
(* boost::optional's handler does what a smart pointer's does.             *)

(* The two modules mean the same by what they share: the source, a fresh   *)
(* handler, and what a handler does with an event.                         *)
LEMMA OptionalDefinitions ==
  /\ Optional!Fresh = Fresh /\ Optional!none = NoHandler
  /\ Optional!sourceVars = sourceVars
  /\ Optional!Malformed <=> Malformed
  /\ Optional!AnotherValue <=> AnotherValue
  /\ \A e, ok : Optional!Emit(e, ok) <=> Emit(e, ok)
  /\ \A h, e, ok : Optional!Feed(h, e, ok) = Feed(h, e, ok)
<1>1. Optional!Fresh = Fresh /\ Optional!none = NoHandler
      /\ Optional!sourceVars = sourceVars
  BY DEF Optional!Fresh, Fresh, Optional!none, NoHandler,
         Optional!sourceVars, sourceVars
<1>2. Optional!Malformed <=> Malformed
  BY DEF Optional!Malformed, Malformed
<1>3. Optional!AnotherValue <=> AnotherValue
  BY DEF Optional!AnotherValue, AnotherValue
<1>4. \A s, e : Optional!After(s, e) = After(s, e)
  BY DEF Optional!After, After, Optional!KindOf, KindOf,
         Optional!Starts, Starts, Optional!Ends, Ends, Front, Optional!Front
<1>5. \A e : Optional!MayEmit(e) <=> MayEmit(e)
  BY DEF Optional!MayEmit, MayEmit, 
         Optional!ValueMayBegin, ValueMayBegin, Optional!InArray, InArray,
         Optional!InObject, InObject, 
         Optional!Starts, Starts, Last, Optional!Last
<1>6. \A e : Optional!ClosesElement(e) <=> ClosesElement(e)
  BY <1>4 DEF Optional!ClosesElement, ClosesElement, Optional!Ends, Ends
<1>7. QED
  BY <1>1, <1>2, <1>3, <1>4, <1>5, <1>6 DEF Optional!Emit, Emit, Optional!Feed, Feed

(* initialize() and the forwarded event: current', read off the optional,  *)
(* is what the pointers' handler keeps in a variable.                      *)
LEMMA OptionalForwarded ==
  ASSUME IInv, current = Optional!InPlace, current' = Optional!InPlace',
         NEW e, Optional!Forwarded(e)
  PROVE  Forwarded(e)
<1>1. /\ Optional!Initialized = Initialized /\ Optional!none = NoHandler
      /\ \A ok : Optional!Emit(e, ok) <=> Emit(e, ok)
      /\ \A h, ok : Optional!Feed(h, e, ok) = Feed(h, e, ok)
  BY OptionalDefinitions DEF Optional!Initialized, Initialized, IsNull
<1>2. /\ current <=> m_value = "object" /\ internal_handler # NoHandler
      /\ current' <=> m_value' = "object" /\ internal_handler' # NoHandler
      /\ current' \in BOOLEAN
  BY <1>1 DEF Optional!InPlace
<1>3. m_value \in {"null", "object"} /\ fault \in BOOLEAN /\ current \in BOOLEAN
  BY DEF IInv, PointerTypeOK
<1>4. CASE /\ Initialized = NoHandler /\ Emit(e, FALSE) /\ fault' = TRUE
           /\ UNCHANGED <<m_value, internal_handler>>
  <2>1. current' = current
    BY <1>2, <1>3, <1>4
  <2>2. QED
    BY <1>4, <2>1 DEF Forwarded, NullDereferenced
<1>5. CASE /\ Initialized # NoHandler
           /\ \E ok \in BOOLEAN : /\ Emit(e, ok)
                                  /\ internal_handler' = Feed(Initialized, e, ok)
           /\ m_value' = "object" /\ UNCHANGED fault
  <2>1. PICK ok \in BOOLEAN : Emit(e, ok) /\ internal_handler' = Feed(Initialized, e, ok)
    BY <1>5
  <2>2. internal_handler'.status # "none"
    BY <2>1 DEF Feed
  <2>3. internal_handler' # NoHandler
    BY <2>2 DEF NoHandler
  <2>4. current' = TRUE
    BY <1>2, <1>5, <2>3
  <2>5. IsNull \/ current
    BY <1>2, <1>3, <1>5 DEF IsNull, Initialized
  <2>6. current' = (IsNull \/ current) /\ fault' = (fault \/ ~current')
    BY <1>3, <1>5, <2>4, <2>5
  <2>7. QED
    BY <1>5, <2>1, <2>6 DEF Forwarded
<1>6. QED
  BY <1>1, <1>4, <1>5 DEF Optional!Forwarded

(* What the optional's part may note, the pointee may.                     *)
LEMMA OptionalNotes == Optional!PartNotes <=> PartNotes
BY DEF Optional!PartNotes, PartNotes, Optional!ErrorProtocol, ErrorProtocol,
       Optional!HasError, HasError, Optional!AtKey, AtKey

(* What the pointers' handler does, but for what the pointee notes.        *)
Moves == \/ Null \/ Scalar \/ Start \/ End
         \/ SyntaxError \/ PrepareForReuse \/ RepeatedMember

(* Every step of the optional's handler is a step of the pointers'.        *)
LEMMA OptionalStep ==
  ASSUME IInv, current = Optional!InPlace, current' = Optional!InPlace',
         Optional!Next
  PROVE  Next
<1>. SUFFICES Moves
  BY OptionalNotes DEF Optional!Next, Next, Moves
<1>1. \A e : Optional!Forwarded(e) => Forwarded(e)
  BY OptionalForwarded
<1>2. \A kind : Optional!Began(kind) <=> Began(kind)
  BY DEF Optional!Began, Began
<1>3. Optional!Starts = Starts /\ Optional!Ends = Ends
  BY DEF Optional!Starts, Starts, Optional!Ends, Ends
<1>4. CASE Optional!Null
  <2>1. CASE /\ depth = 0 /\ Emit("Scalar", TRUE) /\ m_value' = "null"
             /\ UNCHANGED <<internal_handler, fault>>
    <3>1. current' = FALSE
      BY <2>1 DEF Optional!InPlace
    <3>2. QED
      BY <1>2, <1>4, <2>1, <3>1 DEF Optional!Null, Null, Moves
  <2>2. CASE depth # 0 /\ Optional!Forwarded("Scalar")
    BY <1>1, <1>2, <1>4, <2>2 DEF Optional!Null, Null, Moves
  <2>3. QED
    BY <1>4, <2>1, <2>2, OptionalDefinitions DEF Optional!Null
<1>5. CASE Optional!Scalar
  BY <1>1, <1>2, <1>5 DEF Optional!Scalar, Scalar, Moves
<1>6. CASE Optional!Start
  BY <1>1, <1>2, <1>3, <1>6 DEF Optional!Start, Start, Moves
<1>7. CASE Optional!End
  BY <1>1, <1>3, <1>7 DEF Optional!End, End, Moves
<1>8. CASE Optional!SyntaxError
  <2>1. Malformed /\ UNCHANGED <<m_value, internal_handler, depth, fault, preset, text>>
    BY <1>8, OptionalDefinitions DEF Optional!SyntaxError, Optional!handlerVars
  <2>2. current' = current
    BY <2>1 DEF Optional!InPlace
  <2>3. QED
    BY <2>1, <2>2 DEF SyntaxError, handlerVars, Moves
<1>9. CASE Optional!PrepareForReuse
  <2>1. m_value' = "null" /\ AnotherValue
    BY <1>9, OptionalDefinitions DEF Optional!PrepareForReuse
  <2>2. current' = FALSE
    BY <2>1 DEF Optional!InPlace
  <2>3. QED
    BY <1>9, <2>1, <2>2, OptionalDefinitions
    DEF Optional!PrepareForReuse, PrepareForReuse, Moves
<1>10. CASE Optional!RepeatedMember
  <2>1. AnotherValue /\ UNCHANGED <<m_value, internal_handler>>
    BY <1>10, OptionalDefinitions DEF Optional!RepeatedMember
  <2>2. current' = current
    BY <2>1 DEF Optional!InPlace
  <2>3. QED
    BY <1>10, <2>1, <2>2 DEF Optional!RepeatedMember, RepeatedMember, Moves
<1>11. QED
  BY <1>4, <1>5, <1>6, <1>7, <1>8, <1>9, <1>10
     DEF Optional!Next, Optional!Event
-----------------------------------------------------------------------------
(* The smart pointers' handler.                                            *)

(* An event that initialize() leaves without a handler: only the user's    *)
(* own object can be there.                                                *)
LEMMA Dereferenced ==
  ASSUME IInv, NEW e \in Events, NullDereferenced(e), preset' = preset,
         depth' \in Nat, text' \in {"none", "null", "value"}
  PROVE  IInv'
<1>1. open \in Seq(Kinds) /\ (e \in Ends => open # <<>>)
  BY DEF NullDereferenced, Emit, MayEmit, InArray, InObject, Ends, Starts,
         IInv, PointerTypeOK, SourceTypeOK
<1>2. After(open, e) \in Seq(Kinds)
  BY <1>1, AfterFacts
<1>3. /\ phase' = "terminated" /\ open' = After(open, e) /\ count' = count
      /\ keyed' \in BOOLEAN /\ fault' = TRUE
      /\ UNCHANGED <<m_value, internal_handler, current>>
  BY DEF NullDereferenced, Emit
<1>4. preset /\ internal_handler = NoHandler
  <2>1. ~IsNull /\ internal_handler = NoHandler
    BY DEF NullDereferenced, Initialized, Fresh, NoHandler
  <2>2. m_value = "object"
    BY <2>1 DEF IsNull, IInv, PointerTypeOK
  <2>3. QED
    BY <2>1, <2>2 DEF IInv, HandlerOwned
<1>5. PointerTypeOK'
  BY <1>2, <1>3 DEF IInv, PointerTypeOK, SourceTypeOK, Phases
<1>6. HandlerExists' /\ HandlerOwned' /\ TextKnown'
  BY <1>3, <1>4 DEF IInv, HandlerExists, HandlerOwned, TextKnown
<1>7. DepthMirrorsText' /\ NullIsNull' /\ VerdictKnown'
  BY <1>3, <1>4 DEF DepthMirrorsText, NullIsNull, VerdictKnown, Alive, NoHandler
<1>8. QED
  BY <1>5, <1>6, <1>7 DEF IInv

(* An event forwarded to the pointee's handler: the handler is that of the *)
(* object the pointer owns, and it has open what the text has.             *)
LEMMA ForwardedStep ==
  ASSUME IInv, NEW e \in Events, Forwarded(e), preset' = preset,
         text' = "value",
         depth' = IF e \in Starts THEN depth + 1
                  ELSE IF e \in Ends THEN depth - 1 ELSE depth
  PROVE  IInv'
<1>. DEFINE st == After(open, e)
<1>1. /\ open \in Seq(Kinds) /\ depth = Len(open) /\ Alive /\ ~fault
      /\ phase \in {"waiting", "reading"} /\ (e \in Ends => open # <<>>)
      /\ phase = "waiting" => open = <<>>
  <2>1. \E ok \in BOOLEAN : Emit(e, ok)
    BY DEF Forwarded, NullDereferenced
  <2>2. phase \in {"waiting", "reading"} /\ (e \in Ends => open # <<>>)
    BY <2>1 DEF Emit, MayEmit, ValueMayBegin, InArray, InObject, Ends, Starts,
                Events
  <2>3. QED
    BY <2>2 DEF IInv, PointerTypeOK, SourceTypeOK, DepthMirrorsText, HandlerOwned, Alive
<1>2. /\ st \in Seq(Kinds) /\ depth' = Len(st) /\ depth' \in Nat
  <2>1. /\ st \in Seq(Kinds)
        /\ e \in Starts => Len(st) = Len(open) + 1
        /\ e \in Ends => Len(st) = Len(open) - 1
        /\ e \notin Starts \cup Ends => st = open
    BY <1>1, AfterFacts
  <2>2. Len(st) \in Nat
    BY <2>1, LenProperties
  <2>. HIDE DEF st
  <2>3. QED
    BY <1>1, <2>1, <2>2 DEF Starts, Ends
<1>3. CASE NullDereferenced(e)
  BY <1>2, <1>3, Dereferenced
<1>4. CASE ~NullDereferenced(e)
  <2>1. PICK ok \in BOOLEAN :
          /\ Initialized # NoHandler /\ Emit(e, ok)
          /\ internal_handler' = Feed(Initialized, e, ok) /\ m_value' = "object"
          /\ current' = (IsNull \/ current) /\ fault' = (fault \/ ~current')
    BY <1>4 DEF Forwarded
  <2>2. current' = TRUE /\ fault' = FALSE
    <3>1. ~IsNull => m_value = "object" /\ internal_handler # NoHandler
      BY <2>1 DEF IsNull, Initialized, IInv, PointerTypeOK
    <3>2. IsNull \/ current
      BY <3>1 DEF IInv, HandlerOwned
    <3>3. current' = TRUE
      BY <2>1, <3>2
    <3>4. QED
      BY <1>1, <2>1, <3>3
  <2>3. Initialized.fed = open
    <3>1. CASE phase = "waiting"
      BY <1>1, <3>1 DEF Initialized, Fresh, IInv, HandlerOwned
    <3>2. CASE phase = "reading"
      <4>1. current /\ internal_handler.fed = open
        BY <1>1, <3>2 DEF IInv, TextKnown, NullIsNull
      <4>2. ~IsNull
        BY <4>1 DEF IsNull, IInv, HandlerOwned
      <4>3. QED
        BY <4>1, <4>2 DEF Initialized
    <3>3. QED
      BY <1>1, <3>1, <3>2
  <2>4. internal_handler' =
          [fed |-> st, status |-> IF ~ok THEN "failed"
                                  ELSE IF st = <<>> THEN "complete" ELSE "busy"]
    BY <2>1, <2>3 DEF Feed
  <2>5. /\ open' = st /\ keyed' \in BOOLEAN /\ count' \in Nat
        /\ phase' = IF ~ok THEN "terminated"
                    ELSE IF st = <<>> THEN "done" ELSE "reading"
    <3>1. count \in Nat
      BY DEF IInv, PointerTypeOK, SourceTypeOK
    <3>2. QED
      BY <2>1, <3>1 DEF Emit
  <2>. HIDE DEF st
  <2>6. PointerTypeOK'
    BY <1>2, <2>1, <2>2, <2>4, <2>5
       DEF IInv, PointerTypeOK, SourceTypeOK, Phases, Handlers, Statuses
  <2>7. DepthMirrorsText' /\ TextKnown'
    BY <1>2, <2>5 DEF DepthMirrorsText, TextKnown
  <2>8. internal_handler' # NoHandler /\ internal_handler'.fed = st
    BY <2>4 DEF NoHandler
  <2>9. HandlerOwned' /\ HandlerExists'
    BY <2>1, <2>2, <2>5, <2>8 DEF HandlerOwned, HandlerExists, NoHandler
  <2>10. NullIsNull'
    BY <2>1, <2>2, <2>4, <2>5 DEF NullIsNull, Alive
  <2>11. VerdictKnown'
    BY <2>2, <2>4, <2>5 DEF VerdictKnown
  <2>12. QED
    BY <2>6, <2>7, <2>9, <2>10, <2>11 DEF IInv
<1>5. QED
  BY <1>3, <1>4

(* The initial states.                                                     *)
LEMMA InitInvariant == Init => IInv
<1>. SUFFICES ASSUME Init PROVE IInv
  OBVIOUS
<1>1. /\ open = <<>> /\ keyed = FALSE /\ phase = "waiting" /\ count = 0
      /\ m_value \in {"null", "object"} /\ internal_handler = NoHandler
      /\ depth = 0 /\ current = FALSE /\ fault = FALSE /\ text = "none"
      /\ preset = (m_value = "object")
  BY DEF Init, SourceInit
<1>2. PointerTypeOK
  BY <1>1, EmptySeq DEF PointerTypeOK, SourceTypeOK, Phases
<1>3. DepthMirrorsText /\ TextKnown
  BY <1>1, EmptySeq DEF DepthMirrorsText, TextKnown
<1>4. HandlerOwned /\ HandlerExists
  BY <1>1 DEF HandlerOwned, HandlerExists, NoHandler
<1>5. NullIsNull /\ VerdictKnown
  BY <1>1 DEF NullIsNull, VerdictKnown, NoHandler
<1>6. QED
  BY <1>2, <1>3, <1>4, <1>5 DEF IInv

(* Every step of the pointers' handler keeps the invariant.                *)
LEMMA StepInvariant == IInv /\ [Next]_vars => IInv'
<1>. SUFFICES ASSUME IInv, [Next]_vars PROVE IInv'
  OBVIOUS
<1>1. /\ "Scalar" \in Events /\ "Key" \in Events
      /\ Starts \subseteq Events /\ Ends \subseteq Events
      /\ "Scalar" \notin Starts \cup Ends /\ "Key" \notin Starts \cup Ends
      /\ Starts \cap Ends = {}
  BY DEF Events, Starts, Ends
<1>2. \A e, ok : Emit(e, ok) =>
        /\ phase \in {"waiting", "reading"}
        /\ e \in {"Key"} \cup Ends => phase = "reading"
        /\ phase = "waiting" => open = <<>> /\ depth = 0
        /\ phase = "reading" => open # <<>> /\ depth # 0 /\ text = "value"
  <2>1. phase = "waiting" => open = <<>> /\ depth = 0
    BY DEF IInv, DepthMirrorsText, Alive
  <2>2. phase = "reading" => open # <<>> /\ depth # 0 /\ text = "value"
    BY EmptySeq
       DEF IInv, DepthMirrorsText, TextKnown, Alive, PointerTypeOK, SourceTypeOK
  <2>3. QED
    BY <2>1, <2>2 DEF Emit, MayEmit, ValueMayBegin, Starts, Ends
<1>3. \A e : Forwarded(e) => \E ok \in BOOLEAN : Emit(e, ok)
  BY DEF Forwarded, NullDereferenced
<1>4. CASE Null
  <2>1. CASE /\ depth = 0 /\ Emit("Scalar", TRUE) /\ m_value' = "null"
             /\ current' = FALSE /\ UNCHANGED <<internal_handler, fault>>
    <3>1. /\ phase = "waiting" /\ open = <<>> /\ text' = "null"
          /\ depth' = depth /\ preset' = preset
      BY <1>2, <1>4, <2>1 DEF Null, Began
    <3>2. After(open, "Scalar") = <<>>
      BY <3>1 DEF After, Starts, Ends
    <3>3. phase' = "done" /\ open' = <<>> /\ keyed' \in BOOLEAN /\ count' \in Nat
      BY <2>1, <3>2 DEF Emit, IInv, PointerTypeOK, SourceTypeOK
    <3>4. PointerTypeOK'
      BY <2>1, <3>1, <3>3, EmptySeq DEF IInv, PointerTypeOK, SourceTypeOK, Phases
    <3>5. DepthMirrorsText' /\ TextKnown'
      BY <2>1, <3>1, <3>3 DEF IInv, DepthMirrorsText, TextKnown
    <3>6. HandlerOwned' /\ HandlerExists' /\ NullIsNull'
      BY <2>1, <3>1, <3>3
         DEF IInv, HandlerOwned, HandlerExists, NullIsNull
    <3>7. VerdictKnown'
      BY <2>1, <3>1, <3>3 DEF IInv, VerdictKnown
    <3>8. QED
      BY <3>4, <3>5, <3>6, <3>7 DEF IInv
  <2>2. CASE depth # 0 /\ Forwarded("Scalar")
    <3>1. text' = "value" /\ depth' = depth /\ preset' = preset
      BY <1>2, <1>3, <1>4, <2>2 DEF Null, Began
    <3>2. QED
      BY <1>1, <2>2, <3>1, ForwardedStep
  <2>3. QED
    BY <1>4, <2>1, <2>2 DEF Null
<1>5. CASE Scalar
  <2>1. PICK e \in {"Scalar", "Key"} : Forwarded(e)
    BY <1>5 DEF Scalar
  <2>2. text' = "value" /\ depth' = depth /\ preset' = preset
    BY <1>2, <1>3, <1>5, <2>1 DEF Scalar, Began
  <2>3. QED
    BY <1>1, <2>1, <2>2, ForwardedStep
<1>6. CASE Start
  <2>1. PICK e \in Starts : Forwarded(e)
    BY <1>6 DEF Start
  <2>2. text' = "value" /\ depth' = depth + 1 /\ preset' = preset
    BY <1>2, <1>3, <1>6, <2>1 DEF Start, Began
  <2>3. QED
    BY <1>1, <2>1, <2>2, ForwardedStep
<1>7. CASE End
  <2>1. PICK e \in Ends : Forwarded(e)
    BY <1>7 DEF End
  <2>2. text' = "value" /\ depth' = depth - 1 /\ preset' = preset
    BY <1>2, <1>3, <1>7, <2>1 DEF End
  <2>3. QED
    BY <1>1, <2>1, <2>2, ForwardedStep
<1>8. CASE SyntaxError
  <2>1. Alive /\ phase' = "malformed" /\ phase # "terminated"
        /\ UNCHANGED <<open, keyed, count>> /\ UNCHANGED handlerVars
    BY <1>8 DEF SyntaxError, Malformed, Alive
  <2>2. QED
    BY <2>1
       DEF IInv, PointerTypeOK, SourceTypeOK, Phases, DepthMirrorsText, HandlerOwned,
           TextKnown, HandlerExists, NullIsNull, VerdictKnown,
           Alive, handlerVars
<1>9. CASE PrepareForReuse
  <2>1. phase = "done" /\ phase' = "waiting" /\ count' = 0 /\ ~fault /\ open = <<>>
        /\ UNCHANGED <<open, keyed, fault>>
    BY <1>9 DEF PrepareForReuse, AnotherValue, IInv, HandlerOwned, DepthMirrorsText
  <2>2. /\ m_value' = "null" /\ internal_handler' = NoHandler /\ depth' = 0
        /\ current' = FALSE /\ preset' = FALSE /\ text' = "none"
    BY <1>9 DEF PrepareForReuse
  <2>3. PointerTypeOK'
    BY <2>1, <2>2, EmptySeq DEF IInv, PointerTypeOK, SourceTypeOK, Phases
  <2>4. QED
    BY <2>1, <2>2, <2>3, EmptySeq
       DEF IInv, DepthMirrorsText, HandlerOwned, TextKnown, HandlerExists,
           NullIsNull, VerdictKnown, NoHandler
<1>10. CASE RepeatedMember
  <2>1. phase = "done" /\ phase' = "waiting" /\ count' = 0 /\ text' = "none"
        /\ UNCHANGED <<open, keyed, m_value, internal_handler, depth, current,
                       fault, preset>>
    BY <1>10 DEF RepeatedMember, AnotherValue
  <2>2. open = <<>> /\ depth = Len(open)
    BY <2>1 DEF IInv, DepthMirrorsText, Alive
  <2>3. QED
    BY <2>1, <2>2
       DEF IInv, PointerTypeOK, SourceTypeOK, Phases, DepthMirrorsText, HandlerOwned,
           TextKnown, HandlerExists, NullIsNull, VerdictKnown
<1>11. CASE UNCHANGED vars
  BY <1>11
     DEF vars, sourceVars, handlerVars, IInv, PointerTypeOK, SourceTypeOK,
         DepthMirrorsText, HandlerOwned, TextKnown, HandlerExists, NullIsNull,
         VerdictKnown, Alive, IsNull
<1>12. QED
  BY <1>4, <1>5, <1>6, <1>7, <1>8, <1>9, <1>10, <1>11 DEF Next

(* What the pointee's handler notes keeps its type.                        *)
NotedTyped == noted \in BOOLEAN

(* ... in every step.                                                      *)
LEMMA StepNoted == NotedTyped /\ [Next]_vars => NotedTyped'
BY DEF NotedTyped, Next, PartNotes, vars

(* The pointer has an error when the pointee's handler has one: there is   *)
(* none where there is no handler.                                         *)
LEMMA ErrorIsPointees == Error <=> HasError(internal_handler)
BY DEF Error, HasError, NoHandler

(* ... also in the next state.                                             *)
LEMMA NextErrorIsPointees == Error' <=> HasError(internal_handler)'
BY DEF Error, HasError, NoHandler

(* A pointer whose pointee's handler keeps the protocol keeps it.          *)
LEMMA StepProtocol ==
  ASSUME IInv', PartNotes, ~fault'
  PROVE  ErrorProtocol(Error, Error', AsPart')
<1>1. ErrorProtocol(Error, Error', internal_handler'.status)
  BY ErrorIsPointees, NextErrorIsPointees DEF PartNotes, ErrorProtocol
<1>2. /\ phase' \in Phases
      /\ internal_handler'.status = "failed" <=> phase' = "terminated"
      /\ internal_handler'.status = "busy" => phase' \in {"reading", "malformed"}
  BY DEF IInv, PointerTypeOK, SourceTypeOK, VerdictKnown
<1>3. CASE phase' = "terminated"
  BY <1>1, <1>2, <1>3 DEF ErrorProtocol, AsPart
<1>4. CASE phase' \in {"waiting", "done"}
  <2>1. ~Error /\ ~Error'
    BY <1>1, <1>2, <1>4 DEF ErrorProtocol
  <2>2. QED
    BY <1>4, <2>1 DEF ErrorProtocol, AsPart
<1>5. CASE phase' \in {"reading", "malformed"}
  <2>1. (Error => Error') /\ (Error' => Error \/ AtKey)
    BY <1>1, <1>2, <1>5 DEF ErrorProtocol
  <2>2. QED
    BY <1>5, <2>1 DEF ErrorProtocol, AsPart
<1>6. QED
  BY <1>2, <1>3, <1>4, <1>5 DEF Phases

-----------------------------------------------------------------------------
(* Both types.                                                             *)

(* Initially current is what can be read off the optional.                 *)
LEMMA TypesInitInvariant ==
  TypesInit => IInv /\ CurrentInPlace /\ NotedTyped
<1>. SUFFICES ASSUME TypesInit
              PROVE  IInv /\ CurrentInPlace /\ NotedTyped
  OBVIOUS
<1>1. Init /\ internal_handler = Optional!none /\ current = FALSE /\ noted = FALSE
  BY OptionalDefinitions DEF TypesInit, Init
<1>2. QED
  BY <1>1, InitInvariant DEF NotedTyped, CurrentInPlace, Optional!InPlace

(* A step of either handler is a step of the pointers', and keeps what can *)
(* be read off the optional.                                               *)
LEMMA TypesStep ==
  IInv /\ CurrentInPlace /\ [TypesNext]_<<vars, type>>
    => [Next]_vars /\ IInv' /\ CurrentInPlace'
<1>. SUFFICES ASSUME IInv, CurrentInPlace, [TypesNext]_<<vars, type>>
              PROVE  [Next]_vars /\ CurrentInPlace'
  BY StepInvariant
<1>1. CASE type = "pointer" /\ Next /\ UNCHANGED type
  BY <1>1 DEF CurrentInPlace
<1>2. CASE /\ type = "optional" /\ Optional!Next
           /\ current' = Optional!InPlace' /\ UNCHANGED type
  <2>1. current = Optional!InPlace
    BY <1>2 DEF CurrentInPlace
  <2>2. Next
    BY <1>2, <2>1, OptionalStep
  <2>3. QED
    BY <1>2, <2>2 DEF CurrentInPlace
<1>3. CASE UNCHANGED <<vars, type>>
  <2>1. UNCHANGED vars /\ UNCHANGED <<current, m_value, internal_handler, type>>
    BY <1>3 DEF vars, handlerVars
  <2>2. CurrentInPlace'
    BY <2>1 DEF CurrentInPlace, Optional!InPlace
  <2>3. QED
    BY <2>1, <2>2
<1>4. QED
  BY <1>1, <1>2, <1>3 DEF TypesNext

(* The variables keep their types, for pointers and optionals.             *)
THEOREM TypeCorrect == TypesSpec => []TypeOK
<1>1. IInv /\ NotedTyped => TypeOK
  BY DEF NotedTyped, IInv, PointerTypeOK, TypeOK
<1>2. QED
  BY <1>1, TypesInitInvariant, TypesStep, StepNoted, PTL DEF TypesSpec

(* boost::optional's handler, written separately, behaves in every step as *)
(* the smart pointers' do.                                                 *)
THEOREM OptionalImplementsNullable == TypesSpec => OptionalIsNullable
<1>1. TypesInit => Init
  BY DEF TypesInit
<1>2. QED
  BY <1>1, TypesInitInvariant, TypesStep, PTL DEF TypesSpec, OptionalIsNullable

(* A null or dangling handler is called only if the user's pointer was not *)
(* null when the parse began.                                              *)
THEOREM HandlerAlwaysExists == TypesSpec => []HandlerExists
<1>1. IInv => HandlerExists
  BY DEF IInv
<1>2. QED
  BY <1>1, TypesInitInvariant, TypesStep, PTL DEF TypesSpec

(* A JSON null leaves the pointer null; any other value leaves it owning   *)
(* an object that got exactly the events of that value.                    *)
THEOREM NullMeansNull == TypesSpec => []NullIsNull
<1>1. IInv => NullIsNull
  BY DEF IInv
<1>2. QED
  BY <1>1, TypesInitInvariant, TypesStep, PTL DEF TypesSpec

(* Pointers and optionals keep the error protocol towards what encloses    *)
(* them whenever their pointee keeps it: a rejection and what the pointee  *)
(* has noted are theirs, and an accepted value leaves no error.            *)
THEOREM ProtocolKept == TypesSpec => KeepsErrorProtocol
<1>1. IInv /\ IInv' /\ [Next]_vars
        => [~fault' => ErrorProtocol(Error, Error', AsPart')]_vars
  BY StepProtocol DEF Next
<1>2. QED
  BY <1>1, TypesInitInvariant, TypesStep, PTL DEF TypesSpec, KeepsErrorProtocol
=============================================================================
