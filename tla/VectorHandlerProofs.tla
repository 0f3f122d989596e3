------------------------- MODULE VectorHandlerProofs -------------------------
(***************************************************************************)
(* VectorHandler keeps its type invariant, its stack, the isolation of its *)
(* elements, the exactness of the container and the error trace, for every *)
(* bound, array size and prior contents.  The conjunction is inductive:    *)
(* the container is exact because each element is isolated, an element is  *)
(* isolated because it is pushed at the right time, and the time is right  *)
(* because the handler's stack mirrors the text.                           *)
(***************************************************************************)
EXTENDS VectorHandler, SourceLemmas

(* What TraceContinues rests on: a rejection is told from an element's     *)
(* rejection by the kind of the error, and an element that is in the       *)
(* middle of a value has not stopped the parse.                            *)
RefusalRecorded ==
  /\ (the_error # NoError) = (phase = "terminated")
  /\ (the_error.type = "ARRAY_ELEMENT") = (inner.status = "failed")
  /\ inner.status = "busy" => Len(open) > 1 /\ phase # "terminated"

IInv ==
  /\ TypeOK
  /\ SourceConsistent
  /\ StackMirrorsText
  /\ ElementIsolated
  /\ VectorExact
  /\ RefusalRecorded


-----------------------------------------------------------------------------
(* What the invariant says when an event arrives inside the outermost      *)
(* array.                                                                  *)
LEMMA InsideArray ==
  ASSUME IInv, state # <<>>, NEW e \in Events, NEW ok \in BOOLEAN, Emit(e, ok)
  PROVE  /\ phase = "reading" /\ state = open /\ open[1] = "array"
         /\ open \in Seq(Kinds) /\ Len(open) \in Nat \ {0}
         /\ e = "Key" => Len(open) > 1
         /\ inner.fed = Tail(open)
         /\ Written = {count}
         /\ e \in Ends /\ e # "EndArray" => Len(open) > 1
<1>1. phase \in {"waiting", "reading"} /\ Alive
  BY DEF Emit, MayEmit, ValueMayBegin, Alive, Events, Ends, Starts
<1>2. phase = "reading" /\ state = open /\ open[1] = "array"
  BY <1>1 DEF IInv, StackMirrorsText, SourceConsistent, Alive
<1>3. open \in Seq(Kinds) /\ Len(open) \in Nat \ {0}
  BY <1>2, EmptySeq DEF IInv, TypeOK, SourceTypeOK
<1>4. e \in {"Key", "EndObject"} => InObject
  BY DEF Emit, MayEmit, Ends, Starts
<1>5. e \in {"Key", "EndObject"} => Len(open) > 1
  BY <1>2, <1>3, <1>4 DEF InObject, Last
<1>6. inner.fed = Tail(open) /\ Written = {count}
  <2>1. CASE Len(open) > 1
    <3>1. inner.fed = Tail(open) /\ current = {count}
      BY <1>1, <2>1 DEF IInv, ElementIsolated
    <3>2. QED
      BY <3>1 DEF Written
  <2>2. CASE Len(open) = 1
    <3>1. inner = Fresh /\ current = {}
      BY <1>1, <2>2 DEF IInv, ElementIsolated, Blank
    <3>2. Tail(open) = <<>>
      BY <1>2, <1>3, <2>2, AboveBottom
    <3>3. inner.fed = <<>>
      BY <3>1 DEF Fresh
    <3>4. Written = {count}
      BY <3>1 DEF Written
    <3>5. QED
      BY <3>2, <3>3, <3>4
  <2>3. Len(open) > 1 \/ Len(open) = 1
    <3>1. Len(open) \in Nat \ {0}
      BY <1>3
    <3>2. QED
      BY <3>1
  <2>4. QED
    BY <2>1, <2>2, <2>3
<1>7. QED
  BY <1>2, <1>3, <1>5, <1>6 DEF Ends

(* A rejected event stops the source, so only the types and the error are  *)
(* left to check.                                                          *)
LEMMA Rejection ==
  ASSUME IInv, state # <<>>, NEW e \in Events, Emit(e, FALSE),
         RejectedByElement(e), state' \in Seq(Kinds),
         UNCHANGED <<base, container>>, noted' \in BOOLEAN,
         e = "EndArray" => Len(state) > 1
  PROVE  IInv'
<1>0. container' = container /\ Fixed' = Fixed
  BY DEF Fixed
<1>1. /\ open \in Seq(Kinds) /\ Len(open) \in Nat \ {0} /\ state = open
      /\ inner.fed = Tail(open) /\ Written = {count}
      /\ e \in Ends => Len(open) > 1
  BY InsideArray
<1>2. phase' = "terminated" /\ count' = count /\ open' = After(open, e)
      /\ keyed' \in BOOLEAN
  BY DEF Emit
<1>3. open # <<>>
  BY <1>1
<1>4. After(open, e) \in Seq(Kinds)
  BY <1>1, <1>3, AfterFacts
<1>5. Tail(open) \in Seq(Kinds) /\ (e \in Ends => Tail(open) # <<>>)
  BY <1>1, <1>3, AboveBottom
<1>6. After(inner.fed, e) \in Seq(Kinds)
  BY <1>1, <1>5, AfterFacts
<1>7. inner' = [fed |-> After(inner.fed, e), status |-> "failed"]
  BY DEF RejectedByElement, Feed
<1>8. the_error' = [type |-> "ARRAY_ELEMENT", at |-> GetCurrentSize]
  BY DEF RejectedByElement, set_element_error, ElementError
<1>9. GetCurrentSize \in Nat
  BY VectorAssumption, LenProperties DEF GetCurrentSize, IInv, TypeOK
<1>10. TypeOK'
  <2>1. SourceTypeOK'
    BY <1>2, <1>4 DEF IInv, TypeOK, SourceTypeOK, Phases
  <2>2. the_error' \in Errors
    BY <1>8, <1>9 DEF Errors
  <2>3. inner' \in Handlers
    BY <1>6, <1>7 DEF Handlers, Statuses
  <2>4. current' \in SUBSET (Nat \cup {-1})
    BY <1>1 DEF RejectedByElement, IInv, TypeOK, SourceTypeOK
  <2>5. value' = value /\ index' = index /\ base' = base
    BY DEF RejectedByElement
  <2>6. QED
    BY <1>0, <2>1, <2>2, <2>3, <2>4, <2>5 DEF IInv, TypeOK
<1>11. ~Alive' /\ phase' = "terminated"
  BY <1>2 DEF Alive
<1>12. RefusalRecorded'
  BY <1>7, <1>8, <1>11 DEF RefusalRecorded, NoError
<1>13. QED
  BY <1>10, <1>11, <1>12
     DEF IInv, SourceConsistent, StackMirrorsText, ElementIsolated, VectorExact

(* The stack after an accepted event inside the outermost array: the array *)
(* stays open, and an element ends exactly when nothing else is.           *)
LEMMA StackAfter ==
  ASSUME IInv, state # <<>>, NEW e \in Events, Emit(e, TRUE),
         After(state, e) # <<>>
  PROVE  LET st == After(open, e)
         IN  /\ phase = "reading" /\ state = open /\ Written = {count}
             /\ inner.fed = Tail(open)
             /\ st \in Seq(Kinds) /\ st # <<>> /\ Len(st) \in Nat \ {0}
             /\ st[1] = "array"
             /\ Tail(st) = After(inner.fed, e)
             /\ Tail(st) \in Seq(Kinds) /\ (Tail(st) = <<>> <=> Len(st) = 1)
             /\ ClosesElement(e) <=> Len(st) = 1
             /\ Settled(st) <=> Len(st) = 1
<1>. DEFINE st == After(open, e)
<1>1. /\ phase = "reading" /\ state = open /\ open[1] = "array"
      /\ open \in Seq(Kinds) /\ Len(open) \in Nat \ {0}
      /\ e = "Key" => Len(open) > 1
      /\ inner.fed = Tail(open)
      /\ Written = {count}
  BY InsideArray
<1>2. open # <<>>
  BY <1>1
<1>3. /\ st \in Seq(Kinds) /\ st # <<>> /\ Len(st) \in Nat \ {0}
      /\ st[1] = "array"
      /\ e \in Starts => Len(st) = Len(open) + 1
      /\ e \in Ends => Len(st) = Len(open) - 1
      /\ e \notin Starts \cup Ends => st = open
  <2>1. /\ st \in Seq(Kinds)
        /\ e \in Starts => Len(st) = Len(open) + 1
        /\ e \in Ends => Len(st) = Len(open) - 1
        /\ e \notin Starts \cup Ends => st = open
        /\ Len(st) # 0 => st[1] = open[1]
    BY <1>1, <1>2, AfterFacts
  <2>2. st # <<>> /\ Len(st) \in Nat \ {0}
    BY <1>1, <2>1, EmptySeq
  <2>3. QED
    BY <1>1, <2>1, <2>2
<1>4. e \in Ends => Len(open) > 1
  BY <1>1, <1>3
<1>5. Tail(st) = After(inner.fed, e)
  BY <1>1, <1>2, <1>4, AfterAboveBottom
<1>6. Tail(st) \in Seq(Kinds) /\ (Tail(st) = <<>> <=> Len(st) = 1)
  BY <1>3, AboveBottom
<1>7. ClosesElement(e) <=> Len(st) = 1
  <2>1. e \in {"Scalar"} \cup Starts \cup Ends \cup {"Key"}
    BY DEF Events
  <2>2. Len(st) = 1 => e \notin Starts /\ e # "Key"
    BY <1>1, <1>3 DEF Starts, Ends
  <2>3. QED
    BY <2>1, <2>2 DEF ClosesElement
<1>8. Settled(st) <=> Len(st) = 1
  BY <1>3 DEF Settled, Last
<1>9. QED
  BY <1>1, <1>3, <1>5, <1>6, <1>7, <1>8

(* An accepted event inside the outermost array: either it completes an    *)
(* element, which is pushed, or the element goes on.                       *)
LEMMA Acceptance ==
  ASSUME IInv, state # <<>>, NEW e \in Events, Emit(e, TRUE),
         state' = After(state, e), After(state, e) # <<>>,
         push_when_time_is_right(state', Written, Feed(inner, e, TRUE)),
         UNCHANGED <<the_error, base, container>>, noted' \in BOOLEAN
  PROVE  IInv'
<1>0. container' = container /\ Fixed' = Fixed
  BY DEF Fixed
<1>. DEFINE st == After(open, e)
<1>1. /\ phase = "reading" /\ state = open /\ Written = {count}
      /\ inner.fed = Tail(open)
      /\ st \in Seq(Kinds) /\ st # <<>> /\ Len(st) \in Nat \ {0}
      /\ st[1] = "array"
      /\ Tail(st) = After(inner.fed, e)
      /\ Tail(st) \in Seq(Kinds) /\ (Tail(st) = <<>> <=> Len(st) = 1)
      /\ ClosesElement(e) <=> Len(st) = 1
      /\ Settled(st) <=> Len(st) = 1
  BY StackAfter
<1>7. /\ open' = st /\ state' = st /\ phase' = "reading"
      /\ keyed' \in BOOLEAN
      /\ count' = IF ClosesElement(e) THEN count + 1 ELSE count
  BY <1>1 DEF Emit
<1>8. Feed(inner, e, TRUE)
        = [fed |-> Tail(st), status |-> IF Tail(st) = <<>> THEN "complete" ELSE "busy"]
  BY <1>1 DEF Feed
<1>11. the_error' = the_error /\ base' = base /\ RefusalRecorded /\ count \in Nat
  BY DEF IInv, TypeOK, SourceTypeOK
<1>. HIDE DEF st
<1>12. CASE Len(st) = 1
  <2>1. Push(Written) /\ current' = {} /\ inner' = Fresh /\ count' = count + 1
    BY <1>1, <1>7, <1>12 DEF push_when_time_is_right, Blank
  <2>2. SourceTypeOK'
    BY <1>1, <1>7, <1>11, <2>1 DEF SourceTypeOK, Phases
  <2>3. /\ value' \in Seq(SUBSET (Nat \cup {-1}))
        /\ Fixed => Len(value') = N
        /\ index' \in 0..N-1
    <3>1. value \in Seq(SUBSET (Nat \cup {-1})) /\ index \in 0..N-1
          /\ (Fixed => Len(value) = N) /\ Written \in SUBSET (Nat \cup {-1})
      BY <1>1, <1>11 DEF IInv, TypeOK
    <3>2. CASE Fixed
      <4>1. value' = [value EXCEPT ![index + 1] = Written]
            /\ index' = (index + 1) % N
        BY <2>1, <3>2 DEF Push
      <4>2. index + 1 \in 1..Len(value)
        BY <3>1, <3>2, VectorAssumption
      <4>3. index' \in 0..N-1
        BY <3>1, <4>1, VectorAssumption
      <4>4. QED
        BY <3>1, <3>2, <4>1, <4>2, <4>3, ExceptSeq
    <3>3. CASE ~Fixed
      <4>1. value' = Append(value, Written) /\ index' = index
        BY <2>1, <3>3 DEF Push
      <4>2. QED
        BY <3>1, <3>3, <4>1, AppendProperties
    <3>4. QED
      BY <3>2, <3>3
  <2>4. TypeOK'
    <3>1. inner' \in Handlers
      BY <2>1, EmptySeq DEF Fresh, Handlers, Statuses
    <3>2. QED
      BY <1>0, <1>1, <1>7, <1>11, <2>1, <2>2, <2>3, <3>1 DEF IInv, TypeOK
  <2>5. VectorExact'
    <3>1. SUFFICES ASSUME ~Fixed
                   PROVE  /\ Len(value') = base + count'
                          /\ \A i \in 1..count' : value'[base + i] = {i - 1}
      BY <1>0, <1>11 DEF VectorExact
    <3>2. value' = Append(value, {count})
      BY <1>1, <2>1, <3>1 DEF Push
    <3>3. /\ Len(value) = base + count
          /\ \A i \in 1..count : value[base + i] = {i - 1}
      BY <1>1, <3>1 DEF IInv, VectorExact, Alive
    <3>4. value \in Seq(SUBSET (Nat \cup {-1})) /\ {count} \in SUBSET (Nat \cup {-1})
          /\ base \in Nat
      BY <1>11 DEF IInv, TypeOK
    <3>5. /\ Len(value') = base + count + 1
          /\ \A i \in 1..base + count : value'[i] = value[i]
          /\ value'[base + count + 1] = {count}
      BY <3>2, <3>3, <3>4, AppendProperties
    <3>6. ASSUME NEW i \in 1..count + 1
          PROVE  value'[base + i] = {i - 1}
      <4>1. CASE i = count + 1
        BY <1>11, <3>4, <3>5, <4>1
      <4>2. CASE i # count + 1
        <5>1. i \in 1..count /\ base + i \in 1..base + count
          BY <1>11, <3>4, <4>2
        <5>2. QED
          BY <3>3, <3>5, <5>1
      <4>3. QED
        BY <4>1, <4>2
    <3>7. QED
      BY <1>11, <2>1, <3>4, <3>5, <3>6
  <2>6. StackMirrorsText' /\ SourceConsistent'
    BY <1>1, <1>7 DEF StackMirrorsText, SourceConsistent, Alive
  <2>7. ElementIsolated'
    <3>1. ~(Len(open') > 1)
      BY <1>7, <1>12
    <3>2. inner' = Fresh /\ current' = Blank
      BY <2>1 DEF Blank
    <3>3. QED
      BY <3>1, <3>2 DEF ElementIsolated
  <2>8. RefusalRecorded'
    BY <1>1, <1>7, <1>11, <2>1 DEF IInv, RefusalRecorded, Fresh, NoError
  <2>9. QED
    BY <2>4, <2>5, <2>6, <2>7, <2>8 DEF IInv
<1>13. CASE Len(st) # 1
  <2>1. /\ current' = {count} /\ inner' = [fed |-> Tail(st), status |-> "busy"]
        /\ value' = value /\ index' = index /\ count' = count
    BY <1>1, <1>7, <1>8, <1>13 DEF push_when_time_is_right
  <2>2. TypeOK'
    <3>1. SourceTypeOK'
      BY <1>1, <1>7, <1>11, <2>1 DEF SourceTypeOK, Phases
    <3>2. inner' \in Handlers
      BY <1>1, <2>1 DEF Handlers, Statuses
    <3>3. QED
      BY <1>0, <1>1, <1>7, <1>11, <2>1, <3>1, <3>2 DEF IInv, TypeOK
  <2>3. StackMirrorsText' /\ SourceConsistent'
    BY <1>1, <1>7 DEF StackMirrorsText, SourceConsistent, Alive
  <2>4. ElementIsolated'
    <3>1. Len(open') > 1
      <4>1. Len(st) \in Nat \ {0}
        BY <1>1
      <4>2. \A n \in Nat \ {0} : n # 1 => n > 1
        OBVIOUS
      <4>3. Len(st) > 1
        BY <1>13, <4>1, <4>2
      <4>4. QED
        BY <1>7, <4>3
    <3>2. /\ inner'.fed = Tail(open') /\ inner'.status = "busy"
          /\ current' = {count'}
      BY <1>7, <2>1
    <3>3. QED
      BY <3>1, <3>2 DEF ElementIsolated
  <2>5. VectorExact'
    BY <1>0, <1>1, <1>11, <2>1 DEF IInv, VectorExact, Alive
  <2>6. RefusalRecorded'
    BY <1>1, <1>7, <1>11, <2>1, <2>4
       DEF IInv, RefusalRecorded, NoError, ElementIsolated, Fresh, Alive
  <2>7. QED
    BY <2>2, <2>3, <2>4, <2>5, <2>6 DEF IInv
<1>14. QED
  BY <1>12, <1>13

-----------------------------------------------------------------------------
(* The initial states.                                                     *)
LEMMA InitInvariant == Init => IInv
<1>. SUFFICES ASSUME Init PROVE IInv
  OBVIOUS
<1>1. <<>> \in Seq(Kinds)
  BY EmptySeq
<1>2. /\ open = <<>> /\ keyed = FALSE /\ phase = "waiting" /\ count = 0
      /\ state = <<>> /\ the_error = NoError /\ current = {} /\ inner = Fresh
      /\ index = 0 /\ base = Len(value) /\ container \in {"vector", "array"}
      /\ noted = FALSE
  BY DEF Init, SourceInit, Blank
<1>3. /\ value \in Seq(SUBSET (Nat \cup {-1})) /\ Len(value) \in Nat
      /\ Fixed => Len(value) = N
  <2>1. {-1} \in SUBSET (Nat \cup {-1})
    OBVIOUS
  <2>2. ASSUME NEW k \in Nat, value = [i \in 1..k |-> {-1}]
        PROVE  value \in Seq(SUBSET (Nat \cup {-1})) /\ Len(value) = k
    BY <2>1, <2>2, IsASeq
  <2>3. CASE Fixed
    <3>1. value = [i \in 1..N |-> {-1}]
      BY <2>3 DEF Init, Prior
    <3>2. QED
      BY <2>2, <3>1, VectorAssumption
  <2>4. CASE ~Fixed
    <3>1. \E k \in 0..MaxPrior : value = [i \in 1..k |-> {-1}]
      BY <2>4 DEF Init, Prior
    <3>2. PICK k \in 0..MaxPrior : value = [i \in 1..k |-> {-1}]
      BY <3>1
    <3>3. k \in Nat
      BY VectorAssumption
    <3>4. QED
      BY <2>2, <2>4, <3>2, <3>3
  <2>5. QED
    BY <2>3, <2>4
<1>4. TypeOK
  <2>1. SourceTypeOK
    BY <1>1, <1>2 DEF SourceTypeOK, Phases
  <2>2. the_error \in Errors /\ inner \in Handlers
    BY <1>1, <1>2 DEF NoError, Errors, Fresh, Handlers, Statuses
  <2>3. index \in 0..N-1
    BY <1>2, VectorAssumption
  <2>4. QED
    BY <1>1, <1>2, <1>3, <2>1, <2>2, <2>3 DEF TypeOK
<1>5. StackMirrorsText /\ SourceConsistent
  BY <1>2 DEF StackMirrorsText, SourceConsistent
<1>6. ElementIsolated
  <2>1. ~(Len(open) > 1)
    BY <1>2
  <2>2. QED
    BY <1>2, <2>1 DEF ElementIsolated, Blank
<1>7. VectorExact
  BY <1>2, <1>3 DEF VectorExact
<1>8. RefusalRecorded
  BY <1>2 DEF RefusalRecorded, NoError, Fresh
<1>9. QED
  BY <1>4, <1>5, <1>6, <1>7, <1>8 DEF IInv


-----------------------------------------------------------------------------
(* Steps at depth 0, between values and of the source alone.               *)

(* The value does not begin with an array.                                 *)
LEMMA DepthRejection ==
  ASSUME IInv, NEW e \in {"Scalar", "StartObject"}, RejectedByDepth(e),
         UNCHANGED <<base, container>>, noted' \in BOOLEAN
  PROVE  IInv'
<1>0. container' = container /\ Fixed' = Fixed
  BY DEF Fixed
<1>1. e \in Events /\ e \notin Ends
  BY DEF Events, Starts, Ends
<1>2. open \in Seq(Kinds) /\ phase' = "terminated" /\ open' = After(open, e)
      /\ count' = count /\ keyed' \in BOOLEAN /\ state' = state
      /\ the_error' = TypeMismatch /\ inner' = inner /\ current' = current
      /\ value' = value /\ index' = index
  BY DEF RejectedByDepth, Emit, IInv, TypeOK, SourceTypeOK
<1>3. phase \in {"waiting", "reading"} /\ ~Alive' /\ state = <<>>
  BY <1>2 DEF RejectedByDepth, Emit, MayEmit, ValueMayBegin, Starts, Alive
<1>4. inner = Fresh
  BY <1>3 DEF IInv, StackMirrorsText, ElementIsolated, Alive
<1>5. TypeOK'
  <2>1. SourceTypeOK'
    BY <1>1, <1>2, AfterFacts DEF IInv, TypeOK, SourceTypeOK, Phases
  <2>2. the_error' \in Errors
    BY <1>2 DEF TypeMismatch, Errors
  <2>3. QED
    BY <1>0, <1>2, <2>1, <2>2 DEF IInv, TypeOK
<1>6. RefusalRecorded'
  BY <1>2, <1>4 DEF RefusalRecorded, TypeMismatch, NoError, Fresh
<1>7. QED
  BY <1>2, <1>3, <1>5, <1>6
     DEF IInv, SourceConsistent, StackMirrorsText, ElementIsolated, VectorExact

(* The outermost array begins.                                             *)
LEMMA OuterStart ==
  ASSUME IInv, state = <<>>, state' = Append(state, "array"),
         Emit("StartArray", TRUE),
         UNCHANGED <<the_error, current, inner, value, index, base,
                     container>>, noted' \in BOOLEAN
  PROVE  IInv'
<1>0. container' = container /\ Fixed' = Fixed
  BY DEF Fixed
<1>1. phase \in {"waiting", "reading"}
  BY DEF Emit, MayEmit, ValueMayBegin, Starts
<1>2. phase = "waiting" /\ open = <<>> /\ count = 0 /\ Alive
  BY <1>1 DEF IInv, StackMirrorsText, SourceConsistent, Alive
<1>3. After(open, "StartArray") = <<"array">> /\ state' = <<"array">>
  BY <1>2 DEF After, Starts, KindOf
<1>4. Len(<<"array">>) = 1 /\ <<"array">>[1] = "array" /\ <<"array">> # <<>>
      /\ <<"array">> \in Seq(Kinds)
  BY DEF Kinds
<1>5. open' = <<"array">> /\ phase' = "reading" /\ count' = 0
      /\ keyed' \in BOOLEAN
  BY <1>2, <1>3, <1>4 DEF Emit, ClosesElement, Ends
<1>6. inner = Fresh /\ current = Blank
  <2>1. ~(Len(open) > 1)
    BY <1>2
  <2>2. QED
    BY <1>2, <2>1 DEF IInv, ElementIsolated
<1>7. TypeOK'
  BY <1>0, <1>3, <1>4, <1>5 DEF IInv, TypeOK, SourceTypeOK, Phases
<1>8. StackMirrorsText' /\ SourceConsistent'
  BY <1>3, <1>4, <1>5 DEF StackMirrorsText, SourceConsistent, Alive
<1>9. ElementIsolated'
  <2>1. ~(Len(open') > 1)
    BY <1>4, <1>5
  <2>2. inner' = Fresh /\ current' = Blank
    BY <1>6
  <2>3. QED
    BY <2>1, <2>2 DEF ElementIsolated, Fresh, Blank
<1>10. VectorExact'
  BY <1>0, <1>2, <1>5 DEF IInv, VectorExact
<1>11. RefusalRecorded'
  BY <1>2, <1>5, <1>6 DEF IInv, RefusalRecorded, NoError, Fresh
<1>12. QED
  BY <1>7, <1>8, <1>9, <1>10, <1>11 DEF IInv

(* The outermost array ends and its length is accepted.                    *)
LEMMA OuterEnd ==
  ASSUME IInv, Len(state) = 1, state # <<>>, state' = Front(state),
         Emit("EndArray", TRUE),
         UNCHANGED <<the_error, current, inner, value, index, base,
                     container>>, noted' \in BOOLEAN
  PROVE  IInv'
<1>0. container' = container /\ Fixed' = Fixed
  BY DEF Fixed
<1>1. /\ phase = "reading" /\ state = open /\ open \in Seq(Kinds)
      /\ open # <<>> /\ Len(open) = 1
  BY InsideArray DEF Events, Ends
<1>2. Front(open) = <<>>
  BY <1>1, PopFacts
<1>3. After(open, "EndArray") = <<>>
  BY <1>2 DEF After, Starts, Ends
<1>4. open' = <<>> /\ state' = <<>> /\ phase' = "done" /\ count' = count
      /\ keyed' \in BOOLEAN
  BY <1>1, <1>2, <1>3 DEF Emit, ClosesElement
<1>5. inner = Fresh /\ current = Blank
  <2>1. ~(Len(open) > 1)
    BY <1>1
  <2>2. QED
    BY <1>1, <2>1 DEF IInv, ElementIsolated, Alive
<1>6. TypeOK'
  BY <1>0, <1>4, EmptySeq DEF IInv, TypeOK, SourceTypeOK, Phases
<1>7. StackMirrorsText' /\ SourceConsistent'
  BY <1>4 DEF StackMirrorsText, SourceConsistent, Alive
<1>8. ElementIsolated'
  <2>1. ~(Len(open') > 1)
    BY <1>4
  <2>2. inner' = Fresh /\ current' = Blank
    BY <1>5
  <2>3. QED
    BY <2>1, <2>2 DEF ElementIsolated, Fresh, Blank
<1>9. VectorExact'
  BY <1>0, <1>1, <1>4 DEF IInv, VectorExact, Alive
<1>10. RefusalRecorded'
  BY <1>1, <1>4, <1>5 DEF IInv, RefusalRecorded, NoError, Fresh
<1>11. QED
  BY <1>6, <1>7, <1>8, <1>9, <1>10 DEF IInv

(* The outermost array ends with a length std::array does not accept.      *)
LEMMA LengthRejection ==
  ASSUME IInv, Len(state) = 1, state # <<>>, Emit("EndArray", FALSE),
         the_error' = LengthMismatch(count),
         UNCHANGED <<state, current, inner, value, index, base,
                     container>>, noted' \in BOOLEAN
  PROVE  IInv'
<1>0. container' = container /\ Fixed' = Fixed
  BY DEF Fixed
<1>1. /\ phase = "reading" /\ state = open /\ open \in Seq(Kinds)
      /\ open # <<>> /\ count \in Nat
  BY InsideArray DEF Events, Ends, IInv, TypeOK, SourceTypeOK
<1>2. open' = After(open, "EndArray") /\ phase' = "terminated"
      /\ count' = count /\ keyed' \in BOOLEAN /\ ~Alive'
  BY DEF Emit, Alive
<1>3. After(open, "EndArray") \in Seq(Kinds)
  BY <1>1, AfterFacts DEF Events, Ends
<1>4. the_error' \in Errors /\ the_error' # NoError
      /\ the_error'.type # "ARRAY_ELEMENT"
  BY <1>1 DEF LengthMismatch, Errors, NoError
<1>5. inner = Fresh
  BY <1>1 DEF IInv, ElementIsolated, Alive
<1>6. TypeOK'
  BY <1>0, <1>1, <1>2, <1>3, <1>4 DEF IInv, TypeOK, SourceTypeOK, Phases
<1>7. RefusalRecorded'
  BY <1>2, <1>4, <1>5 DEF RefusalRecorded, NoError, Fresh
<1>8. QED
  BY <1>2, <1>6, <1>7
     DEF IInv, SourceConsistent, StackMirrorsText, ElementIsolated, VectorExact


-----------------------------------------------------------------------------
(* Every step keeps the invariant.                                         *)
LEMMA StepInvariant == IInv /\ [Next]_vars => IInv'
<1>. SUFFICES ASSUME IInv, [Next]_vars PROVE IInv'
  OBVIOUS
<1>0. /\ Events = {"Scalar", "Key", "StartArray", "EndArray", "StartObject",
                   "EndObject"}
      /\ state \in Seq(Kinds) /\ base \in Nat
      /\ container' = container /\ Fixed' = Fixed /\ noted' \in BOOLEAN
  BY DEF Events, Starts, Ends, IInv, TypeOK, Next, PartNotes, vars, Fixed
<1>1. CASE Scalar
  <2>1. CASE RejectedByDepth("Scalar")
    BY <1>0, <1>1, <2>1, DepthRejection DEF Scalar
  <2>2. CASE ~RejectedByDepth("Scalar")
    <3>1. PICK ok \in BOOLEAN :
            /\ Emit("Scalar", ok)
            /\ checked_event_forwarding("Scalar", ok, state)
      BY <1>1, <2>2 DEF Scalar
    <3>2. state # <<>> /\ state' = state /\ base' = base
      BY <1>1, <2>2 DEF Scalar
    <3>3. After(state, "Scalar") = state
      BY DEF After, Starts, Ends
    <3>4. CASE ok = TRUE
      BY <1>0, <3>1, <3>2, <3>3, <3>4, Acceptance DEF checked_event_forwarding
    <3>5. CASE ok = FALSE
      BY <1>0, <3>1, <3>2, <3>5, Rejection DEF checked_event_forwarding
    <3>6. QED
      BY <3>1, <3>4, <3>5
  <2>3. QED
    BY <2>1, <2>2
<1>2. CASE Key
  <2>1. PICK ok \in BOOLEAN :
          Emit("Key", ok) /\ checked_event_forwarding("Key", ok, state)
    BY <1>2 DEF Key
  <2>2. state # <<>> /\ state' = state /\ base' = base
    BY <1>2 DEF Key
  <2>3. After(state, "Key") = state
    BY DEF After, Starts, Ends
  <2>4. CASE ok = TRUE
    BY <1>0, <2>1, <2>2, <2>3, <2>4, Acceptance DEF checked_event_forwarding
  <2>5. CASE ok = FALSE
    BY <1>0, <2>1, <2>2, <2>5, Rejection DEF checked_event_forwarding
  <2>6. QED
    BY <2>1, <2>4, <2>5
<1>3. CASE StartArray
  <2>1. state' = Append(state, "array") /\ base' = base
    BY <1>3 DEF StartArray
  <2>2. state' \in Seq(Kinds) /\ state' # <<>> /\ Len(state') = Len(state) + 1
    BY <1>0, <2>1, PushFacts DEF Kinds
  <2>3. CASE state = <<>>
    <3>1. Emit("StartArray", TRUE)
          /\ UNCHANGED <<the_error, current, inner, value, index>>
      BY <1>3, <2>3 DEF StartArray
    <3>2. QED
      BY <1>0, <2>1, <2>3, <3>1, OuterStart
  <2>4. CASE state # <<>>
    <3>1. After(state, "StartArray") = state'
      BY <2>1 DEF After, Starts, KindOf
    <3>2. ~Settled(state')
      BY <1>0, <2>2, <2>4, EmptySeq DEF Settled
    <3>3. CASE /\ Emit("StartArray", TRUE)
               /\ inner' = Feed(inner, "StartArray", TRUE)
               /\ current' = Written
               /\ UNCHANGED <<the_error, value, index>>
      <4>1. push_when_time_is_right(state', Written,
                                    Feed(inner, "StartArray", TRUE))
        BY <3>2, <3>3 DEF push_when_time_is_right
      <4>2. QED
        BY <1>0, <2>1, <2>2, <2>4, <3>1, <3>3, <4>1, Acceptance
    <3>4. CASE Emit("StartArray", FALSE) /\ RejectedByElement("StartArray")
      BY <1>0, <2>1, <2>2, <2>4, <3>4, Rejection
    <3>5. QED
      BY <1>3, <2>4, <3>3, <3>4 DEF StartArray
  <2>5. QED
    BY <2>3, <2>4
<1>4. CASE EndArray
  <2>1. base' = base /\ (Emit("EndArray", TRUE) \/ Emit("EndArray", FALSE))
    BY <1>4 DEF EndArray
  <2>2. state # <<>>
    <3>1. open # <<>> /\ phase = "reading"
      BY <2>1 DEF Emit, MayEmit, InArray, Starts
    <3>2. QED
      BY <3>1 DEF IInv, StackMirrorsText, Alive
  <2>3. Len(state) \in Nat \ {0}
    BY <1>0, <2>2, EmptySeq
  <2>4. CASE /\ Len(state) > 1 /\ Emit("EndArray", FALSE)
             /\ RejectedByElement("EndArray") /\ UNCHANGED state
    BY <1>0, <2>1, <2>2, <2>4, Rejection
  <2>5. CASE /\ Settled(state) /\ Emit("EndArray", FALSE)
             /\ the_error' = LengthMismatch(count)
             /\ UNCHANGED <<state, current, inner, value, index>>
    <3>1. Len(state) = 1
      BY <2>5 DEF Settled
    <3>2. QED
      BY <1>0, <2>1, <2>2, <2>5, <3>1, LengthRejection
  <2>6. CASE /\ Emit("EndArray", TRUE) /\ state' = Front(state)
             /\ IF Len(state) > 1
                THEN push_when_time_is_right(Front(state), Written,
                                             Feed(inner, "EndArray", TRUE))
                ELSE push_when_time_is_right(Front(state), current, inner)
             /\ UNCHANGED the_error
    <3>1. /\ Len(Front(state)) = Len(state) - 1
          /\ Front(state) = <<>> <=> Len(state) = 1
          /\ After(state, "EndArray") = Front(state)
      <4>1. After(state, "EndArray") = Front(state)
        BY DEF After, Starts, Ends
      <4>2. QED
        BY <1>0, <2>2, <4>1, PopFacts
    <3>2. CASE Len(state) > 1
      <4>1. Front(state) # <<>>
        BY <3>1, <3>2
      <4>2. QED
        BY <1>0, <2>1, <2>2, <2>6, <3>1, <3>2, <4>1, Acceptance
    <3>3. CASE ~(Len(state) > 1)
      <4>1. Len(state) = 1
        BY <2>3, <3>3
      <4>2. ~Settled(Front(state))
        BY <3>1, <4>1 DEF Settled
      <4>3. UNCHANGED <<current, inner, value, index>>
        BY <2>6, <3>3, <4>2 DEF push_when_time_is_right
      <4>4. QED
        BY <1>0, <2>1, <2>2, <2>6, <4>1, <4>3, OuterEnd
    <3>4. QED
      BY <3>2, <3>3
  <2>7. QED
    BY <1>4, <2>4, <2>5, <2>6 DEF EndArray
<1>5. CASE StartObject
  <2>1. CASE RejectedByDepth("StartObject")
    BY <1>0, <1>5, <2>1, DepthRejection DEF StartObject
  <2>2. CASE ~RejectedByDepth("StartObject")
    <3>1. state # <<>> /\ state' = Append(state, "object") /\ base' = base
      BY <1>5, <2>2 DEF StartObject
    <3>2. PICK ok \in BOOLEAN :
            /\ Emit("StartObject", ok)
            /\ checked_event_forwarding("StartObject", ok, state')
      BY <1>5, <2>2 DEF StartObject
    <3>3. /\ After(state, "StartObject") = state'
          /\ state' # <<>> /\ state' \in Seq(Kinds)
      BY <1>0, <3>1, PushFacts DEF After, Starts, KindOf, Kinds
    <3>4. CASE ok = TRUE
      BY <1>0, <3>1, <3>2, <3>3, <3>4, Acceptance DEF checked_event_forwarding
    <3>5. CASE ok = FALSE
      BY <1>0, <3>1, <3>2, <3>3, <3>5, Rejection DEF checked_event_forwarding
    <3>6. QED
      BY <3>2, <3>4, <3>5
  <2>3. QED
    BY <2>1, <2>2
<1>6. CASE EndObject
  <2>1. Len(state) > 1 /\ state' = Front(state) /\ base' = base
    BY <1>6 DEF EndObject
  <2>2. PICK ok \in BOOLEAN :
          /\ Emit("EndObject", ok)
          /\ checked_event_forwarding("EndObject", ok, state')
    BY <1>6 DEF EndObject
  <2>3. state # <<>>
    <3>1. Len(<<>>) = 0
      OBVIOUS
    <3>2. QED
      BY <2>1, <3>1
  <2>4. /\ After(state, "EndObject") = state'
        /\ state' # <<>> /\ state' \in Seq(Kinds)
    <3>1. After(state, "EndObject") = state'
      BY <2>1 DEF After, Starts, Ends
    <3>2. state' \in Seq(Kinds) /\ (state' = <<>> <=> Len(state) = 1)
      BY <1>0, <2>1, <2>3, PopFacts
    <3>3. Len(state) # 1
      <4>1. Len(state) \in Nat
        BY <1>0, LenProperties
      <4>2. \A n \in Nat : n > 1 => n # 1
        OBVIOUS
      <4>3. QED
        BY <2>1, <4>1, <4>2
    <3>4. QED
      BY <3>1, <3>2, <3>3
  <2>5. CASE ok = TRUE
    BY <1>0, <2>1, <2>2, <2>3, <2>4, <2>5, Acceptance DEF checked_event_forwarding
  <2>6. CASE ok = FALSE
    BY <1>0, <2>1, <2>2, <2>3, <2>4, <2>6, Rejection DEF checked_event_forwarding
  <2>7. QED
    BY <2>2, <2>5, <2>6
<1>7. CASE SyntaxError
  <2>1. phase \in {"waiting", "reading", "done"} /\ phase' = "malformed"
        /\ UNCHANGED <<open, keyed, count>> /\ UNCHANGED handlerVars
    BY <1>7 DEF SyntaxError, Malformed
  <2>2. TypeOK'
    BY <1>0, <2>1 DEF IInv, TypeOK, SourceTypeOK, Phases, handlerVars
  <2>3. RefusalRecorded'
    BY <2>1 DEF IInv, RefusalRecorded, NoError, handlerVars, ElementIsolated,
               Fresh, Alive
  <2>4. QED
    BY <2>1, <2>2, <2>3
       DEF IInv, SourceConsistent, StackMirrorsText, ElementIsolated, VectorExact,
           Alive
<1>8. CASE PrepareForReuse
  <2>1. /\ phase = "done" /\ phase' = "waiting" /\ count' = 0
        /\ open' = open /\ keyed' = keyed /\ the_error' = NoError
        /\ state' = <<>> /\ inner' = Fresh /\ current' = current
        /\ index' = index /\ value' = EmptyContainer
        /\ base' = Len(EmptyContainer)
    BY <1>8 DEF PrepareForReuse, AnotherValue
  <2>2. open = <<>> /\ current = Blank
    <3>1. open = <<>>
      BY <2>1 DEF IInv, SourceConsistent
    <3>2. ~(Len(open) > 1)
      BY <3>1
    <3>3. QED
      BY <2>1, <3>1, <3>2 DEF IInv, ElementIsolated, Alive
  <2>3. /\ EmptyContainer \in Seq(SUBSET (Nat \cup {-1}))
        /\ Len(EmptyContainer) \in Nat
        /\ Fixed => Len(EmptyContainer) = N
    <3>1. CASE Fixed
      <4>1. EmptyContainer = [i \in 1..N |-> {}]
        BY <3>1 DEF EmptyContainer, Blank
      <4>2. {} \in SUBSET (Nat \cup {-1})
        OBVIOUS
      <4>3. QED
        BY <4>1, <4>2, IsASeq, VectorAssumption
    <3>2. CASE ~Fixed
      BY <3>2, EmptySeq DEF EmptyContainer
    <3>3. QED
      BY <3>1, <3>2
  <2>4. TypeOK'
    <3>1. inner' \in Handlers /\ the_error' \in Errors
      BY <2>1, EmptySeq DEF Fresh, Handlers, Statuses, NoError, Errors
    <3>2. SourceTypeOK' /\ state' \in Seq(Kinds)
      BY <2>1, EmptySeq DEF IInv, TypeOK, SourceTypeOK, Phases
    <3>3. QED
      BY <1>0, <2>1, <2>3, <3>1, <3>2 DEF IInv, TypeOK
  <2>5. StackMirrorsText' /\ SourceConsistent'
    BY <2>1, <2>2 DEF StackMirrorsText, SourceConsistent
  <2>6. ElementIsolated'
    <3>1. ~(Len(open') > 1)
      BY <2>1, <2>2
    <3>2. QED
      BY <2>1, <2>2, <3>1 DEF ElementIsolated, Fresh, Blank
  <2>7. VectorExact'
    BY <1>0, <2>1, <2>3 DEF VectorExact
  <2>8. RefusalRecorded'
    BY <2>1 DEF RefusalRecorded, NoError, Fresh
  <2>9. QED
    BY <2>4, <2>5, <2>6, <2>7, <2>8 DEF IInv
<1>9. CASE RepeatedMember
  <2>1. /\ phase = "done" /\ phase' = "waiting" /\ count' = 0
        /\ open' = open /\ keyed' = keyed /\ base' = Len(value)
        /\ UNCHANGED <<state, the_error, current, inner, value, index>>
    BY <1>9 DEF RepeatedMember, AnotherValue
  <2>2. Len(value) \in Nat
    BY LenProperties DEF IInv, TypeOK
  <2>3. TypeOK'
    BY <1>0, <2>1, <2>2 DEF IInv, TypeOK, SourceTypeOK, Phases
  <2>4. open = <<>> /\ state = <<>>
    BY <2>1 DEF IInv, SourceConsistent, StackMirrorsText, Alive
  <2>5. StackMirrorsText' /\ SourceConsistent'
    BY <2>1, <2>4 DEF StackMirrorsText, SourceConsistent
  <2>6. ElementIsolated'
    <3>1. ~(Len(open) > 1)
      BY <2>4
    <3>2. QED
      BY <2>1, <3>1 DEF IInv, ElementIsolated, Fresh, Blank, Alive
  <2>7. VectorExact'
    BY <1>0, <2>1, <2>2 DEF VectorExact
  <2>8. RefusalRecorded'
    BY <2>1 DEF IInv, RefusalRecorded, NoError
  <2>9. QED
    BY <2>3, <2>5, <2>6, <2>7, <2>8 DEF IInv
<1>10. CASE UNCHANGED vars
  BY <1>10
     DEF vars, sourceVars, handlerVars, Fixed, IInv, TypeOK, SourceTypeOK,
         SourceConsistent, StackMirrorsText, ElementIsolated, VectorExact,
         RefusalRecorded, Alive
<1>11. QED
  BY <1>1, <1>2, <1>3, <1>4, <1>5, <1>6, <1>7, <1>8, <1>9, <1>10 DEF Next

(* The handler's variables keep their types; the conjuncts that matter are *)
(* that a std::array's index stays inside the array and its length N.      *)
THEOREM TypeCorrect == Spec => []TypeOK
<1>1. IInv => TypeOK
  BY DEF IInv
<1>2. QED
  BY InitInvariant, StepInvariant, <1>1, PTL DEF Spec

(* The handler's stack is the text's stack, so the assertions in EndArray  *)
(* and EndObject hold and elements are pushed at the right time.           *)
THEOREM MirrorsText == Spec => []StackMirrorsText
<1>1. IInv => StackMirrorsText
  BY DEF IInv
<1>2. QED
  BY InitInvariant, StepInvariant, <1>1, PTL DEF Spec

(* No event of one element ever reaches the handler of another.            *)
THEOREM Isolation == Spec => []ElementIsolated
<1>1. IInv => ElementIsolated
  BY DEF IInv
<1>2. QED
  BY InitInvariant, StepInvariant, <1>1, PTL DEF Spec

(* A std::vector or std::deque holds what it held before and then every    *)
(* element of the JSON array once, in order, made of its own events.       *)
THEOREM Exactness == Spec => []VectorExact
<1>1. IInv => VectorExact
  BY DEF IInv
<1>2. QED
  BY InitInvariant, StepInvariant, <1>1, PTL DEF Spec

(* An element holds an error it has noted only in the middle of its value. *)
NotedInside == noted => inner.status = "busy"

(* PartNotes keeps it.                                                     *)
LEMMA StepNoted == NotedInside /\ [Next]_vars => NotedInside'
<1>1. CASE Next
  BY <1>1 DEF Next, PartNotes, NotedInside
<1>2. CASE UNCHANGED vars
  BY <1>2 DEF vars, handlerVars, NotedInside
<1>3. QED
  BY <1>1, <1>2

(* The trace ReapError collects has no gap and no stale link, whatever the *)
(* element notes while the parse goes on.                                  *)
THEOREM TraceComplete == Spec => []TraceContinues
<1>1. Init => NotedInside
  BY DEF Init, NotedInside
<1>2. IInv /\ NotedInside => TraceContinues
  BY DEF IInv, NotedInside, RefusalRecorded, TraceContinues, HasError, NoError
<1>3. QED
  BY InitInvariant, StepInvariant, StepNoted, <1>1, <1>2, PTL DEF Spec
-----------------------------------------------------------------------------
(* Positions: where a std::array puts its elements, and which position an  *)
(* error names.                                                            *)

Positions ==
  /\ Fixed /\ Alive => index = count % N
  /\ Fixed /\ Alive /\ count <= N => \A i \in 1..count : value[i] = {i - 1}
  /\ phase = "done" => CheckLength(count)
  /\ ErrorNamesElement

(* Going on by one position and wrapping is the same before and after.     *)
LEMMA RemainderStep ==
  ASSUME NEW n \in Nat \ {0}, NEW c \in Nat
  PROVE  ((c % n) + 1) % n = (c + 1) % n
<1>. DEFINE q == c \div n
            r == c % n
<1>1. q \in Int /\ r \in 0..n-1 /\ r = c - n * q
  OBVIOUS
<1>. HIDE DEF q, r
<1>2. n * q \in Int /\ c + 1 = n * q + (r + 1)
  BY <1>1
<1>3. \A p \in Int, t \in 0..n-1 : (n * p + t) % n = t
  OBVIOUS
<1>4. CASE r + 1 < n
  <2>1. r + 1 \in 0..n-1
    BY <1>1, <1>4
  <2>2. (r + 1) % n = r + 1
    BY <2>1
  <2>3. QED
    BY <1>1, <1>2, <1>3, <2>1, <2>2 DEF r
<1>5. CASE r + 1 = n
  <2>1. n * (q + 1) = n * q + n /\ q + 1 \in Int
    BY <1>1
  <2>2. c + 1 = n * (q + 1) + 0
    BY <1>1, <1>2, <1>5, <2>1
  <2>3. (n * (q + 1) + 0) % n = 0
    <3>1. 0 \in 0..n-1
      OBVIOUS
    <3>2. QED
      BY <1>3, <2>1, <3>1
  <2>4. n % n = 0
    OBVIOUS
  <2>5. QED
    BY <1>5, <2>2, <2>3, <2>4 DEF r
<1>6. QED
  BY <1>1, <1>4, <1>5

(* What a step can be for the positions: an element is pushed, ...         *)
Pushed ==
  /\ phase = "reading" /\ phase' = "reading" /\ count' = count + 1
  /\ Push({count}) /\ UNCHANGED <<base, the_error>>

(* ... the value goes on, or the text breaks, ...                          *)
Kept ==
  /\ Alive /\ phase' \in {"reading", "malformed"}
  /\ UNCHANGED <<value, index, base, the_error, count>>

(* ... the value ends, ...                                                 *)
Ended ==
  /\ Alive /\ CheckLength(count)
  /\ UNCHANGED <<value, index, base, the_error, count>>

(* ... it is rejected, ...                                                 *)
Rejected ==
  /\ Alive /\ phase' = "terminated"
  /\ UNCHANGED <<value, index, base, count>>
  /\ the_error' \in {TypeMismatch, LengthMismatch(count),
                     ElementError(GetCurrentSize)}

(* ... or another value follows.                                           *)
Restarted ==
  /\ phase = "done" /\ phase' = "waiting" /\ count' = 0
  /\ index' = index /\ the_error' = NoError

(* An accepted event inside the outermost array is one of the first two.   *)
LEMMA AcceptedStep ==
  ASSUME IInv, state # <<>>, NEW e \in Events, Emit(e, TRUE),
         state' = After(state, e), After(state, e) # <<>>, NEW h,
         push_when_time_is_right(state', Written, h),
         UNCHANGED <<the_error, base>>
  PROVE  Pushed \/ Kept
<1>. DEFINE st == After(open, e)
<1>1. /\ phase = "reading" /\ state = open /\ Written = {count}
      /\ st # <<>>
      /\ ClosesElement(e) <=> Len(st) = 1
      /\ Settled(st) <=> Len(st) = 1
  BY StackAfter
<1>2. /\ state' = st /\ phase' = "reading" /\ Alive
      /\ count' = IF ClosesElement(e) THEN count + 1 ELSE count
  BY <1>1 DEF Emit, Alive
<1>. HIDE DEF st
<1>3. CASE Len(st) = 1
  <2>1. Push({count}) /\ count' = count + 1
    BY <1>1, <1>2, <1>3 DEF push_when_time_is_right
  <2>2. QED
    BY <1>1, <1>2, <2>1 DEF Pushed
<1>4. CASE Len(st) # 1
  <2>1. value' = value /\ index' = index /\ count' = count
    BY <1>1, <1>2, <1>4 DEF push_when_time_is_right
  <2>2. QED
    BY <1>2, <2>1 DEF Kept
<1>5. QED
  BY <1>3, <1>4

(* A refused one is a rejection.                                           *)
LEMMA RejectedStep ==
  ASSUME NEW e \in Events, Emit(e, FALSE),
         RejectedByElement(e) \/ RejectedByDepth(e), UNCHANGED base
  PROVE  Rejected
<1>1. phase \in {"waiting", "reading"} /\ phase' = "terminated" /\ count' = count
  BY DEF Emit, MayEmit, ValueMayBegin, Events, Starts, Ends
<1>2. UNCHANGED <<value, index>> /\ the_error' \in {TypeMismatch, ElementError(GetCurrentSize)}
  BY DEF RejectedByElement, RejectedByDepth, set_element_error
<1>3. QED
  BY <1>1, <1>2 DEF Rejected, Alive

(* Every step is one of the five.                                          *)
LEMMA StepKinds ==
  ASSUME IInv, Next
  PROVE  Pushed \/ Kept \/ Ended \/ Rejected \/ Restarted
<1>1. /\ Events = {"Scalar", "Key", "StartArray", "EndArray", "StartObject",
                   "EndObject"}
      /\ state \in Seq(Kinds)
  BY DEF Events, Starts, Ends, IInv, TypeOK
<1>2. CASE \E e \in {"Scalar", "StartObject"} : RejectedByDepth(e) /\ UNCHANGED base
  <2>1. PICK e \in {"Scalar", "StartObject"} : RejectedByDepth(e) /\ UNCHANGED base
    BY <1>2
  <2>2. Emit(e, FALSE) /\ e \in Events
    BY <1>1, <2>1 DEF RejectedByDepth
  <2>3. QED
    BY <2>1, <2>2, RejectedStep
<1>3. ASSUME NEW e \in {"Scalar", "Key", "StartObject", "EndObject"},
             NEW ok \in BOOLEAN, Emit(e, ok), state # <<>>,
             checked_event_forwarding(e, ok, state'), UNCHANGED base,
             ok => state' = After(state, e) /\ After(state, e) # <<>>
      PROVE  Pushed \/ Kept \/ Rejected
  <2>1. CASE ok = TRUE
    <3>1. push_when_time_is_right(state', Written, Feed(inner, e, TRUE))
          /\ UNCHANGED the_error /\ Emit(e, TRUE)
      BY <1>3, <2>1 DEF checked_event_forwarding
    <3>2. QED
      BY <1>1, <1>3, <2>1, <3>1, AcceptedStep
  <2>2. CASE ok = FALSE
    <3>1. RejectedByElement(e) /\ Emit(e, FALSE)
      BY <1>3, <2>2 DEF checked_event_forwarding
    <3>2. QED
      BY <1>1, <1>3, <3>1, RejectedStep
  <2>3. QED
    BY <2>1, <2>2
<1>4. CASE Scalar \/ Key
  <2>1. \A e \in {"Scalar", "Key"} : After(state, e) = state
    BY DEF After, Starts, Ends
  <2>2. CASE Scalar /\ ~RejectedByDepth("Scalar")
    <3>1. PICK ok \in BOOLEAN :
            Emit("Scalar", ok) /\ checked_event_forwarding("Scalar", ok, state)
      BY <2>2 DEF Scalar
    <3>2. state # <<>> /\ state' = state /\ UNCHANGED base
      BY <2>2 DEF Scalar
    <3>3. QED
      BY <1>3, <2>1, <3>1, <3>2
  <2>3. CASE Key
    <3>1. PICK ok \in BOOLEAN :
            Emit("Key", ok) /\ checked_event_forwarding("Key", ok, state)
      BY <2>3 DEF Key
    <3>2. state # <<>> /\ state' = state /\ UNCHANGED base
      BY <2>3 DEF Key
    <3>3. QED
      BY <1>3, <2>1, <3>1, <3>2
  <2>4. QED
    BY <1>2, <1>4, <2>2, <2>3 DEF Scalar
<1>5. CASE StartArray
  <2>1. state' = Append(state, "array") /\ UNCHANGED base
    BY <1>5 DEF StartArray
  <2>2. CASE /\ state = <<>> /\ Emit("StartArray", TRUE)
             /\ UNCHANGED <<the_error, value, index>>
    <3>1. phase \in {"waiting", "reading"}
      BY <2>2 DEF Emit, MayEmit, ValueMayBegin, Starts
    <3>2. Alive /\ open = <<>>
      BY <2>2, <3>1 DEF Alive, IInv, StackMirrorsText
    <3>3. After(open, "StartArray") = <<"array">>
      BY <3>2 DEF After, Starts, KindOf
    <3>4. phase' = "reading" /\ count' = count
      BY <2>2, <3>3 DEF Emit, ClosesElement, Ends
    <3>5. QED
      BY <2>1, <2>2, <3>2, <3>4 DEF Kept
  <2>3. CASE /\ state # <<>> /\ Emit("StartArray", TRUE)
             /\ UNCHANGED <<the_error, value, index>>
    <3>1. /\ After(state, "StartArray") = state' /\ state' # <<>>
          /\ Len(state') = Len(state) + 1
      BY <1>1, <2>1, PushFacts DEF After, Starts, KindOf, Kinds
    <3>2. phase' = "reading" /\ count' = count /\ Alive
      <4>1. phase = "reading" /\ state = open /\ After(open, "StartArray") # <<>>
        BY <1>1, <2>3, <3>1, InsideArray
      <4>2. QED
        BY <2>3, <4>1 DEF Emit, ClosesElement, Ends, Alive
    <3>3. QED
      BY <2>1, <2>3, <3>2 DEF Kept
  <2>4. CASE Emit("StartArray", FALSE) /\ RejectedByElement("StartArray")
    BY <1>1, <2>1, <2>4, RejectedStep
  <2>5. QED
    BY <1>5, <2>2, <2>3, <2>4 DEF StartArray
<1>6. CASE EndArray
  <2>1. UNCHANGED base /\ (Emit("EndArray", TRUE) \/ Emit("EndArray", FALSE))
    BY <1>6 DEF EndArray
  <2>2. phase = "reading" /\ Alive /\ state # <<>>
    <3>1. open # <<>> /\ phase = "reading"
      BY <2>1 DEF Emit, MayEmit, InArray, Starts
    <3>2. QED
      BY <3>1 DEF IInv, StackMirrorsText, Alive
  <2>3. state = open /\ Last(open) = "array" /\ Len(state) \in Nat \ {0}
    <3>1. state = open /\ Last(open) = "array"
      BY <2>1, <2>2 DEF IInv, StackMirrorsText, Emit, MayEmit, InArray, Starts
    <3>2. QED
      BY <1>1, <2>2, <3>1, EmptySeq
  <2>4. CASE Emit("EndArray", FALSE) /\ RejectedByElement("EndArray")
    BY <1>1, <2>1, <2>4, RejectedStep
  <2>5. CASE /\ Emit("EndArray", FALSE) /\ the_error' = LengthMismatch(count)
             /\ UNCHANGED <<value, index>>
    <3>1. phase' = "terminated" /\ count' = count
      BY <2>5 DEF Emit
    <3>2. QED
      BY <2>1, <2>2, <2>5, <3>1 DEF Rejected
  <2>6. CASE /\ Settled(state) => CheckLength(count)
             /\ Emit("EndArray", TRUE) /\ state' = Front(state)
             /\ IF Len(state) > 1
                THEN push_when_time_is_right(Front(state), Written,
                                             Feed(inner, "EndArray", TRUE))
                ELSE push_when_time_is_right(Front(state), current, inner)
             /\ UNCHANGED the_error
    <3>1. /\ Len(Front(state)) = Len(state) - 1
          /\ Front(state) = <<>> <=> Len(state) = 1
          /\ After(state, "EndArray") = Front(state)
      <4>1. After(state, "EndArray") = Front(state)
        BY DEF After, Starts, Ends
      <4>2. QED
        BY <1>1, <2>2, <4>1, PopFacts
    <3>2. CASE Len(state) > 1
      <4>1. Front(state) # <<>> /\ After(state, "EndArray") # <<>>
        BY <3>1, <3>2
      <4>2. push_when_time_is_right(state', Written, Feed(inner, "EndArray", TRUE))
        BY <2>6, <3>2
      <4>3. QED
        BY <1>1, <2>1, <2>2, <2>6, <3>1, <4>1, <4>2, AcceptedStep
    <3>3. CASE ~(Len(state) > 1)
      <4>1. Len(state) = 1 /\ Settled(state)
        <5>1. Len(state) = 1
          BY <2>3, <3>3
        <5>2. QED
          BY <2>3, <5>1 DEF Settled
      <4>2. ~Settled(Front(state))
        BY <3>1, <4>1 DEF Settled
      <4>3. UNCHANGED <<value, index>>
        BY <2>6, <3>3, <4>2 DEF push_when_time_is_right
      <4>4. count' = count
        <5>1. Len(After(open, "EndArray")) # 1
          BY <2>3, <3>1, <4>1
        <5>2. QED
          BY <2>6, <5>1 DEF Emit, ClosesElement
      <4>5. QED
        BY <2>1, <2>2, <2>6, <4>1, <4>3, <4>4 DEF Ended
    <3>4. QED
      BY <3>2, <3>3
  <2>7. QED
    BY <1>6, <2>4, <2>5, <2>6 DEF EndArray
<1>7. CASE StartObject /\ ~RejectedByDepth("StartObject")
  <2>1. state # <<>> /\ state' = Append(state, "object") /\ UNCHANGED base
    BY <1>7 DEF StartObject
  <2>2. PICK ok \in BOOLEAN :
          /\ Emit("StartObject", ok)
          /\ checked_event_forwarding("StartObject", ok, state')
    BY <1>7 DEF StartObject
  <2>3. After(state, "StartObject") = state' /\ state' # <<>>
    BY <1>1, <2>1, PushFacts DEF After, Starts, KindOf, Kinds
  <2>4. QED
    BY <1>3, <2>1, <2>2, <2>3
<1>8. CASE EndObject
  <2>1. Len(state) > 1 /\ state' = Front(state) /\ UNCHANGED base
    BY <1>8 DEF EndObject
  <2>2. PICK ok \in BOOLEAN :
          /\ Emit("EndObject", ok)
          /\ checked_event_forwarding("EndObject", ok, state')
    BY <1>8 DEF EndObject
  <2>3. state # <<>> /\ Len(state) # 1
    <3>1. Len(<<>>) = 0 /\ Len(state) \in Nat
      BY <1>1, LenProperties
    <3>2. \A n \in Nat : n > 1 => n # 1 /\ n # 0
      OBVIOUS
    <3>3. QED
      BY <2>1, <3>1, <3>2
  <2>4. After(state, "EndObject") = state' /\ state' # <<>>
    BY <1>1, <2>1, <2>3, PopFacts DEF After, Starts, Ends
  <2>5. QED
    BY <1>3, <2>1, <2>2, <2>3, <2>4
<1>9. CASE SyntaxError
  BY <1>9 DEF SyntaxError, Malformed, handlerVars, Kept, Alive
<1>10. CASE PrepareForReuse \/ RepeatedMember
  BY <1>10 DEF PrepareForReuse, RepeatedMember, AnotherValue, Restarted,
               IInv, RefusalRecorded
<1>11. QED
  BY <1>2, <1>4, <1>5, <1>6, <1>7, <1>8, <1>9, <1>10 DEF Next, StartObject

(* The initial states.                                                     *)
LEMMA InitPositions == Init => Positions
<1>. SUFFICES ASSUME Init PROVE Positions
  OBVIOUS
<1>1. phase = "waiting" /\ count = 0 /\ index = 0 /\ the_error = NoError
  BY DEF Init, SourceInit
<1>2. 0 % N = 0
  BY VectorAssumption
<1>3. QED
  BY <1>1, <1>2 DEF Positions, ErrorNamesElement, NoError

(* The stack's invariant and the positions after every step.               *)
LEMMA StepPositions == IInv /\ Positions /\ [Next]_vars => Positions'
<1>. SUFFICES ASSUME IInv, Positions, [Next]_vars PROVE Positions'
  OBVIOUS
<1>1. IInv'
  BY StepInvariant
<1>2. /\ container' = container /\ Fixed' = Fixed
      /\ \A length : CheckLength(length)' <=> CheckLength(length)
  BY DEF Next, vars, Fixed, CheckLength
<1>3. /\ N \in Nat \ {0} /\ count \in Nat /\ index \in 0..N-1
      /\ value \in Seq(SUBSET (Nat \cup {-1})) /\ (Fixed => Len(value) = N)
  BY VectorAssumption DEF IInv, TypeOK, SourceTypeOK
<1>4. NoError.type = "none" /\ TypeMismatch.type = "TYPE_MISMATCH"
      /\ (\A i : LengthMismatch(i).type = "ARRAY_LENGTH_MISMATCH")
      /\ (\A i : ElementError(i).at = i)
  BY DEF NoError, TypeMismatch, LengthMismatch, ElementError
<1>5. Alive => the_error = NoError
  BY DEF IInv, RefusalRecorded, Alive
<1>6. CASE Pushed
  <2>1. /\ Alive /\ phase' = "reading" /\ count' = count + 1 /\ Push({count})
        /\ the_error' = the_error
    BY <1>6 DEF Pushed, Alive
  <2>2. ErrorNamesElement'
    BY <1>4, <1>5, <2>1 DEF ErrorNamesElement
  <2>3. ASSUME Fixed
        PROVE  /\ index' = count' % N
               /\ count' <= N => \A i \in 1..count' : value'[i] = {i - 1}
    <3>1. /\ value' = [value EXCEPT ![index + 1] = {count}]
          /\ index' = (index + 1) % N /\ index = count % N
      BY <2>1, <2>3 DEF Push, Positions
    <3>2. index' = (count + 1) % N
      BY <1>3, <3>1, RemainderStep
    <3>3. ASSUME count + 1 <= N, NEW i \in 1..count + 1
          PROVE  value'[i] = {i - 1}
      <4>1. count < N /\ count <= N
        BY <1>3, <3>3
      <4>2. index = count
        BY <1>3, <3>1, <4>1
      <4>3. \A j \in 1..N : value'[j] = IF j = count + 1 THEN {count} ELSE value[j]
        <5>1. count + 1 \in 1..Len(value)
          BY <1>3, <2>3, <4>1
        <5>2. {count} \in SUBSET (Nat \cup {-1})
          BY <1>3
        <5>3. QED
          BY <1>3, <2>3, <3>1, <4>2, <5>1, <5>2, ExceptSeq
      <4>4. i \in 1..N
        BY <1>3, <3>3
      <4>5. CASE i = count + 1
        BY <1>3, <4>3, <4>4, <4>5
      <4>6. CASE i # count + 1
        <5>1. i \in 1..count
          BY <1>3, <4>6
        <5>2. value[i] = {i - 1}
          BY <2>1, <2>3, <4>1, <5>1 DEF Positions
        <5>3. QED
          BY <4>3, <4>4, <4>6, <5>2
      <4>7. QED
        BY <4>5, <4>6
    <3>4. QED
      BY <2>1, <3>2, <3>3
  <2>4. QED
    BY <1>2, <2>1, <2>2, <2>3 DEF Positions
<1>7. CASE Kept
  <2>1. Alive /\ phase' # "done" /\ phase' # "terminated"
        /\ UNCHANGED <<value, index, base, the_error, count>>
    BY <1>7 DEF Kept
  <2>2. ErrorNamesElement'
    BY <1>4, <1>5, <2>1 DEF ErrorNamesElement
  <2>3. QED
    BY <1>2, <2>1, <2>2 DEF Positions
<1>8. CASE Ended
  <2>1. Alive /\ CheckLength(count)
        /\ UNCHANGED <<value, index, base, the_error, count>>
    BY <1>8 DEF Ended
  <2>2. ErrorNamesElement'
    BY <1>4, <1>5, <2>1 DEF ErrorNamesElement
  <2>3. QED
    BY <1>2, <2>1, <2>2 DEF Positions
<1>9. CASE Rejected
  <2>1. Alive /\ ~Alive' /\ phase' # "done"
        /\ UNCHANGED <<value, index, base, count>>
        /\ the_error' \in {TypeMismatch, LengthMismatch(count),
                           ElementError(GetCurrentSize)}
    BY <1>9 DEF Rejected, Alive
  <2>2. GetCurrentSize = IF Fixed THEN count % N ELSE base + count
    BY <2>1 DEF GetCurrentSize, Positions, IInv, VectorExact
  <2>3. the_error'.type = "ARRAY_ELEMENT" => the_error'.at = GetCurrentSize
    BY <1>4, <2>1
  <2>4. ErrorNamesElement'
    BY <1>2, <2>1, <2>2, <2>3 DEF ErrorNamesElement
  <2>5. QED
    BY <2>1, <2>4 DEF Positions
<1>10. CASE Restarted
  <2>1. /\ Alive /\ phase' = "waiting" /\ count' = 0 /\ index' = index
        /\ the_error' = NoError /\ CheckLength(count)
    BY <1>10 DEF Restarted, Alive, Positions
  <2>2. Fixed => index' = count' % N
    <3>1. Fixed => index = count % N /\ count = N
      BY <2>1 DEF Positions, CheckLength
    <3>2. N % N = 0 /\ 0 % N = 0
      BY <1>3
    <3>3. QED
      BY <2>1, <3>1, <3>2
  <2>3. ErrorNamesElement'
    BY <1>4, <2>1 DEF ErrorNamesElement
  <2>4. QED
    BY <1>2, <2>1, <2>2, <2>3 DEF Positions
<1>11. CASE UNCHANGED vars
  BY <1>2, <1>11
     DEF vars, sourceVars, handlerVars, Positions, ErrorNamesElement, Alive
<1>12. QED
  BY <1>6, <1>7, <1>8, <1>9, <1>10, <1>11, StepKinds

(* What the positions say of an accepted std::array.                       *)
LEMMA PositionsMeanExact == IInv /\ Positions => ArrayExact
<1>. SUFFICES ASSUME IInv, Positions, Fixed PROVE ArrayExact
  BY DEF ArrayExact
<1>1. /\ N \in Nat \ {0} /\ value \in Seq(SUBSET (Nat \cup {-1})) /\ Len(value) = N
  BY VectorAssumption DEF IInv, TypeOK
<1>2. Alive => index = count % N
  BY DEF Positions
<1>3. phase = "waiting" => index = 0
  <2>1. phase = "waiting" => count = 0 /\ Alive
    BY DEF IInv, SourceConsistent, Alive
  <2>2. 0 % N = 0
    BY <1>1
  <2>3. QED
    BY <1>2, <2>1, <2>2
<1>4. ASSUME phase = "done"
      PROVE  value = [i \in 1..N |-> {i - 1}]
  <2>1. count = N /\ Alive
    BY <1>4 DEF Positions, CheckLength, Alive
  <2>2. \A i \in 1..N : value[i] = {i - 1}
    BY <1>1, <2>1 DEF Positions
  <2>3. value \in [1..N -> SUBSET (Nat \cup {-1})]
    BY <1>1, LenProperties
  <2>4. QED
    BY <2>2, <2>3
<1>5. QED
  BY <1>2, <1>3, <1>4 DEF ArrayExact

(* A std::array is filled slot by slot, from slot 0 whatever happened      *)
(* before, and accepted only when every slot is.                           *)
THEOREM FixedExactness == Spec => []ArrayExact
<1>1. QED
  BY InitInvariant, StepInvariant, InitPositions, StepPositions,
     PositionsMeanExact, PTL DEF Spec

(* The position in an ARRAY_ELEMENT error is that of the element.          *)
THEOREM ErrorPosition == Spec => []ErrorNamesElement
<1>1. Positions => ErrorNamesElement
  BY DEF Positions
<1>2. QED
  BY InitInvariant, StepInvariant, InitPositions, StepPositions, <1>1,
     PTL DEF Spec
=============================================================================
