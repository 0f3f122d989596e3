--------------------------- MODULE MapHandlerProofs ---------------------------
(***************************************************************************)
(* MapHandler keeps its stack, the isolation of its members, the exactness *)
(* of the map and the error trace, for every set of keys and every bound.  *)
(* As in VectorHandlerProofs the conjunction is inductive; what is added   *)
(* to the properties is where the source stands and that the handler's key *)
(* is the key that precedes the member in the text.                        *)
(***************************************************************************)
EXTENDS MapHandler, SourceLemmas

(* Where a value stands is where its containers stand, and the only        *)
(* container the handler lets begin at depth 0 is an object.               *)
SourceConsistent ==
  /\ phase \in {"waiting", "done"} => open = <<>> /\ ~keyed
  /\ phase = "reading" => open # <<>>
  /\ phase = "waiting" => count = 0
  /\ Alive /\ open # <<>> => open[1] = "object"

(* A key of the outermost object was read and its member has not ended.    *)
InMember == phase = "reading" /\ (keyed \/ Len(open) > 1)

(* One key was read for every finished member and one for the member that  *)
(* is being read, and that is the key the handler holds.                   *)
KeyOfMember ==
  Alive => IF InMember THEN Len(names) = count + 1 /\ key = names[count + 1]
                       ELSE Len(names) = count

(* What TraceContinues rests on: a rejection is told from a member's       *)
(* rejection by the kind of the error, the key is the member's, and a      *)
(* member that is in the middle of a value has not stopped the parse.      *)
RefusalRecorded ==
  /\ (the_error # NoError) = (phase = "terminated")
  /\ (the_error.type = "OBJECT_MEMBER") = (inner.status = "failed")
  /\ the_error.key # NoKey => the_error.key = names[count + 1]
  /\ inner.status = "busy" => Len(open) > 1 /\ phase # "terminated"

IInv ==
  /\ TypeOK
  /\ SourceConsistent
  /\ StackMirrorsText
  /\ ElementIsolated
  /\ KeyOfMember
  /\ MapExact
  /\ RefusalRecorded
  /\ DuplicateIsReal
-----------------------------------------------------------------------------
(* Events inside a member of the outermost object.                         *)

(* e is not the outermost object's own key or end.                         *)
OfMember(e) == e \in {"Key"} \cup Ends => Len(state) > 1

(* What the invariant says when an event of a member arrives.              *)
LEMMA InsideMember ==
  ASSUME IInv, state # <<>>, NEW e \in Events, OfMember(e),
         NEW ok \in BOOLEAN, Emit(e, ok)
  PROVE  /\ phase = "reading" /\ Alive /\ state = open /\ open[1] = "object"
         /\ open \in Seq(Kinds) /\ Len(open) \in Nat \ {0} /\ count \in Nat
         /\ e \in {"Key"} \cup Ends => Len(open) > 1
         /\ inner.fed = Tail(open)
         /\ Written = {count}
         /\ names \in Seq(Keys) /\ Len(names) = count + 1
         /\ key = names[count + 1] /\ key \in Keys
<1>1. phase \in {"waiting", "reading"} /\ Alive
  BY DEF Emit, MayEmit, ValueMayBegin, Alive, Events, Ends, Starts
<1>2. phase = "reading" /\ state = open /\ open[1] = "object"
  BY <1>1 DEF IInv, StackMirrorsText, SourceConsistent, Alive
<1>3. open \in Seq(Kinds) /\ Len(open) \in Nat \ {0} /\ count \in Nat
      /\ names \in Seq(Keys)
  BY <1>2, EmptySeq DEF IInv, TypeOK, SourceTypeOK
<1>4. e \in {"Key"} \cup Ends => Len(open) > 1
  BY <1>2 DEF OfMember
<1>5. Len(open) = 1 \/ Len(open) > 1
  <2>1. \A n \in Nat \ {0} : n = 1 \/ n > 1
    OBVIOUS
  <2>2. QED
    BY <1>3, <2>1
<1>6. inner.fed = Tail(open) /\ Written = {count}
  <2>1. CASE Len(open) > 1
    <3>1. inner.fed = Tail(open) /\ value = {count}
      BY <1>1, <2>1 DEF IInv, ElementIsolated
    <3>2. QED
      BY <3>1 DEF Written
  <2>2. CASE Len(open) = 1
    <3>1. inner = Fresh /\ value = {}
      BY <1>1, <2>2 DEF IInv, ElementIsolated, Blank
    <3>2. Tail(open) = <<>>
      BY <1>2, <1>3, <2>2, AboveBottom
    <3>3. QED
      BY <3>1, <3>2 DEF Written, Fresh
  <2>3. QED
    BY <1>5, <2>1, <2>2
<1>7. InMember
  <2>1. CASE Len(open) > 1
    BY <1>2, <2>1 DEF InMember
  <2>2. CASE Len(open) = 1
    <3>1. ~(Len(open) > 1)
      BY <2>2
    <3>2. e \in {"Scalar"} \cup Starts
      BY <1>4, <3>1 DEF Events
    <3>3. Last(open) = "object"
      BY <1>2, <2>2 DEF Last
    <3>4. ValueMayBegin
      BY <3>2 DEF Emit, MayEmit, Starts
    <3>5. keyed
      BY <1>2, <3>3, <3>4 DEF ValueMayBegin, InArray
    <3>6. QED
      BY <1>2, <3>5 DEF InMember
  <2>3. QED
    BY <1>5, <2>1, <2>2
<1>8. Len(names) = count + 1 /\ key = names[count + 1]
  BY <1>1, <1>7 DEF IInv, KeyOfMember
<1>9. key \in Keys
  BY <1>3, <1>8, ElementOfSeq
<1>10. QED
  BY <1>1, <1>2, <1>3, <1>4, <1>6, <1>8, <1>9

(* The stack after an event of a member: the outermost object stays open,  *)
(* and the member ends exactly when nothing else is.                       *)
LEMMA StackAfter ==
  ASSUME IInv, state # <<>>, NEW e \in Events, OfMember(e),
         NEW ok \in BOOLEAN, Emit(e, ok)
  PROVE  LET st == After(open, e)
         IN  /\ st \in Seq(Kinds) /\ st # <<>> /\ Len(st) \in Nat \ {0}
             /\ st[1] = "object"
             /\ Tail(st) = After(inner.fed, e)
             /\ Tail(st) \in Seq(Kinds) /\ (Tail(st) = <<>> <=> Len(st) = 1)
             /\ ClosesElement(e) <=> Len(st) = 1
             /\ Settled(st) <=> Len(st) = 1
<1>. DEFINE st == After(open, e)
<1>1. /\ open[1] = "object" /\ open \in Seq(Kinds) /\ Len(open) \in Nat \ {0}
      /\ e \in {"Key"} \cup Ends => Len(open) > 1
      /\ inner.fed = Tail(open)
  BY InsideMember
<1>2. open # <<>>
  BY <1>1
<1>3. /\ st \in Seq(Kinds) /\ st # <<>> /\ Len(st) \in Nat \ {0}
      /\ st[1] = "object"
      /\ e \in Starts => Len(st) = Len(open) + 1
      /\ e \notin Starts \cup Ends => st = open
  <2>1. /\ st \in Seq(Kinds)
        /\ e \in Starts => Len(st) = Len(open) + 1
        /\ e \in Ends => Len(st) = Len(open) - 1
        /\ e \notin Starts \cup Ends => st = open
        /\ Len(st) # 0 => st[1] = open[1]
    BY <1>1, <1>2, AfterFacts
  <2>2. st # <<>> /\ Len(st) \in Nat \ {0}
    BY <1>1, <2>1, EmptySeq
  <2>3. QED
    BY <1>1, <2>1, <2>2
<1>4. Tail(st) = After(inner.fed, e)
  BY <1>1, <1>2, AfterAboveBottom
<1>5. Tail(st) \in Seq(Kinds) /\ (Tail(st) = <<>> <=> Len(st) = 1)
  BY <1>3, AboveBottom
<1>6. ClosesElement(e) <=> Len(st) = 1
  <2>1. e \in {"Scalar"} \cup Starts \cup Ends \cup {"Key"}
    BY DEF Events
  <2>2. Len(st) = 1 => e \notin Starts /\ e # "Key"
    BY <1>1, <1>3 DEF Starts, Ends
  <2>3. QED
    BY <2>1, <2>2 DEF ClosesElement
<1>7. Settled(st) <=> Len(st) = 1
  BY <1>3 DEF Settled, Last
<1>8. QED
  BY <1>3, <1>4, <1>5, <1>6, <1>7

(* An event of a member is refused: by the member's handler, or because    *)
(* the key is in the map.                                                  *)
LEMMA Refusal ==
  ASSUME IInv, state # <<>>, NEW e \in Events, OfMember(e), Emit(e, FALSE),
         value' = Written, state' \in Seq(Kinds), noted' \in BOOLEAN,
         UNCHANGED <<key, base, names, m_value>>,
         \/ inner' = Feed(inner, e, FALSE) /\ the_error' = ObjectMember
         \/ /\ inner' = Feed(inner, e, TRUE) /\ the_error' = DuplicateKeys
            /\ key \in DOMAIN m_value /\ Settled(After(open, e))
  PROVE  IInv'
<1>1. /\ phase' = "terminated" /\ count' = count /\ open' = After(open, e)
      /\ keyed' \in BOOLEAN /\ ~Alive'
  BY DEF Emit, Alive
<1>2. /\ After(open, e) \in Seq(Kinds)
      /\ After(inner.fed, e) \in Seq(Kinds)
  BY StackAfter
<1>3. /\ Alive /\ count \in Nat /\ key \in Keys /\ key = names[count + 1]
      /\ Written = {count}
  BY InsideMember
<1>4. /\ the_error' \in Errors /\ the_error' # NoError /\ the_error'.key = key
      /\ the_error'.type \in {"OBJECT_MEMBER", "DUPLICATE_KEYS"}
      /\ (the_error'.type = "OBJECT_MEMBER") = (inner'.status = "failed")
      /\ inner'.status # "busy"
      /\ the_error'.type = "DUPLICATE_KEYS" => key \in DOMAIN m_value
  <2>1. CASE inner' = Feed(inner, e, FALSE) /\ the_error' = ObjectMember
    BY <1>3, <2>1 DEF ObjectMember, Errors, NoError, Feed
  <2>2. CASE /\ inner' = Feed(inner, e, TRUE) /\ the_error' = DuplicateKeys
             /\ key \in DOMAIN m_value /\ Settled(After(open, e))
    <3>1. After(inner.fed, e) = <<>>
      BY <2>2, StackAfter
    <3>2. inner'.status = "complete"
      BY <2>2, <3>1 DEF Feed
    <3>3. QED
      BY <1>3, <2>2, <3>2 DEF DuplicateKeys, Errors, NoError
  <2>3. QED
    BY <2>1, <2>2
<1>5. inner' \in Handlers
  BY <1>2 DEF Feed, Handlers, Statuses
<1>6. TypeOK'
  <2>1. SourceTypeOK'
    BY <1>1, <1>2, <1>3 DEF SourceTypeOK, Phases
  <2>2. value' \in Origins
    BY <1>3 DEF Origins
  <2>3. QED
    BY <1>4, <1>5, <2>1, <2>2 DEF IInv, TypeOK
<1>7. RefusalRecorded'
  BY <1>1, <1>3, <1>4 DEF RefusalRecorded
<1>8. DuplicateIsReal'
  <2>1. ASSUME key \in DOMAIN m_value
        PROVE  key \in DOMAIN base \/ \E i \in 1..count : names[i] = key
    BY <1>3, <2>1 DEF IInv, MapExact
  <2>2. QED
    BY <1>1, <1>4, <2>1 DEF DuplicateIsReal
<1>9. QED
  BY <1>1, <1>6, <1>7, <1>8
     DEF IInv, SourceConsistent, StackMirrorsText, ElementIsolated, KeyOfMember,
         MapExact

(* An event of a member is accepted and the member goes on.                *)
LEMMA Continuation ==
  ASSUME IInv, state # <<>>, NEW e \in Events, OfMember(e),
         state' = After(state, e), ~Settled(state'), ContinueMember(e),
         UNCHANGED <<key, base, names>>, noted' \in BOOLEAN
  PROVE  IInv'
<1>. DEFINE st == After(open, e)
<1>0. Emit(e, TRUE) /\ value' = Written /\ inner' = Feed(inner, e, TRUE)
      /\ UNCHANGED <<the_error, m_value>>
  BY DEF ContinueMember
<1>1. /\ phase = "reading" /\ Alive /\ state = open /\ count \in Nat
      /\ Written = {count} /\ Len(names) = count + 1 /\ key = names[count + 1]
  BY <1>0, InsideMember
<1>2. /\ st \in Seq(Kinds) /\ st # <<>> /\ Len(st) \in Nat \ {0}
      /\ st[1] = "object"
      /\ Tail(st) = After(inner.fed, e)
      /\ Tail(st) \in Seq(Kinds) /\ (Tail(st) = <<>> <=> Len(st) = 1)
      /\ ClosesElement(e) <=> Len(st) = 1
      /\ Settled(st) <=> Len(st) = 1
  BY <1>0, StackAfter
<1>3. state' = st
  BY <1>1
<1>4. Len(st) # 1 /\ Len(st) > 1
  BY <1>2, <1>3
<1>5. /\ open' = st /\ phase' = "reading" /\ keyed' \in BOOLEAN /\ count' = count
  BY <1>0, <1>2, <1>4 DEF Emit
<1>6. inner' = [fed |-> Tail(st), status |-> "busy"]
  BY <1>0, <1>2, <1>4 DEF Feed
<1>. HIDE DEF st
<1>7. TypeOK'
  <2>1. SourceTypeOK'
    BY <1>1, <1>2, <1>5 DEF SourceTypeOK, Phases
  <2>2. inner' \in Handlers
    BY <1>2, <1>6 DEF Handlers, Statuses
  <2>3. value' \in Origins
    BY <1>0, <1>1 DEF Origins
  <2>4. QED
    BY <1>0, <1>2, <1>3, <2>1, <2>2, <2>3 DEF IInv, TypeOK
<1>8. StackMirrorsText' /\ SourceConsistent'
  BY <1>2, <1>3, <1>5 DEF StackMirrorsText, SourceConsistent, Alive
<1>9. ElementIsolated'
  <2>1. Len(open') > 1
    BY <1>4, <1>5
  <2>2. /\ inner'.fed = Tail(open') /\ inner'.status = "busy"
        /\ value' = {count'}
    <3>1. open' = st /\ count' = count
      BY <1>5
    <3>2. value' = {count'}
      BY <1>0, <1>1, <3>1
    <3>3. inner'.fed = Tail(open') /\ inner'.status = "busy"
      BY <1>6, <3>1
    <3>4. QED
      BY <3>2, <3>3
  <2>3. QED
    BY <2>1, <2>2 DEF ElementIsolated
<1>10. KeyOfMember'
  BY <1>1, <1>4, <1>5 DEF KeyOfMember, InMember
<1>11. MapExact'
  BY <1>0, <1>1, <1>5 DEF IInv, MapExact
<1>12. RefusalRecorded'
  <2>1. the_error' = NoError
    BY <1>0, <1>1 DEF IInv, RefusalRecorded
  <2>2. QED
    BY <1>4, <1>5, <1>6, <2>1 DEF RefusalRecorded, NoError
<1>13. DuplicateIsReal'
  BY <1>0, <1>5 DEF IInv, DuplicateIsReal
<1>14. QED
  BY <1>7, <1>8, <1>9, <1>10, <1>11, <1>12, <1>13 DEF IInv

(* An event completes a member, which is emplaced.                         *)
LEMMA Completion ==
  ASSUME IInv, state # <<>>, NEW e \in Events, OfMember(e),
         state' = After(state, e), Settled(state'), StoreMember(e),
         UNCHANGED <<key, base, names>>, noted' \in BOOLEAN
  PROVE  IInv'
<1>. DEFINE st == After(open, e)
<1>0. Emit(e, TRUE) /\ Emplaced(Written) /\ value' = Blank /\ inner' = Fresh
      /\ the_error' = the_error
  BY DEF StoreMember
<1>1. /\ phase = "reading" /\ Alive /\ state = open /\ count \in Nat
      /\ Written = {count} /\ Len(names) = count + 1 /\ key = names[count + 1]
      /\ key \in Keys
      /\ e \in {"Key"} \cup Ends => Len(open) > 1
  BY <1>0, InsideMember
<1>2. /\ st \in Seq(Kinds) /\ st # <<>> /\ Len(st) \in Nat \ {0}
      /\ st[1] = "object"
      /\ ClosesElement(e) <=> Len(st) = 1
      /\ Settled(st) <=> Len(st) = 1
  BY <1>0, StackAfter
<1>3. state' = st
  BY <1>1
<1>4. Len(st) = 1
  BY <1>2, <1>3
<1>5. e # "Key"
  BY <1>2, <1>4 DEF ClosesElement, Ends
<1>6. /\ open' = st /\ phase' = "reading" /\ keyed' = FALSE
      /\ count' = count + 1
  BY <1>0, <1>2, <1>4, <1>5 DEF Emit
<1>. HIDE DEF st
<1>7. /\ key \notin DOMAIN m_value
      /\ m_value' = [k \in DOMAIN m_value \cup {key} |->
                       IF k = key THEN {count} ELSE m_value[k]]
  BY <1>0, <1>1 DEF Emplaced
<1>8. DOMAIN m_value' = DOMAIN m_value \cup {key} /\ m_value'[key] = {count}
      /\ \A k \in DOMAIN m_value : k # key /\ m_value'[k] = m_value[k]
  BY <1>7
<1>9. TypeOK'
  <2>1. SourceTypeOK'
    <3>1. count' \in Nat /\ keyed' \in BOOLEAN /\ phase' \in Phases
      <4>1. count' = count + 1 /\ keyed' = FALSE /\ phase' = "reading"
        BY <1>6
      <4>2. count \in Nat
        BY <1>1
      <4>3. count' \in Nat
        BY <4>1, <4>2
      <4>4. keyed' \in BOOLEAN /\ phase' \in Phases
        BY <4>1 DEF Phases
      <4>5. QED
        BY <4>3, <4>4
    <3>2. open' \in Seq(Kinds)
      BY <1>2, <1>6
    <3>3. QED
      BY <3>1, <3>2 DEF SourceTypeOK
  <2>2. inner' \in Handlers /\ value' \in Origins
    BY <1>0, EmptySeq DEF Handlers, Statuses, Fresh, Blank, Origins
  <2>3. \E S \in SUBSET Keys : m_value' \in [S -> Origins]
    <3>1. PICK S \in SUBSET Keys : m_value \in [S -> Origins]
      BY DEF IInv, TypeOK
    <3>2. {count} \in Origins /\ DOMAIN m_value = S
      BY <1>1, <3>1 DEF Origins
    <3>3. m_value' \in [S \cup {key} -> Origins]
      BY <1>7, <3>1, <3>2
    <3>4. QED
      BY <1>1, <3>1, <3>3
  <2>4. QED
    BY <1>0, <1>2, <1>3, <2>1, <2>2, <2>3 DEF IInv, TypeOK
<1>10. StackMirrorsText' /\ SourceConsistent'
  BY <1>2, <1>3, <1>6 DEF StackMirrorsText, SourceConsistent, Alive
<1>11. ~(Len(open') > 1)
  <2>1. open' = st
    BY <1>6
  <2>2. QED
    BY <1>4, <2>1
<1>12. ElementIsolated'
  BY <1>0, <1>11 DEF ElementIsolated, Fresh, Blank
<1>13. KeyOfMember'
  BY <1>1, <1>6, <1>11 DEF KeyOfMember, InMember
<1>14. MapExact'
  <2>1. /\ DOMAIN m_value = DOMAIN base \cup {names[i] : i \in 1..count}
        /\ \A k \in DOMAIN base : m_value[k] = base[k]
        /\ \A i \in 1..count : m_value[names[i]] = {i - 1}
    BY <1>1 DEF IInv, MapExact
  <2>2. 1..count + 1 = (1..count) \cup {count + 1}
    BY <1>1
  <2>3. DOMAIN m_value' = DOMAIN base \cup {names[i] : i \in 1..count + 1}
    BY <1>1, <1>8, <2>1, <2>2
  <2>4. \A k \in DOMAIN base : m_value'[k] = base[k]
    BY <1>8, <2>1
  <2>5. \A i \in 1..count : m_value'[names[i]] = {i - 1}
    BY <1>8, <2>1
  <2>6. m_value'[names[count + 1]] = {(count + 1) - 1}
    BY <1>1, <1>8
  <2>7. QED
    BY <1>6, <2>2, <2>3, <2>4, <2>5, <2>6 DEF MapExact
<1>15. the_error' = NoError
  BY <1>0, <1>1 DEF IInv, RefusalRecorded
<1>16. RefusalRecorded' /\ DuplicateIsReal'
  BY <1>0, <1>6, <1>15 DEF RefusalRecorded, DuplicateIsReal, NoError, Fresh
<1>17. QED
  BY <1>9, <1>10, <1>12, <1>13, <1>14, <1>16 DEF IInv

(* Every event that is forwarded to the member's handler.                  *)
LEMMA MemberEvent ==
  ASSUME IInv, state # <<>>, NEW e \in Events, OfMember(e),
         state' = After(state, e), checked_event_forwarding(e, state'),
         UNCHANGED <<key, base, names>>, noted' \in BOOLEAN
  PROVE  IInv'
<1>1. state' \in Seq(Kinds) /\ state' = After(open, e)
  <2>1. \E ok \in BOOLEAN : Emit(e, ok)
    BY DEF checked_event_forwarding, emplace_when_time_is_right, StoreMember,
           RefuseDuplicate, ContinueMember
  <2>2. PICK ok \in BOOLEAN : Emit(e, ok)
    BY <2>1
  <2>3. state = open /\ After(open, e) \in Seq(Kinds)
    BY <2>2, InsideMember, StackAfter
  <2>4. QED
    BY <2>3
<1>2. CASE Settled(state') /\ StoreMember(e)
  BY <1>2, Completion
<1>3. CASE Settled(state') /\ RefuseDuplicate(e)
  BY <1>1, <1>3, Refusal DEF RefuseDuplicate, NotEmplaced
<1>4. CASE ~Settled(state') /\ ContinueMember(e)
  BY <1>4, Continuation
<1>5. CASE /\ Emit(e, FALSE) /\ inner' = Feed(inner, e, FALSE)
           /\ value' = Written /\ set_member_error /\ UNCHANGED m_value
  BY <1>1, <1>5, Refusal DEF set_member_error
<1>6. QED
  BY <1>2, <1>3, <1>4, <1>5
     DEF checked_event_forwarding, emplace_when_time_is_right
-----------------------------------------------------------------------------
(* Events at depth 0 and of the outermost object itself.                   *)

(* What the invariant says when the outermost object alone is open and no  *)
(* member is being read.                                                   *)
LEMMA BetweenMembers ==
  ASSUME IInv, Len(state) = 1, NEW e \in {"Key", "EndObject"}, Emit(e, TRUE)
  PROVE  /\ phase = "reading" /\ Alive /\ state = open /\ open[1] = "object"
         /\ open \in Seq(Kinds) /\ open # <<>> /\ Len(open) = 1
         /\ ~(Len(open) > 1) /\ keyed = FALSE /\ count \in Nat
         /\ inner = Fresh /\ value = Blank /\ the_error = NoError
         /\ names \in Seq(Keys) /\ Len(names) = count
<1>1. phase = "reading" /\ open # <<>> /\ ~keyed
  BY DEF Emit, MayEmit, InObject, Starts
<1>2. Alive /\ state = open /\ Len(open) = 1 /\ ~(Len(open) > 1)
  <2>1. Alive /\ state = open
    BY <1>1 DEF IInv, StackMirrorsText, Alive
  <2>2. Len(open) = 1
    BY <2>1
  <2>3. ~(Len(open) > 1)
    BY <2>2
  <2>4. QED
    BY <2>1, <2>2, <2>3
<1>3. /\ open \in Seq(Kinds) /\ count \in Nat /\ names \in Seq(Keys)
      /\ keyed = FALSE
  BY <1>1 DEF IInv, TypeOK, SourceTypeOK
<1>4. open[1] = "object"
  BY <1>1, <1>2 DEF IInv, SourceConsistent
<1>5. inner = Fresh /\ value = Blank
  BY <1>2 DEF IInv, ElementIsolated
<1>6. Len(names) = count
  BY <1>1, <1>2 DEF IInv, KeyOfMember, InMember
<1>7. the_error = NoError
  BY <1>1 DEF IInv, RefusalRecorded
<1>8. QED
  BY <1>1, <1>2, <1>3, <1>4, <1>5, <1>6, <1>7

(* The value does not begin with an object.                                *)
LEMMA DepthRejection ==
  ASSUME IInv, NEW e \in {"Scalar", "StartArray"}, RejectedByDepth(e),
         UNCHANGED <<key, base, names>>, noted' \in BOOLEAN
  PROVE  IInv'
<1>1. e \in Events /\ e \notin Ends
  BY DEF Events, Starts, Ends
<1>2. open \in Seq(Kinds) /\ phase' = "terminated" /\ open' = After(open, e)
      /\ count' = count /\ count \in Nat /\ keyed' \in BOOLEAN
      /\ the_error' = TypeMismatch
      /\ UNCHANGED <<state, value, inner, m_value>>
  BY DEF RejectedByDepth, Emit, IInv, TypeOK, SourceTypeOK
<1>3. phase \in {"waiting", "reading"} /\ ~Alive' /\ state = <<>>
  BY <1>2 DEF RejectedByDepth, Emit, MayEmit, ValueMayBegin, Starts, Alive
<1>4. inner = Fresh
  BY <1>3 DEF IInv, StackMirrorsText, ElementIsolated, Alive
<1>5. TypeOK'
  <2>1. After(open, e) \in Seq(Kinds)
    BY <1>1, <1>2, AfterFacts
  <2>2. SourceTypeOK'
    BY <1>2, <2>1 DEF SourceTypeOK, Phases
  <2>3. the_error' \in Errors
    BY <1>2 DEF TypeMismatch, Errors
  <2>4. QED
    BY <1>2, <2>2, <2>3 DEF IInv, TypeOK
<1>6. RefusalRecorded' /\ DuplicateIsReal'
  BY <1>2, <1>4 DEF RefusalRecorded, TypeMismatch, NoError, Fresh,
                    DuplicateIsReal
<1>7. QED
  BY <1>2, <1>3, <1>5, <1>6
     DEF IInv, SourceConsistent, StackMirrorsText, ElementIsolated, KeyOfMember,
         MapExact

(* The outermost object begins.                                            *)
LEMMA OuterStart ==
  ASSUME IInv, state = <<>>, state' = Append(state, "object"),
         Emit("StartObject", TRUE),
         UNCHANGED <<the_error, key, value, inner, m_value, base, names>>,
         noted' \in BOOLEAN
  PROVE  IInv'
<1>1. phase \in {"waiting", "reading"}
  BY DEF Emit, MayEmit, ValueMayBegin, Starts
<1>2. phase = "waiting" /\ open = <<>> /\ count = 0 /\ Alive
  BY <1>1 DEF IInv, StackMirrorsText, SourceConsistent, Alive
<1>3. After(open, "StartObject") = <<"object">> /\ state' = <<"object">>
  BY <1>2 DEF After, Starts, KindOf
<1>4. Len(<<"object">>) = 1 /\ <<"object">>[1] = "object" /\ <<"object">> # <<>>
      /\ <<"object">> \in Seq(Kinds)
  BY DEF Kinds
<1>5. open' = <<"object">> /\ phase' = "reading" /\ count' = 0 /\ keyed' = FALSE
  BY <1>2, <1>3, <1>4 DEF Emit, ClosesElement, Ends
<1>6. ~(Len(open) > 1) /\ ~(Len(open') > 1)
  BY <1>2, <1>4, <1>5
<1>7. TypeOK'
  BY <1>3, <1>4, <1>5 DEF IInv, TypeOK, SourceTypeOK, Phases
<1>8. StackMirrorsText' /\ SourceConsistent'
  BY <1>3, <1>4, <1>5 DEF StackMirrorsText, SourceConsistent, Alive
<1>9. ElementIsolated'
  BY <1>2, <1>6 DEF IInv, ElementIsolated, Fresh, Blank
<1>10. KeyOfMember'
  BY <1>2, <1>5, <1>6 DEF IInv, KeyOfMember, InMember
<1>11. MapExact'
  BY <1>2, <1>5 DEF IInv, MapExact
<1>12. RefusalRecorded' /\ DuplicateIsReal'
  BY <1>2, <1>5, <1>9 DEF IInv, RefusalRecorded, NoError, DuplicateIsReal,
                        ElementIsolated, Fresh, Alive
<1>13. QED
  BY <1>7, <1>8, <1>9, <1>10, <1>11, <1>12 DEF IInv

(* The outermost object names its next member.                             *)
LEMMA OuterKey ==
  ASSUME IInv, Len(state) = 1, Emit("Key", TRUE), NEW k \in Keys, key' = k,
         names' = Append(names, k),
         UNCHANGED <<state, the_error, value, inner, m_value, base>>,
         noted' \in BOOLEAN
  PROVE  IInv'
<1>1. /\ phase = "reading" /\ Alive /\ state = open /\ open[1] = "object"
      /\ open \in Seq(Kinds) /\ open # <<>> /\ Len(open) = 1
      /\ ~(Len(open) > 1) /\ count \in Nat
      /\ inner = Fresh /\ value = Blank /\ the_error = NoError
      /\ names \in Seq(Keys) /\ Len(names) = count
  BY BetweenMembers
<1>2. After(open, "Key") = open
  BY DEF After, Starts, Ends
<1>3. open' = open /\ phase' = "reading" /\ keyed' = TRUE /\ count' = count
  BY <1>1, <1>2 DEF Emit, ClosesElement, Ends
<1>4. /\ names' \in Seq(Keys) /\ Len(names') = count + 1
      /\ names'[count + 1] = k
      /\ \A i \in 1..count : names'[i] = names[i]
  BY <1>1, PushFacts
<1>5. TypeOK'
  BY <1>1, <1>3, <1>4 DEF IInv, TypeOK, SourceTypeOK, Phases
<1>6. StackMirrorsText' /\ SourceConsistent'
  BY <1>1, <1>3 DEF StackMirrorsText, SourceConsistent, Alive
<1>7. ElementIsolated'
  BY <1>1, <1>3 DEF ElementIsolated, Fresh, Blank
<1>8. KeyOfMember'
  BY <1>3, <1>4 DEF KeyOfMember, InMember
<1>9. MapExact'
  <2>1. /\ DOMAIN m_value = DOMAIN base \cup {names[i] : i \in 1..count}
        /\ \A n \in DOMAIN base : m_value[n] = base[n]
        /\ \A i \in 1..count : m_value[names[i]] = {i - 1}
    BY <1>1 DEF IInv, MapExact
  <2>2. {names'[i] : i \in 1..count} = {names[i] : i \in 1..count}
    BY <1>4
  <2>3. \A i \in 1..count : m_value[names'[i]] = {i - 1}
    BY <1>4, <2>1
  <2>4. UNCHANGED <<m_value, base, count>>
    BY <1>3
  <2>5. QED
    BY <2>1, <2>2, <2>3, <2>4 DEF MapExact
<1>10. RefusalRecorded' /\ DuplicateIsReal'
  BY <1>1, <1>3 DEF RefusalRecorded, NoError, Fresh, DuplicateIsReal
<1>11. QED
  BY <1>5, <1>6, <1>7, <1>8, <1>9, <1>10 DEF IInv

(* The outermost object ends.                                              *)
LEMMA OuterEnd ==
  ASSUME IInv, Len(state) = 1, state' = Front(state), Emit("EndObject", TRUE),
         UNCHANGED <<the_error, key, value, inner, m_value, base, names>>,
         noted' \in BOOLEAN
  PROVE  IInv'
<1>1. /\ phase = "reading" /\ Alive /\ state = open
      /\ open \in Seq(Kinds) /\ open # <<>> /\ Len(open) = 1
      /\ count \in Nat
      /\ inner = Fresh /\ value = Blank /\ the_error = NoError
      /\ Len(names) = count
  BY BetweenMembers
<1>2. Front(open) = <<>>
  BY <1>1, PopFacts
<1>3. After(open, "EndObject") = <<>>
  BY <1>2 DEF After, Starts, Ends
<1>4. open' = <<>> /\ state' = <<>> /\ phase' = "done" /\ count' = count
      /\ keyed' = FALSE
  <2>1. ~ClosesElement("EndObject")
    BY <1>3 DEF ClosesElement
  <2>2. QED
    BY <1>1, <1>2, <1>3, <2>1 DEF Emit
<1>5. TypeOK'
  BY <1>4, EmptySeq DEF IInv, TypeOK, SourceTypeOK, Phases
<1>6. StackMirrorsText' /\ SourceConsistent'
  BY <1>4 DEF StackMirrorsText, SourceConsistent, Alive
<1>7. ElementIsolated'
  <2>1. ~(Len(open') > 1)
    BY <1>4
  <2>2. QED
    BY <1>1, <2>1 DEF ElementIsolated, Fresh, Blank
<1>8. KeyOfMember'
  BY <1>1, <1>4 DEF KeyOfMember, InMember
<1>9. MapExact'
  BY <1>1, <1>4 DEF IInv, MapExact
<1>10. RefusalRecorded' /\ DuplicateIsReal'
  BY <1>1, <1>4 DEF RefusalRecorded, NoError, Fresh, DuplicateIsReal
<1>11. QED
  BY <1>5, <1>6, <1>7, <1>8, <1>9, <1>10 DEF IInv
-----------------------------------------------------------------------------
(* The whole state machine.                                                *)

(* The initial states.                                                     *)
LEMMA InitInvariant == Init => IInv
<1>. SUFFICES ASSUME Init PROVE IInv
  OBVIOUS
<1>1. /\ open = <<>> /\ keyed = FALSE /\ phase = "waiting" /\ count = 0
      /\ state = <<>> /\ the_error = NoError /\ key = NoKey /\ value = Blank
      /\ inner = Fresh /\ base = m_value /\ names = <<>> /\ noted = FALSE
  BY DEF Init, SourceInit
<1>2. PICK held \in SUBSET Keys : m_value = [k \in held |-> Prior]
  BY DEF Init
<1>3. Prior \in Origins /\ Blank \in Origins
  BY DEF Prior, Blank, Origins
<1>4. m_value \in [held -> Origins]
  BY <1>2, <1>3
<1>5. TypeOK
  <2>1. SourceTypeOK /\ names \in Seq(Keys) /\ state \in Seq(Kinds)
    BY <1>1, EmptySeq DEF SourceTypeOK, Phases
  <2>2. the_error \in Errors /\ inner \in Handlers
    BY <1>1, EmptySeq DEF NoError, Errors, Fresh, Handlers, Statuses
  <2>3. QED
    BY <1>1, <1>3, <1>4, <2>1, <2>2 DEF TypeOK
<1>6. StackMirrorsText /\ SourceConsistent
  BY <1>1 DEF StackMirrorsText, SourceConsistent
<1>7. ElementIsolated
  <2>1. ~(Len(open) > 1)
    BY <1>1
  <2>2. QED
    BY <1>1, <2>1 DEF ElementIsolated
<1>8. KeyOfMember /\ MapExact
  <2>1. KeyOfMember
    BY <1>1 DEF KeyOfMember, InMember
  <2>2. 1..count = {} /\ DOMAIN m_value = DOMAIN base
    BY <1>1
  <2>3. QED
    BY <1>1, <2>1, <2>2 DEF MapExact
<1>9. RefusalRecorded /\ DuplicateIsReal
  BY <1>1 DEF RefusalRecorded, NoError, Fresh, DuplicateIsReal
<1>10. QED
  BY <1>5, <1>6, <1>7, <1>8, <1>9 DEF IInv

(* A value follows another one in the same handler; the map may be new.    *)
LEMMA NextValue ==
  ASSUME IInv, AnotherValue, UNCHANGED <<key, value>>, state' = <<>>,
         inner' = Fresh, the_error' = NoError, base' = m_value',
         names' = <<>>, \E S \in SUBSET Keys : m_value' \in [S -> Origins],
         noted' \in BOOLEAN
  PROVE  IInv'
<1>1. /\ phase = "done" /\ phase' = "waiting" /\ count' = 0
      /\ open' = open /\ keyed' = keyed
  BY DEF AnotherValue
<1>2. open = <<>> /\ ~keyed /\ value = Blank
  <2>1. open = <<>> /\ ~keyed
    BY <1>1 DEF IInv, SourceConsistent
  <2>2. ~(Len(open) > 1)
    BY <2>1
  <2>3. QED
    BY <1>1, <2>1, <2>2 DEF IInv, ElementIsolated, Alive
<1>3. TypeOK'
  <2>1. SourceTypeOK' /\ names' \in Seq(Keys) /\ state' \in Seq(Kinds)
    BY <1>1, EmptySeq DEF SourceTypeOK, Phases, IInv, TypeOK
  <2>2. the_error' \in Errors /\ inner' \in Handlers
    BY EmptySeq DEF NoError, Errors, Fresh, Handlers, Statuses
  <2>3. QED
    BY <2>1, <2>2 DEF IInv, TypeOK
<1>4. StackMirrorsText' /\ SourceConsistent'
  BY <1>1, <1>2 DEF StackMirrorsText, SourceConsistent
<1>5. ElementIsolated'
  <2>1. ~(Len(open') > 1)
    BY <1>1, <1>2
  <2>2. QED
    BY <1>2, <2>1 DEF ElementIsolated, Fresh, Blank
<1>6. KeyOfMember' /\ MapExact'
  BY <1>1 DEF KeyOfMember, InMember, MapExact
<1>7. RefusalRecorded' /\ DuplicateIsReal'
  BY <1>1 DEF RefusalRecorded, NoError, Fresh, DuplicateIsReal
<1>8. QED
  BY <1>3, <1>4, <1>5, <1>6, <1>7 DEF IInv

(* Every step keeps the invariant.                                         *)
LEMMA StepInvariant == IInv /\ [Next]_vars => IInv'
<1>. SUFFICES ASSUME IInv, [Next]_vars PROVE IInv'
  OBVIOUS
<1>1. /\ "Scalar" \in Events /\ "Key" \in Events /\ "StartArray" \in Events
      /\ "EndArray" \in Events /\ "StartObject" \in Events
      /\ "EndObject" \in Events /\ noted' \in BOOLEAN
  BY DEF Events, Starts, Ends, IInv, TypeOK, Next, PartNotes, vars
<1>2. state \in Seq(Kinds) /\ Len(state) \in Nat /\ (state # <<>> => Len(state) # 0)
      /\ (Len(state) > 1 => state # <<>>)
  <2>1. state \in Seq(Kinds)
    BY DEF IInv, TypeOK
  <2>2. Len(<<>>) = 0
    OBVIOUS
  <2>3. QED
    BY <2>1, <2>2, LenProperties, EmptySeq
<1>3. /\ \A e \in {"Scalar", "StartArray", "StartObject"} : OfMember(e)
      /\ \A e : Len(state) > 1 => OfMember(e)
  BY DEF OfMember, Ends
<1>4. /\ After(state, "Scalar") = state /\ After(state, "Key") = state
      /\ After(state, "StartArray") = Append(state, "array")
      /\ After(state, "StartObject") = Append(state, "object")
      /\ After(state, "EndArray") = Front(state)
      /\ After(state, "EndObject") = Front(state)
  BY DEF After, Starts, Ends, KindOf
<1>5. CASE Scalar
  <2>1. CASE RejectedByDepth("Scalar")
    BY <1>1, <1>5, <2>1, DepthRejection DEF Scalar
  <2>2. CASE ~RejectedByDepth("Scalar")
    <3>1. /\ state # <<>> /\ state' = state
          /\ checked_event_forwarding("Scalar", state')
          /\ UNCHANGED <<key, base, names>>
      BY <1>5, <2>2 DEF Scalar
    <3>2. QED
      BY <1>1, <1>3, <1>4, <3>1, MemberEvent
  <2>3. QED
    BY <2>1, <2>2
<1>6. CASE Key
  <2>1. CASE /\ Len(state) > 1 /\ checked_event_forwarding("Key", state)
             /\ UNCHANGED <<key, names>>
    <3>1. state' = state /\ base' = base
      BY <1>6 DEF Key
    <3>2. checked_event_forwarding("Key", state')
      BY <2>1, <3>1
    <3>3. QED
      BY <1>1, <1>2, <1>3, <1>4, <2>1, <3>1, <3>2, MemberEvent
  <2>2. CASE /\ Len(state) <= 1 /\ Emit("Key", TRUE)
             /\ \E k \in Keys : key' = k /\ names' = Append(names, k)
             /\ UNCHANGED <<the_error, value, inner, m_value>>
    <3>1. state # <<>>
      <4>1. open # <<>> /\ phase = "reading"
        BY <2>2 DEF Emit, MayEmit, InObject, Starts
      <4>2. QED
        BY <4>1 DEF IInv, StackMirrorsText, Alive
    <3>2. Len(state) = 1
      <4>1. \A n \in Nat : n # 0 /\ n <= 1 => n = 1
        OBVIOUS
      <4>2. QED
        BY <1>2, <2>2, <3>1, <4>1
    <3>3. PICK k \in Keys : key' = k /\ names' = Append(names, k)
      BY <2>2
    <3>4. state' = state /\ base' = base
      BY <1>6 DEF Key
    <3>5. QED
      BY <1>1, <2>2, <3>2, <3>3, <3>4, OuterKey
  <2>3. QED
    BY <1>6, <2>1, <2>2 DEF Key
<1>7. CASE StartArray
  <2>1. CASE RejectedByDepth("StartArray")
    BY <1>1, <1>7, <2>1, DepthRejection DEF StartArray
  <2>2. CASE ~RejectedByDepth("StartArray")
    <3>1. /\ state # <<>> /\ state' = Append(state, "array")
          /\ checked_event_forwarding("StartArray", state')
          /\ UNCHANGED <<key, base, names>>
      BY <1>7, <2>2 DEF StartArray
    <3>2. QED
      BY <1>1, <1>3, <1>4, <3>1, MemberEvent
  <2>3. QED
    BY <2>1, <2>2
<1>8. CASE EndArray
  <2>1. /\ Len(state) > 1 /\ state' = Front(state)
        /\ checked_event_forwarding("EndArray", state')
        /\ UNCHANGED <<key, base, names>>
    BY <1>8 DEF EndArray
  <2>2. QED
    BY <1>1, <1>2, <1>3, <1>4, <2>1, MemberEvent
<1>9. CASE StartObject
  <2>1. state' = Append(state, "object") /\ UNCHANGED <<key, base, names>>
    BY <1>9 DEF StartObject
  <2>2. CASE state # <<>> /\ checked_event_forwarding("StartObject", state')
    BY <1>1, <1>3, <1>4, <2>1, <2>2, MemberEvent
  <2>3. CASE /\ state = <<>> /\ Emit("StartObject", TRUE)
             /\ UNCHANGED <<the_error, value, inner, m_value>>
    BY <1>1, <2>1, <2>3, OuterStart
  <2>4. QED
    BY <1>9, <2>2, <2>3 DEF StartObject
<1>10. CASE EndObject
  <2>1. /\ state # <<>> /\ state' = Front(state) /\ UNCHANGED <<key, base, names>>
        /\ state' = <<>> <=> Len(state) = 1
    BY <1>2, <1>10, PopFacts DEF EndObject
  <2>2. CASE state' # <<>> /\ checked_event_forwarding("EndObject", state')
    <3>1. Len(state) > 1
      <4>1. \A n \in Nat : n # 0 /\ n # 1 => n > 1
        OBVIOUS
      <4>2. Len(state) \in Nat /\ Len(state) # 0 /\ Len(state) # 1
        BY <1>2, <2>1, <2>2
      <4>3. QED
        BY <4>1, <4>2
    <3>2. QED
      BY <1>1, <1>3, <1>4, <2>1, <2>2, <3>1, MemberEvent
  <2>3. CASE /\ state' = <<>> /\ Emit("EndObject", TRUE)
             /\ UNCHANGED <<the_error, value, inner, m_value>>
    BY <1>1, <2>1, <2>3, OuterEnd
  <2>4. QED
    BY <1>10, <2>2, <2>3 DEF EndObject
<1>11. CASE SyntaxError
  <2>1. phase \in {"waiting", "reading", "done"} /\ phase' = "malformed"
        /\ UNCHANGED <<open, keyed, count>> /\ UNCHANGED handlerVars
    BY <1>11 DEF SyntaxError, Malformed
  <2>2. TypeOK'
    BY <1>1, <2>1 DEF IInv, TypeOK, SourceTypeOK, Phases, handlerVars
  <2>3. RefusalRecorded' /\ DuplicateIsReal'
    BY <2>1 DEF IInv, RefusalRecorded, NoError, handlerVars,
                DuplicateIsReal, ElementIsolated, Fresh, Alive
  <2>4. QED
    BY <2>1, <2>2, <2>3
       DEF IInv, SourceConsistent, StackMirrorsText, ElementIsolated,
           KeyOfMember, MapExact, Alive
<1>12. CASE PrepareForReuse
  <2>1. EmptyMap \in [{} -> Origins]
    BY DEF EmptyMap
  <2>2. \E S \in SUBSET Keys : m_value' \in [S -> Origins]
    BY <1>12, <2>1 DEF PrepareForReuse
  <2>3. QED
    BY <1>1, <1>12, <2>2, NextValue DEF PrepareForReuse
<1>13. CASE RepeatedMember
  <2>1. phase = "done" /\ AnotherValue
        /\ UNCHANGED <<state, the_error, key, value, inner, m_value>>
    BY <1>13 DEF RepeatedMember, AnotherValue
  <2>2. state = <<>> /\ inner = Fresh /\ the_error = NoError
    <3>1. open = <<>> /\ state = open /\ Alive
      BY <2>1 DEF IInv, SourceConsistent, StackMirrorsText, Alive
    <3>2. ~(Len(open) > 1)
      BY <3>1
    <3>3. inner = Fresh
      BY <3>1, <3>2 DEF IInv, ElementIsolated
    <3>4. QED
      BY <2>1, <3>1, <3>3 DEF IInv, RefusalRecorded
  <2>3. \E S \in SUBSET Keys : m_value' \in [S -> Origins]
    BY <2>1 DEF IInv, TypeOK
  <2>4. base' = m_value' /\ names' = <<>>
    BY <1>13 DEF RepeatedMember
  <2>5. QED
    BY <1>1, <2>1, <2>2, <2>3, <2>4, NextValue
<1>14. CASE UNCHANGED vars
  BY <1>14
     DEF vars, sourceVars, handlerVars, IInv, TypeOK, SourceTypeOK,
         SourceConsistent, StackMirrorsText, ElementIsolated, KeyOfMember,
         InMember, MapExact, RefusalRecorded, DuplicateIsReal, Alive
<1>15. QED
  BY <1>5, <1>6, <1>7, <1>8, <1>9, <1>10, <1>11, <1>12, <1>13, <1>14 DEF Next

(* The variables keep their types.                                         *)
THEOREM TypeCorrect == Spec => []TypeOK
<1>1. IInv => TypeOK
  BY DEF IInv
<1>2. QED
  BY InitInvariant, StepInvariant, <1>1, PTL DEF Spec

(* The handler's stack is the text's stack, so the assertions in EndArray  *)
(* and EndObject hold and members are emplaced at the right time.          *)
THEOREM MirrorsText == Spec => []StackMirrorsText
<1>1. IInv => StackMirrorsText
  BY DEF IInv
<1>2. QED
  BY InitInvariant, StepInvariant, <1>1, PTL DEF Spec

(* No event of one member ever reaches the handler of another.             *)
THEOREM Isolation == Spec => []ElementIsolated
<1>1. IInv => ElementIsolated
  BY DEF IInv
<1>2. QED
  BY InitInvariant, StepInvariant, <1>1, PTL DEF Spec

(* The map holds what it held before and every finished member under the   *)
(* key that precedes it in the text, made of its own events.               *)
THEOREM Exactness == Spec => []MapExact
<1>1. IInv => MapExact
  BY DEF IInv
<1>2. QED
  BY InitInvariant, StepInvariant, <1>1, PTL DEF Spec

(* A member holds an error it has noted only in the middle of its value.   *)
NotedInside == noted => inner.status = "busy"

(* PartNotes keeps it.                                                     *)
LEMMA StepNoted == NotedInside /\ [Next]_vars => NotedInside'
<1>1. CASE Next
  BY <1>1 DEF Next, PartNotes, NotedInside
<1>2. CASE UNCHANGED vars
  BY <1>2 DEF vars, handlerVars, NotedInside
<1>3. QED
  BY <1>1, <1>2

(* An error names the member it happened in and its trace has no gap,      *)
(* whatever the member notes while the parse goes on.                      *)
THEOREM TraceComplete == Spec => []TraceContinues
<1>1. Init => NotedInside
  BY DEF Init, NotedInside
<1>2. IInv /\ NotedInside => TraceContinues
  BY DEF IInv, NotedInside, RefusalRecorded, TraceContinues, HasError, NoError
<1>3. QED
  BY InitInvariant, StepInvariant, StepNoted, <1>1, <1>2, PTL DEF Spec

(* A duplicate key is reported only for a key that is in the map.          *)
THEOREM DuplicateReported == Spec => []DuplicateIsReal
<1>1. IInv => DuplicateIsReal
  BY DEF IInv
<1>2. QED
  BY InitInvariant, StepInvariant, <1>1, PTL DEF Spec
=============================================================================
