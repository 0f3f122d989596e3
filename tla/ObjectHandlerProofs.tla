-------------------------- MODULE ObjectHandlerProofs --------------------------
(***************************************************************************)
(* The generated class handler keeps its depth, the isolation of its       *)
(* members, the error trace and the promises about accepted and rejected   *)
(* objects, for every class and every option.  Added to the properties are *)
(* where the source stands, what state and the flags mean in terms of the  *)
(* keys read, and which errors can have been noted while the parse goes on.*)
(***************************************************************************)
EXTENDS ObjectHandler, SourceLemmas

(* How many objects a stack of open containers has.                        *)
ObjectsIn(s) == OpenAs("object", s)

(* Where a value stands is where its containers stand, and the only        *)
(* container the handler lets begin at depth 0 is an object.               *)
SourceConsistent ==
  /\ phase \in {"waiting", "done"} => open = <<>> /\ ~keyed
  /\ phase = "reading" => open # <<>>
  /\ phase = "waiting" => count = 0
  /\ Alive /\ open # <<>> => open[1] = "object"

(* A key of the outermost object was read and its value has not ended.     *)
InMember == phase = "reading" /\ (keyed \/ Len(open) > 1)

(* One key was read for every finished value and one for the value that is *)
(* being read, and that is the one state stands for.                       *)
StateOfMember ==
  Alive => IF InMember THEN Len(named) = count + 1 /\ state = named[count + 1]
                       ELSE Len(named) = count

(* A flag is set when its member was named, now or in an earlier object.   *)
FlagsMean ==
  \A m \in Flagged : has[m] <=> (Occurrences(m) # {} \/ m \in earlier)

Twice(m) ==
  \E i \in 1..Len(named), j \in 1..Len(named) :
    i # j /\ named[i] = m /\ named[j] = m

(* What can have been noted so far, at keys and at the end.                *)
NotedSoFar ==
  /\ Alive => \/ the_error = NoError
              \/ \E m \in Members : the_error = DuplicateKeys(m)
  /\ phase = "done" => the_error = NoError /\ Missing = {}
  /\ NoDuplicates /\ the_error = NoError => \A m \in Members : ~Twice(m)
  /\ Strict /\ Alive => Occurrences(Unknown) = {}
  /\ the_error.type = "DUPLICATE_KEYS" =>
       \A m \in the_error.members : Twice(m) \/ m \in earlier
  /\ the_error.type = "MISSING_REQUIRED" =>
       /\ the_error.members = {m \in Required : Occurrences(m) = {}} \ earlier
       /\ the_error.members # {}

HasRejected(h) == h.status = "failed"

(* A member's handler that has rejected an event is the one the_error      *)
(* links to.                                                               *)
RefusalRecorded ==
  /\ phase = "terminated" => the_error # NoError
  /\ \A m \in Members : HasRejected(handlers[m]) <=> the_error = ObjectMember(m)
  /\ the_error.type = "OBJECT_MEMBER" => the_error = ObjectMember(state)

(* The types of everything but what the members note.                      *)
ClassTypeOK ==
  /\ SourceTypeOK
  /\ options \in SUBSET Options
  /\ earlier \in SUBSET Members
  /\ state \in Members \cup {Unknown}
  /\ depth \in Nat
  /\ the_error \in Errors
  /\ has \in [Flagged -> BOOLEAN]
  /\ handlers \in [Members -> Handlers]
  /\ named \in Seq(Members \cup {Unknown})
  /\ fedBy \in [Members -> SUBSET Nat]

IInv ==
  /\ ClassTypeOK
  /\ SourceConsistent
  /\ DepthMirrorsText
  /\ StateOfMember
  /\ MemberIsolated
  /\ RefusalRecorded
  /\ FlagsMean
  /\ NotedSoFar
-----------------------------------------------------------------------------
(* Counting the open objects.                                              *)

(* The objects of a stack are a finite set of positions.                   *)
LEMMA ObjectsFinite ==
  ASSUME NEW s \in Seq(Kinds)
  PROVE  /\ Len(s) \in Nat
         /\ IsFiniteSet(ObjectsIn(s)) /\ Cardinality(ObjectsIn(s)) \in Nat
  BY OpenFinite DEF ObjectsIn, Kinds

(* Below an outermost object the count is positive, and it is one for the  *)
(* object on top only if nothing else is open.                             *)
LEMMA ObjectsBounds ==
  ASSUME NEW s \in Seq(Kinds)
  PROVE  /\ s = <<>> => Cardinality(ObjectsIn(s)) = 0
         /\ s # <<>> /\ s[1] = "object" =>
              /\ Cardinality(ObjectsIn(s)) \in Nat \ {0}
              /\ Len(s) = 1 => Cardinality(ObjectsIn(s)) = 1
              /\ Last(s) = "object" /\ Cardinality(ObjectsIn(s)) = 1 => Len(s) = 1
  BY OpenBounds DEF ObjectsIn, Kinds

(* An event counts or discounts an object as the handler does.             *)
LEMMA ObjectsAfter ==
  ASSUME NEW s \in Seq(Kinds), NEW e \in Events,
         e = "EndArray" => s # <<>> /\ Last(s) = "array",
         e = "EndObject" => s # <<>> /\ Last(s) = "object"
  PROVE  LET n == Cardinality(ObjectsIn(s))
         IN  Cardinality(ObjectsIn(After(s, e)))
               = IF e = "StartObject" THEN n + 1
                 ELSE IF e = "EndObject" THEN n - 1 ELSE n
<1>1. "object" \in Kinds
  BY DEF Kinds
<1>2. KindOf(e) = "object" <=> e \notin {"StartArray", "EndArray"}
  BY DEF KindOf
<1>3. e \in Ends => s # <<>> /\ Last(s) = KindOf(e)
  BY DEF Ends, KindOf
<1>4. QED
  BY <1>1, <1>2, <1>3, OpenAfter DEF ObjectsIn, Starts, Ends

(* A member was named more than once exactly when two keys name it.        *)
LEMMA CountOccurrences ==
  ASSUME NEW m, named \in Seq(Members \cup {Unknown})
  PROVE  /\ Cardinality(Occurrences(m)) \in Nat
         /\ Cardinality(Occurrences(m)) > 1 <=> Twice(m)
<1>. DEFINE S == Occurrences(m)
<1>1. IsFiniteSet(S) /\ Cardinality(S) \in Nat
  <2>1. Len(named) \in Nat
    BY LenProperties
  <2>2. IsFiniteSet(1..Len(named)) /\ S \in SUBSET (1..Len(named))
    BY <2>1, FS_Interval DEF Occurrences
  <2>. HIDE DEF S
  <2>3. QED
    BY <2>2, FS_Subset, FS_CardinalityType
<1>2. Twice(m) <=> \E i, j \in S : i # j
  BY DEF Twice, Occurrences
<1>. HIDE DEF S
<1>3. ASSUME NEW i \in S, NEW j \in S, i # j
      PROVE  Cardinality(S) # 0 /\ Cardinality(S) # 1
  BY <1>1, <1>3, FS_EmptySet, FS_Singleton
<1>4. ASSUME ~ \E i, j \in S : i # j
      PROVE  Cardinality(S) = 0 \/ Cardinality(S) = 1
  <2>1. CASE S = {}
    BY <1>1, <2>1, FS_EmptySet
  <2>2. CASE S # {}
    <3>1. PICK x : x \in S
      BY <2>2
    <3>2. S = {x}
      BY <1>4, <3>1
    <3>3. QED
      BY <3>2, FS_Singleton
  <2>3. QED
    BY <2>1, <2>2
<1>5. \A n \in Nat : n > 1 <=> n # 0 /\ n # 1
  OBVIOUS
<1>6. QED
  BY <1>1, <1>2, <1>3, <1>4, <1>5 DEF S
-----------------------------------------------------------------------------
(* Events of a member's value.                                             *)

(* e is not the outermost object's own key or end.                         *)
OfMember(e) == e \in {"Key"} \cup Ends => Len(open) > 1

(* What an event leaves in the handler it is given to.                     *)
LEMMA FeedFacts ==
  ASSUME NEW h, NEW e, After(h.fed, e) \in Seq(Kinds), NEW ok \in BOOLEAN
  PROVE  /\ Feed(h, e, ok) \in Handlers
         /\ Feed(h, e, ok).fed = After(h.fed, e)
         /\ HasRejected(Feed(h, e, ok)) <=> ~ok
<1>. DEFINE st == After(h.fed, e)
<1>1. Feed(h, e, ok) =
        [fed |-> st, status |-> IF ~ok THEN "failed"
                                ELSE IF st = <<>> THEN "complete" ELSE "busy"]
  BY DEF Feed
<1>. HIDE DEF st
<1>2. st \in Seq(Kinds)
  BY DEF st
<1>3. QED
  BY <1>1, <1>2 DEF st, HasRejected, Handlers, Statuses

(* The history of the keys means the same as long as no key is read.       *)
LEMMA SameKeys ==
  ASSUME IInv, UNCHANGED <<has, named, options, earlier>>
  PROVE  /\ Flagged' = Flagged /\ NoDuplicates' = NoDuplicates /\ Strict' = Strict
         /\ \A m : Occurrences(m)' = Occurrences(m)
         /\ \A m : Twice(m)' <=> Twice(m)
         /\ FlagsMean'
<1>1. /\ Flagged' = Flagged /\ NoDuplicates' = NoDuplicates /\ Strict' = Strict
  BY DEF Flagged, NoDuplicates, Strict
<1>2. \A m : Occurrences(m)' = Occurrences(m)
  BY DEF Occurrences
<1>3. \A m : Twice(m)' <=> Twice(m)
  BY DEF Twice
<1>4. FlagsMean'
  BY <1>1, <1>2 DEF IInv, FlagsMean
<1>5. QED
  BY <1>1, <1>2, <1>3, <1>4

(* What the invariant says when an event of a member's value arrives.      *)
LEMMA InsideMember ==
  ASSUME IInv, open # <<>>, NEW e \in Events, OfMember(e),
         NEW ok \in BOOLEAN, Emit(e, ok)
  PROVE  /\ phase = "reading" /\ Alive /\ open[1] = "object"
         /\ open \in Seq(Kinds) /\ Len(open) \in Nat \ {0} /\ count \in Nat
         /\ e \in {"Key"} \cup Ends => Len(open) > 1
         /\ Len(named) = count + 1 /\ state = named[count + 1]
         /\ \A m \in Members :
              /\ handlers[m].fed = IF m = state THEN Tail(open) ELSE <<>>
              /\ ~HasRejected(handlers[m])
<1>1. phase \in {"waiting", "reading"} /\ Alive
  BY DEF Emit, MayEmit, ValueMayBegin, Alive, Events, Ends, Starts
<1>2. phase = "reading" /\ open[1] = "object"
  BY <1>1 DEF IInv, SourceConsistent, Alive
<1>3. open \in Seq(Kinds) /\ Len(open) \in Nat \ {0} /\ count \in Nat
  BY EmptySeq DEF IInv, ClassTypeOK, SourceTypeOK
<1>4. e \in {"Key"} \cup Ends => Len(open) > 1
  BY DEF OfMember
<1>5. Len(open) = 1 \/ Len(open) > 1
  <2>1. \A n \in Nat \ {0} : n = 1 \/ n > 1
    OBVIOUS
  <2>2. QED
    BY <1>3, <2>1
<1>6. InMember
  <2>1. CASE Len(open) > 1
    BY <1>2, <2>1 DEF InMember
  <2>2. CASE Len(open) = 1
    <3>1. ~(Len(open) > 1)
      BY <2>2
    <3>2. e \in {"Scalar"} \cup Starts
      BY <1>4, <3>1 DEF Events
    <3>3. Last(open) = "object"
      BY <1>2, <2>2 DEF Last
    <3>4. ValueMayBegin
      BY <3>2 DEF Emit, MayEmit, Starts
    <3>5. keyed
      BY <1>2, <3>3, <3>4 DEF ValueMayBegin, InArray
    <3>6. QED
      BY <1>2, <3>5 DEF InMember
  <2>3. QED
    BY <1>5, <2>1, <2>2
<1>7. Len(named) = count + 1 /\ state = named[count + 1]
  BY <1>1, <1>6 DEF IInv, StateOfMember
<1>8. ASSUME NEW m \in Members
      PROVE  handlers[m].fed = IF m = state THEN Tail(open) ELSE <<>>
  <2>1. handlers[m].fed = IF Len(open) > 1 /\ state = m THEN Tail(open) ELSE <<>>
    BY <1>1 DEF IInv, MemberIsolated
  <2>2. Len(open) = 1 => Tail(open) = <<>>
    BY <1>3, AboveBottom
  <2>3. QED
    BY <1>5, <2>1, <2>2
<1>9. ASSUME NEW m \in Members
      PROVE  ~HasRejected(handlers[m])
  <2>1. the_error.type # "OBJECT_MEMBER"
    BY <1>1 DEF IInv, NotedSoFar, NoError, DuplicateKeys
  <2>2. the_error # ObjectMember(m)
    BY <2>1 DEF ObjectMember
  <2>3. QED
    BY <2>2 DEF IInv, RefusalRecorded
<1>10. QED
  BY <1>1, <1>2, <1>3, <1>4, <1>7, <1>8, <1>9

(* The stack after an event of a member's value: the outermost object      *)
(* stays open, and the value ends exactly when nothing else is.            *)
LEMMA StackAfter ==
  ASSUME IInv, open # <<>>, NEW e \in Events, OfMember(e),
         NEW ok \in BOOLEAN, Emit(e, ok)
  PROVE  LET st == After(open, e)
         IN  /\ st \in Seq(Kinds) /\ st # <<>> /\ Len(st) \in Nat \ {0}
             /\ st[1] = "object"
             /\ Tail(st) = After(Tail(open), e)
             /\ Tail(st) \in Seq(Kinds) /\ (Tail(st) = <<>> <=> Len(st) = 1)
             /\ ClosesElement(e) <=> Len(st) = 1
             /\ e = "Key" => Len(st) > 1
<1>. DEFINE st == After(open, e)
<1>1. /\ open[1] = "object" /\ open \in Seq(Kinds) /\ Len(open) \in Nat \ {0}
      /\ e \in {"Key"} \cup Ends => Len(open) > 1
  BY InsideMember
<1>2. /\ st \in Seq(Kinds) /\ st # <<>> /\ Len(st) \in Nat \ {0}
      /\ st[1] = "object"
      /\ e \in Starts => Len(st) = Len(open) + 1
      /\ e \notin Starts \cup Ends => st = open
  <2>1. /\ st \in Seq(Kinds)
        /\ e \in Starts => Len(st) = Len(open) + 1
        /\ e \in Ends => Len(st) = Len(open) - 1
        /\ e \notin Starts \cup Ends => st = open
        /\ Len(st) # 0 => st[1] = open[1]
    BY <1>1, AfterFacts
  <2>2. st # <<>> /\ Len(st) \in Nat \ {0}
    BY <1>1, <2>1, EmptySeq
  <2>3. QED
    BY <1>1, <2>1, <2>2
<1>3. Tail(st) = After(Tail(open), e)
  BY <1>1, AfterAboveBottom
<1>4. Tail(st) \in Seq(Kinds) /\ (Tail(st) = <<>> <=> Len(st) = 1)
  BY <1>2, AboveBottom
<1>5. e = "Key" => Len(st) > 1
  BY <1>1, <1>2 DEF Starts, Ends
<1>6. ClosesElement(e) <=> Len(st) = 1
  <2>1. e \in {"Scalar"} \cup Starts \cup Ends \cup {"Key"}
    BY DEF Events
  <2>2. Len(st) = 1 => e \notin Starts /\ e # "Key"
    <3>1. \A n \in Nat \ {0} : n + 1 # 1
      OBVIOUS
    <3>2. e \in Starts => Len(st) # 1
      BY <1>1, <1>2, <3>1
    <3>3. e = "Key" => Len(st) # 1
      <4>1. \A n \in Nat : n > 1 => n # 1
        OBVIOUS
      <4>2. QED
        BY <1>2, <1>5, <4>1
    <3>4. QED
      BY <3>2, <3>3
  <2>3. QED
    BY <2>1, <2>2 DEF ClosesElement
<1>7. QED
  BY <1>2, <1>3, <1>4, <1>5, <1>6

(* An event that stops the source: what is left to check is the error.     *)
LEMMA Stopped ==
  ASSUME IInv, NEW e \in Events, Emit(e, FALSE), After(open, e) \in Seq(Kinds),
         UNCHANGED <<state, has, named, options, earlier>>, depth' \in Nat,
         handlers' \in [Members -> Handlers], fedBy' \in [Members -> SUBSET Nat],
         the_error' \in Errors, the_error' # NoError,
         the_error'.type = "DUPLICATE_KEYS" => the_error' = the_error,
         the_error'.type = "MISSING_REQUIRED" =>
           /\ the_error'.members = {m \in Required : Occurrences(m) = {}} \ earlier
           /\ the_error'.members # {},
         \A m \in Members : HasRejected(handlers'[m]) <=> the_error' = ObjectMember(m),
         the_error'.type = "OBJECT_MEMBER" => the_error' = ObjectMember(state)
  PROVE  IInv'
<1>1. /\ phase' = "terminated" /\ count' = count /\ open' = After(open, e)
      /\ keyed' \in BOOLEAN /\ ~Alive'
  BY DEF Emit, Alive
<1>2. /\ Flagged' = Flagged /\ NoDuplicates' = NoDuplicates /\ Strict' = Strict
      /\ \A m : Occurrences(m)' = Occurrences(m)
      /\ \A m : Twice(m)' <=> Twice(m)
      /\ FlagsMean'
  BY SameKeys
<1>3. ClassTypeOK'
  <2>1. SourceTypeOK'
    BY <1>1 DEF IInv, ClassTypeOK, SourceTypeOK, Phases
  <2>2. QED
    BY <1>2, <2>1 DEF IInv, ClassTypeOK
<1>4. RefusalRecorded'
  <2>1. \A m \in Members : ObjectMember(m)' = ObjectMember(m)
    BY DEF ObjectMember
  <2>2. \A m \in Members : HasRejected(handlers'[m]) <=> the_error' = ObjectMember(m)
    OBVIOUS
  <2>3. QED
    BY <2>2 DEF RefusalRecorded
<1>5. NotedSoFar'
  <2>1. the_error'.type = "DUPLICATE_KEYS" =>
          \A m \in the_error'.members : Twice(m) \/ m \in earlier
    BY DEF IInv, NotedSoFar
  <2>2. the_error'.type = "DUPLICATE_KEYS" =>
          \A m \in the_error'.members : Twice(m)' \/ m \in earlier'
    BY <1>2, <2>1
  <2>3. {m \in Required : Occurrences(m)' = {}} = {m \in Required : Occurrences(m) = {}}
    BY <1>2
  <2>4. QED
    BY <1>1, <2>2, <2>3 DEF NotedSoFar
<1>6. QED
  BY <1>1, <1>2, <1>3, <1>4, <1>5
     DEF IInv, SourceConsistent, DepthMirrorsText, StateOfMember, MemberIsolated

(* An accepted event of a member's value, or one that nobody is given.     *)
LEMMA Taken ==
  ASSUME IInv, open # <<>>, NEW e \in Events, OfMember(e), Emit(e, TRUE),
         UNCHANGED <<state, has, named, options, earlier, the_error>>,
         depth' = Cardinality(ObjectsIn(After(open, e))),
         handlers' = [m \in Members |-> IF m = state THEN Feed(handlers[m], e, TRUE)
                                                     ELSE handlers[m]],
         fedBy' = [m \in Members |-> IF m = state THEN fedBy[m] \cup {count}
                                                  ELSE fedBy[m]]
  PROVE  IInv'
<1>. DEFINE st == After(open, e)
<1>1. /\ phase = "reading" /\ Alive /\ open[1] = "object"
      /\ open \in Seq(Kinds) /\ count \in Nat
      /\ Len(named) = count + 1 /\ state = named[count + 1]
      /\ \A m \in Members :
           /\ handlers[m].fed = IF m = state THEN Tail(open) ELSE <<>>
           /\ ~HasRejected(handlers[m])
  BY InsideMember
<1>2. /\ st \in Seq(Kinds) /\ st # <<>> /\ Len(st) \in Nat \ {0}
      /\ st[1] = "object"
      /\ Tail(st) = After(Tail(open), e)
      /\ Tail(st) \in Seq(Kinds) /\ (Tail(st) = <<>> <=> Len(st) = 1)
      /\ ClosesElement(e) <=> Len(st) = 1
      /\ e = "Key" => Len(st) > 1
  BY StackAfter
<1>3. /\ open' = st /\ phase' = "reading" /\ keyed' = (e = "Key")
      /\ count' = IF Len(st) = 1 THEN count + 1 ELSE count
  BY <1>2 DEF Emit
<1>4. /\ depth' \in Nat /\ depth' = Cardinality(ObjectsIn(st))
  BY <1>2, ObjectsFinite
<1>5. ASSUME NEW m \in Members
      PROVE  /\ handlers'[m].fed = IF m = state THEN Tail(st) ELSE <<>>
             /\ ~HasRejected(handlers'[m]) /\ handlers'[m] \in Handlers
  <2>1. CASE m = state
    <3>1. handlers'[m] = Feed(handlers[m], e, TRUE)
      BY <2>1
    <3>2. After(handlers[m].fed, e) = Tail(st)
      BY <1>1, <1>2, <2>1
    <3>. HIDE DEF st
    <3>3. After(handlers[m].fed, e) \in Seq(Kinds)
      BY <1>2, <3>2
    <3>4. QED
      BY <2>1, <3>1, <3>2, <3>3, FeedFacts
  <2>2. CASE m # state
    <3>1. handlers'[m] = handlers[m] /\ handlers[m] \in Handlers
      BY <2>2 DEF IInv, ClassTypeOK
    <3>2. QED
      BY <1>1, <2>2, <3>1
  <2>3. QED
    BY <2>1, <2>2
<1>6. /\ Flagged' = Flagged /\ NoDuplicates' = NoDuplicates /\ Strict' = Strict
      /\ \A m : Occurrences(m)' = Occurrences(m)
      /\ \A m : Twice(m)' <=> Twice(m)
      /\ FlagsMean'
  BY SameKeys
<1>. HIDE DEF st
<1>7. (Len(st) = 1 /\ ~(Len(st) > 1)) \/ (Len(st) # 1 /\ Len(st) > 1)
  <2>1. \A n \in Nat \ {0} : (n = 1 /\ ~(n > 1)) \/ (n # 1 /\ n > 1)
    OBVIOUS
  <2>2. QED
    BY <1>2, <2>1
<1>8. ClassTypeOK'
  <2>1. SourceTypeOK'
    <3>1. count' \in Nat
      BY <1>1, <1>3
    <3>2. open' \in Seq(Kinds) /\ phase' \in Phases /\ keyed' \in BOOLEAN
      BY <1>2, <1>3 DEF Phases
    <3>3. QED
      BY <3>1, <3>2 DEF SourceTypeOK
  <2>2. handlers' \in [Members -> Handlers]
    BY <1>5
  <2>3. fedBy' \in [Members -> SUBSET Nat]
    BY <1>1 DEF IInv, ClassTypeOK
  <2>4. QED
    BY <1>4, <1>6, <2>1, <2>2, <2>3 DEF IInv, ClassTypeOK
<1>9. SourceConsistent'
  BY <1>2, <1>3 DEF SourceConsistent, Alive
<1>10. DepthMirrorsText'
  <2>1. depth' = Cardinality(ObjectsIn(open'))
    BY <1>3, <1>4
  <2>2. QED
    BY <2>1 DEF DepthMirrorsText, ObjectsIn, OpenAs
<1>11. StateOfMember'
  <2>1. CASE Len(st) = 1
    <3>1. e # "Key" /\ ~(Len(st) > 1)
      BY <1>2, <1>7, <2>1
    <3>2. ~InMember' /\ count' = count + 1
      BY <1>3, <2>1, <3>1 DEF InMember
    <3>3. QED
      BY <1>1, <3>2 DEF StateOfMember
  <2>2. CASE Len(st) > 1
    <3>1. InMember' /\ count' = count
      <4>1. open' = st /\ phase' = "reading" /\ count' = count
        BY <1>3, <1>7, <2>2
      <4>2. QED
        BY <2>2, <4>1 DEF InMember
    <3>2. QED
      BY <1>1, <3>1 DEF StateOfMember
  <2>3. QED
    BY <1>7, <2>1, <2>2
<1>12. MemberIsolated'
  <2>1. (IF Len(open') > 1 THEN count' + 1 ELSE count') = count + 1
    <3>1. CASE Len(st) = 1
      <4>1. ~(Len(open') > 1) /\ count' = count + 1
        BY <1>3, <1>7, <3>1
      <4>2. QED
        BY <4>1
    <3>2. CASE Len(st) > 1
      <4>1. Len(st) # 1
        BY <1>7, <3>2
      <4>2. Len(open') > 1 /\ count' = count
        BY <1>3, <3>2, <4>1
      <4>3. QED
        BY <4>2
    <3>3. QED
      BY <1>7, <3>1, <3>2
  <2>2. ASSUME NEW m \in Members
        PROVE  fedBy'[m] = {i - 1 : i \in Occurrences(m) \cap 1..count + 1}
    <3>. DEFINE begun == IF Len(open) > 1 THEN count + 1 ELSE count
    <3>1. fedBy[m] = {i - 1 : i \in Occurrences(m) \cap 1..begun}
      BY <1>1 DEF IInv, MemberIsolated
    <3>2. begun = count \/ begun = count + 1
      OBVIOUS
    <3>. HIDE DEF begun
    <3>3. count + 1 \in Occurrences(m) <=> m = state
      BY <1>1 DEF Occurrences
    <3>4. 1..count + 1 = (1..count) \cup {count + 1}
      BY <1>1
    <3>5. CASE m = state
      <4>1. fedBy'[m] = fedBy[m] \cup {count}
        BY <3>5
      <4>2. (count + 1) - 1 = count
        BY <1>1
      <4>3. Occurrences(m) \cap 1..count + 1 = (Occurrences(m) \cap 1..begun) \cup {count + 1}
        BY <3>2, <3>3, <3>4, <3>5
      <4>4. QED
        BY <3>1, <4>1, <4>2, <4>3
    <3>6. CASE m # state
      <4>1. fedBy'[m] = fedBy[m]
        BY <3>6
      <4>2. Occurrences(m) \cap 1..count + 1 = Occurrences(m) \cap 1..begun
        BY <3>2, <3>3, <3>4, <3>6
      <4>3. QED
        BY <3>1, <4>1, <4>2
    <3>7. QED
      BY <3>5, <3>6
  <2>3. ASSUME NEW m \in Members
        PROVE  handlers'[m].fed = IF Len(open') > 1 /\ state' = m THEN Tail(open')
                                                                ELSE <<>>
    BY <1>2, <1>3, <1>5, <1>7
  <2>4. \A m \in Members : fedBy'[m] = {i - 1 : i \in Occurrences(m)' \cap 1..count + 1}
    BY <1>6, <2>2
  <2>5. QED
    BY <2>1, <2>3, <2>4 DEF MemberIsolated
<1>13. RefusalRecorded'
  <2>1. the_error'.type # "OBJECT_MEMBER"
    BY <1>1 DEF IInv, NotedSoFar, NoError, DuplicateKeys
  <2>2. \A m \in Members : the_error' # ObjectMember(m)
    BY <2>1 DEF ObjectMember
  <2>3. \A m \in Members : HasRejected(handlers'[m]) <=> the_error' = ObjectMember(m)
    BY <1>5, <2>2
  <2>4. QED
    BY <1>3, <2>1, <2>3 DEF RefusalRecorded
<1>14. NotedSoFar'
  <2>1. {m \in Required : Occurrences(m)' = {}} = {m \in Required : Occurrences(m) = {}}
    BY <1>6
  <2>2. Alive' /\ phase' # "done"
    BY <1>3 DEF Alive
  <2>3. QED
    BY <1>1, <1>6, <2>1, <2>2 DEF IInv, NotedSoFar
<1>15. QED
  BY <1>6, <1>8, <1>9, <1>10, <1>11, <1>12, <1>13, <1>14 DEF IInv

(* Every event that the switch on state forwards or ignores.               *)
LEMMA MemberEvent ==
  ASSUME IInv, open # <<>>, NEW e \in Events, OfMember(e),
         NEW okWhenIgnored \in BOOLEAN, ~okWhenIgnored => the_error # NoError,
         Forwarded(e, okWhenIgnored),
         UNCHANGED <<state, has, named, options, earlier>>,
         depth' = Cardinality(ObjectsIn(After(open, e)))
  PROVE  IInv'
<1>1. \E ok \in BOOLEAN : Emit(e, ok)
  BY DEF Forwarded, AcceptedByMember, RejectedByMember, Ignored
<1>2. /\ After(open, e) \in Seq(Kinds)
      /\ After(Tail(open), e) \in Seq(Kinds)
      /\ \A m \in Members :
           /\ handlers[m].fed = IF m = state THEN Tail(open) ELSE <<>>
           /\ ~HasRejected(handlers[m])
      /\ count \in Nat /\ Alive
  BY <1>1, InsideMember, StackAfter
<1>3. depth' \in Nat
  BY <1>2, ObjectsFinite
<1>4. handlers \in [Members -> Handlers] /\ fedBy \in [Members -> SUBSET Nat]
      /\ the_error \in Errors
  BY DEF IInv, ClassTypeOK
<1>5. \/ the_error = NoError
      \/ \E m \in Members : the_error = DuplicateKeys(m)
  BY <1>2 DEF IInv, NotedSoFar
<1>6. CASE state \in Members /\ AcceptedByMember(e)
  <2>1. /\ Emit(e, TRUE) /\ the_error' = the_error
        /\ handlers' = [m \in Members |-> IF m = state THEN Feed(handlers[m], e, TRUE)
                                                       ELSE handlers[m]]
        /\ fedBy' = [m \in Members |-> IF m = state THEN fedBy[m] \cup {count}
                                                    ELSE fedBy[m]]
    BY <1>4, <1>6 DEF AcceptedByMember
  <2>2. QED
    BY <2>1, Taken
<1>7. CASE state \in Members /\ RejectedByMember(e)
  <2>1. /\ Emit(e, FALSE) /\ the_error' = ObjectMember(state)
        /\ handlers' = [handlers EXCEPT ![state] = Feed(handlers[state], e, FALSE)]
        /\ fedBy' = [fedBy EXCEPT ![state] = fedBy[state] \cup {count}]
    BY <1>7 DEF RejectedByMember
  <2>2. /\ Feed(handlers[state], e, FALSE) \in Handlers
        /\ HasRejected(Feed(handlers[state], e, FALSE))
    BY <1>2, <1>7, FeedFacts
  <2>3. fedBy' \in [Members -> SUBSET Nat] /\ handlers' \in [Members -> Handlers]
    BY <1>2, <1>4, <2>1, <2>2
  <2>4. \A m \in Members : HasRejected(handlers'[m]) <=> m = state
    BY <1>2, <1>4, <1>7, <2>1, <2>2
  <2>5. \A m \in Members : the_error' = ObjectMember(m) <=> m = state
    BY <2>1 DEF ObjectMember
  <2>6. /\ the_error' \in Errors /\ the_error' # NoError
        /\ the_error'.type = "OBJECT_MEMBER"
    BY <1>7, <2>1 DEF ObjectMember, Errors, NoError
  <2>7. QED
    BY <1>2, <1>3, <2>1, <2>3, <2>4, <2>5, <2>6, Stopped
<1>8. CASE state = Unknown /\ Ignored(e, okWhenIgnored)
  <2>1. /\ Emit(e, okWhenIgnored) /\ UNCHANGED <<handlers, fedBy, the_error>>
        /\ state \notin Members
    BY <1>8, ClassAssumption DEF Ignored
  <2>2. CASE okWhenIgnored = TRUE
    <3>1. handlers' = [m \in Members |-> IF m = state THEN Feed(handlers[m], e, TRUE)
                                                      ELSE handlers[m]]
      BY <1>4, <2>1
    <3>2. fedBy' = [m \in Members |-> IF m = state THEN fedBy[m] \cup {count}
                                                   ELSE fedBy[m]]
      BY <1>4, <2>1
    <3>3. QED
      BY <2>1, <2>2, <3>1, <3>2, Taken
  <2>3. CASE okWhenIgnored = FALSE
    <3>1. PICK d \in Members : the_error = DuplicateKeys(d)
      BY <1>5, <2>3
    <3>2. the_error.type = "DUPLICATE_KEYS"
      BY <3>1 DEF DuplicateKeys
    <3>3. \A m \in Members : the_error # ObjectMember(m)
      BY <3>2 DEF ObjectMember
    <3>4. QED
      BY <1>2, <1>3, <1>4, <2>1, <2>3, <3>2, <3>3, Stopped
  <2>4. QED
    BY <2>2, <2>3
<1>9. QED
  BY <1>6, <1>7, <1>8 DEF Forwarded
-----------------------------------------------------------------------------
(* Events at depth 0 and of the outermost object itself.                   *)

(* What the invariant says before the object, and between its values.      *)
LEMMA Outside ==
  ASSUME IInv, Alive, ~(Len(open) > 1), ~keyed
  PROVE  /\ open \in Seq(Kinds) /\ count \in Nat /\ Len(named) = count
         /\ named \in Seq(Members \cup {Unknown})
         /\ handlers \in [Members -> Handlers]
         /\ fedBy \in [Members -> SUBSET Nat]
         /\ \A m \in Members :
              /\ handlers[m].fed = <<>> /\ ~HasRejected(handlers[m])
              /\ fedBy[m] = {i - 1 : i \in Occurrences(m) \cap 1..count}
         /\ the_error \in Errors /\ has \in [Flagged -> BOOLEAN]
         /\ \/ the_error = NoError
            \/ \E m \in Members : the_error = DuplicateKeys(m)
<1>1. /\ open \in Seq(Kinds) /\ count \in Nat
      /\ named \in Seq(Members \cup {Unknown})
      /\ handlers \in [Members -> Handlers] /\ fedBy \in [Members -> SUBSET Nat]
      /\ the_error \in Errors /\ has \in [Flagged -> BOOLEAN]
  BY DEF IInv, ClassTypeOK, SourceTypeOK
<1>2. Len(named) = count
  BY DEF IInv, StateOfMember, InMember
<1>3. \A m \in Members : handlers[m].fed = <<>>
                         /\ fedBy[m] = {i - 1 : i \in Occurrences(m) \cap 1..count}
  BY DEF IInv, MemberIsolated
<1>4. \/ the_error = NoError
      \/ \E m \in Members : the_error = DuplicateKeys(m)
  BY DEF IInv, NotedSoFar
<1>5. \A m \in Members : ~HasRejected(handlers[m])
  <2>1. the_error.type # "OBJECT_MEMBER"
    BY <1>4 DEF NoError, DuplicateKeys
  <2>2. \A m \in Members : the_error # ObjectMember(m)
    BY <2>1 DEF ObjectMember
  <2>3. QED
    BY <2>2 DEF IInv, RefusalRecorded
<1>6. QED
  BY <1>1, <1>2, <1>3, <1>4, <1>5

(* The value does not begin with an object.                                *)
LEMMA DepthRejection ==
  ASSUME IInv, phase = "waiting", NEW e \in {"Scalar", "StartArray"},
         RejectedByDepth(e),
         UNCHANGED <<state, depth, has, named, options, earlier>>
  PROVE  IInv'
<1>1. e \in Events /\ e \notin Ends /\ Emit(e, FALSE) /\ the_error' = TypeMismatch
      /\ UNCHANGED <<handlers, fedBy>>
  BY DEF Events, Starts, Ends, RejectedByDepth
<1>2. open = <<>> /\ ~keyed /\ Alive
  BY DEF IInv, SourceConsistent, Alive
<1>3. ~(Len(open) > 1)
  BY <1>2
<1>4. After(open, e) \in Seq(Kinds)
  BY <1>1, <1>2, <1>3, AfterFacts, Outside
<1>5. depth' \in Nat
  BY DEF IInv, ClassTypeOK
<1>6. /\ the_error' \in Errors /\ the_error' # NoError
      /\ the_error'.type = "TYPE_MISMATCH"
  BY <1>1 DEF TypeMismatch, Errors, NoError
<1>7. \A m \in Members : the_error' # ObjectMember(m)
  BY <1>6 DEF ObjectMember
<1>8. QED
  BY <1>1, <1>2, <1>3, <1>4, <1>5, <1>6, <1>7, Outside, Stopped

(* The outermost object begins.                                            *)
LEMMA OuterStart ==
  ASSUME IInv, phase = "waiting", Emit("StartObject", TRUE), depth' = 1,
         UNCHANGED <<handlers, fedBy, the_error, state, has, named, options,
                     earlier>>
  PROVE  IInv'
<1>1. open = <<>> /\ ~keyed /\ Alive /\ count = 0
  BY DEF IInv, SourceConsistent, Alive
<1>2. ~(Len(open) > 1)
  BY <1>1
<1>3. After(open, "StartObject") = <<"object">>
  BY <1>1 DEF After, Starts, KindOf
<1>4. Len(<<"object">>) = 1 /\ <<"object">>[1] = "object" /\ <<"object">> # <<>>
      /\ <<"object">> \in Seq(Kinds)
  BY DEF Kinds
<1>5. open' = <<"object">> /\ phase' = "reading" /\ count' = 0 /\ keyed' = FALSE
  BY <1>1, <1>3, <1>4 DEF Emit, ClosesElement, Ends
<1>6. ~(Len(open') > 1)
  BY <1>4, <1>5
<1>7. ClassTypeOK'
  BY <1>4, <1>5
     DEF IInv, ClassTypeOK, SourceTypeOK, Phases, Flagged, NoDuplicates
<1>8. SourceConsistent'
  BY <1>4, <1>5 DEF SourceConsistent, Alive
<1>9. DepthMirrorsText'
  <2>1. Cardinality(ObjectsIn(<<"object">>)) = 1
    BY <1>4, ObjectsBounds
  <2>2. QED
    BY <1>5, <2>1 DEF DepthMirrorsText, ObjectsIn, OpenAs
<1>10. StateOfMember'
  BY <1>1, <1>2, <1>5, <1>6, Outside DEF StateOfMember, InMember
<1>11. MemberIsolated'
  BY <1>1, <1>2, <1>5, <1>6, Outside DEF MemberIsolated, Occurrences
<1>12. FlagsMean'
  BY SameKeys
<1>13. RefusalRecorded'
  BY <1>5 DEF IInv, RefusalRecorded, ObjectMember
<1>14. NotedSoFar'
  BY <1>1, <1>5
     DEF IInv, NotedSoFar, Alive, Strict, NoDuplicates, Occurrences, Twice
<1>15. QED
  BY <1>7, <1>8, <1>9, <1>10, <1>11, <1>12, <1>13, <1>14 DEF IInv

(* What one more key does to the history of the keys.                      *)
LEMMA KeyAppended ==
  ASSUME IInv, NEW k \in Members \cup {Unknown}, named' = Append(named, k)
  PROVE  /\ named' \in Seq(Members \cup {Unknown})
         /\ Len(named) \in Nat /\ Len(named') = Len(named) + 1
         /\ named'[Len(named) + 1] = k
         /\ Occurrences(k)' = Occurrences(k) \cup {Len(named) + 1}
         /\ \A m : m # k => Occurrences(m)' = Occurrences(m)
         /\ \A m : Len(named) + 1 \notin Occurrences(m)
         /\ \A m : Twice(m) => Twice(m)'
         /\ \A m : m # k => (Twice(m)' => Twice(m))
         /\ Twice(k)' <=> Occurrences(k) # {}
<1>. DEFINE n == Len(named)
<1>1. /\ named \in Seq(Members \cup {Unknown}) /\ n \in Nat
  BY LenProperties DEF IInv, ClassTypeOK
<1>2. /\ named' \in Seq(Members \cup {Unknown}) /\ Len(named') = n + 1
      /\ \A i \in 1..n : named'[i] = named[i]
      /\ named'[n + 1] = k
  BY <1>1, PushFacts
<1>. HIDE DEF n
<1>3. \A i \in 1..n + 1 : i \in 1..n \/ i = n + 1
  BY <1>1
<1>4. n + 1 \notin 1..n /\ (\A i \in 1..n : i \in 1..n + 1 /\ i # n + 1)
      /\ n + 1 \in 1..n + 1
  BY <1>1
<1>5. \A m : Occurrences(m) = {i \in 1..n : named[i] = m}
  BY DEF n, Occurrences
<1>6. \A m : Occurrences(m)' = {i \in 1..n + 1 : named'[i] = m}
  BY <1>2 DEF Occurrences
<1>7. Occurrences(k)' = Occurrences(k) \cup {n + 1}
  BY <1>2, <1>3, <1>4, <1>5, <1>6
<1>8. \A m : m # k => Occurrences(m)' = Occurrences(m)
  BY <1>2, <1>3, <1>4, <1>5, <1>6
<1>9. \A m : n + 1 \notin Occurrences(m)
  BY <1>4, <1>5
<1>10. \A m : Twice(m) <=> \E i, j \in Occurrences(m) : i # j
  BY DEF Twice, Occurrences
<1>11. \A m : Twice(m)' <=> \E i, j \in Occurrences(m)' : i # j
  BY DEF Twice, Occurrences
<1>12. (\A m : Twice(m) => Twice(m)') /\ (\A m : m # k => (Twice(m)' => Twice(m)))
  BY <1>7, <1>8, <1>10, <1>11
<1>13. Twice(k)' <=> Occurrences(k) # {}
  <2>1. ASSUME NEW i \in Occurrences(k)
        PROVE  Twice(k)'
    BY <1>7, <1>9, <1>11
  <2>2. ASSUME Occurrences(k) = {}
        PROVE  ~Twice(k)'
    <3>1. Occurrences(k)' = {n + 1}
      BY <1>7, <2>2
    <3>2. QED
      BY <1>11, <3>1
  <2>3. QED
    BY <2>1, <2>2
<1>14. QED
  BY <1>1, <1>2, <1>7, <1>8, <1>9, <1>12, <1>13 DEF n

(* A key of the outermost object that is accepted: a member's, or an       *)
(* unknown one if the mode is not strict.                                  *)
LEMMA OuterKey ==
  ASSUME IInv, Len(open) = 1, Emit("Key", TRUE),
         NEW k \in Members \cup {Unknown}, k = Unknown => ~Strict,
         state' = k, named' = Append(named, k),
         has' = [f \in Flagged |-> has[f] \/ f = k],
         the_error' = IF k \in Members /\ NoDuplicates /\ has[k]
                      THEN DuplicateKeys(k) ELSE the_error,
         UNCHANGED <<handlers, fedBy, depth, options, earlier>>
  PROVE  IInv'
<1>1. phase = "reading" /\ ~keyed /\ Alive /\ ~(Len(open) > 1) /\ open # <<>>
  BY DEF Emit, MayEmit, InObject, Starts, Alive
<1>2. /\ open \in Seq(Kinds) /\ count \in Nat /\ Len(named) = count
      /\ \A m \in Members :
           /\ handlers[m].fed = <<>> /\ ~HasRejected(handlers[m])
           /\ fedBy[m] = {i - 1 : i \in Occurrences(m) \cap 1..count}
      /\ the_error \in Errors /\ has \in [Flagged -> BOOLEAN]
      /\ \/ the_error = NoError
         \/ \E m \in Members : the_error = DuplicateKeys(m)
  BY <1>1, Outside
<1>3. After(open, "Key") = open
  BY DEF After, Starts, Ends
<1>4. open' = open /\ phase' = "reading" /\ keyed' = TRUE /\ count' = count
  BY <1>1, <1>3 DEF Emit, ClosesElement, Ends
<1>5. /\ named' \in Seq(Members \cup {Unknown})
      /\ Len(named') = count + 1 /\ named'[count + 1] = k
      /\ Occurrences(k)' = Occurrences(k) \cup {count + 1}
      /\ \A m : m # k => Occurrences(m)' = Occurrences(m)
      /\ \A m : Twice(m) => Twice(m)'
      /\ \A m : m # k => (Twice(m)' => Twice(m))
      /\ Twice(k)' <=> Occurrences(k) # {}
  BY <1>2, KeyAppended
<1>6. /\ Flagged' = Flagged /\ NoDuplicates' = NoDuplicates /\ Strict' = Strict
      /\ Flagged \subseteq Members /\ Unknown \notin Members
  BY ClassAssumption DEF Flagged, NoDuplicates, Strict
<1>7. /\ the_error' \in Errors
      /\ \/ the_error' = NoError
         \/ \E m \in Members : the_error' = DuplicateKeys(m)
  <2>1. CASE k \in Members /\ NoDuplicates /\ has[k]
    <3>1. the_error' = DuplicateKeys(k) /\ k \in Members
      BY <2>1
    <3>2. DuplicateKeys(k) \in Errors
      BY <2>1 DEF DuplicateKeys, Errors
    <3>3. QED
      BY <3>1, <3>2
  <2>2. CASE ~(k \in Members /\ NoDuplicates /\ has[k])
    <3>1. the_error' = the_error
      BY <2>2
    <3>2. QED
      BY <1>2, <3>1
  <2>3. QED
    BY <2>1, <2>2
<1>8. ClassTypeOK'
  <2>1. SourceTypeOK'
    BY <1>2, <1>4 DEF SourceTypeOK, Phases
  <2>2. has' \in [Flagged -> BOOLEAN]
    BY <1>2
  <2>3. QED
    BY <1>5, <1>6, <1>7, <2>1, <2>2 DEF IInv, ClassTypeOK
<1>9. SourceConsistent' /\ DepthMirrorsText'
  BY <1>1, <1>4 DEF IInv, SourceConsistent, DepthMirrorsText, Alive
<1>10. StateOfMember'
  BY <1>4, <1>5 DEF StateOfMember, InMember
<1>11. MemberIsolated'
  <2>1. ASSUME NEW m \in Members
        PROVE  Occurrences(m)' \cap 1..count = Occurrences(m) \cap 1..count
    <3>1. count + 1 \notin 1..count
      BY <1>2
    <3>2. QED
      BY <1>5, <3>1
  <2>2. \A m \in Members : fedBy'[m] = {i - 1 : i \in Occurrences(m)' \cap 1..count'}
    BY <1>2, <1>4, <2>1
  <2>3. ~(Len(open') > 1)
    BY <1>1, <1>4
  <2>4. \A m \in Members : handlers'[m].fed = <<>>
    BY <1>2
  <2>5. QED
    BY <2>2, <2>3, <2>4 DEF MemberIsolated
<1>12. FlagsMean'
  <2>1. ASSUME NEW m \in Flagged
        PROVE  has'[m] <=> (Occurrences(m)' # {} \/ m \in earlier')
    <3>1. has[m] <=> (Occurrences(m) # {} \/ m \in earlier)
      BY DEF IInv, FlagsMean
    <3>2. has'[m] <=> (has[m] \/ m = k)
      OBVIOUS
    <3>3. QED
      BY <1>5, <3>1, <3>2
  <2>2. QED
    BY <1>6, <2>1 DEF FlagsMean
<1>13. RefusalRecorded'
  <2>1. the_error'.type # "OBJECT_MEMBER"
    <3>1. NoError.type = "none" /\ \A m : DuplicateKeys(m).type = "DUPLICATE_KEYS"
      BY DEF NoError, DuplicateKeys
    <3>2. the_error'.type \in {"none", "DUPLICATE_KEYS"}
      BY <1>7, <3>1
    <3>3. QED
      BY <3>2
  <2>2. \A m \in Members : the_error' # ObjectMember(m)
    BY <2>1 DEF ObjectMember
  <2>3. \A m \in Members : HasRejected(handlers'[m]) <=> the_error' = ObjectMember(m)
    BY <1>2, <2>2
  <2>4. QED
    BY <1>4, <2>1, <2>3 DEF RefusalRecorded
<1>14. NotedSoFar'
  <2>1. CASE k \in Members /\ NoDuplicates /\ has[k]
    <3>1. /\ the_error'.type = "DUPLICATE_KEYS" /\ the_error'.members = {k}
          /\ the_error' # NoError
      BY <2>1 DEF DuplicateKeys, NoError
    <3>2. k \in Flagged
      BY <2>1 DEF Flagged
    <3>3. Twice(k)' \/ k \in earlier'
      BY <1>5, <2>1, <3>2 DEF IInv, FlagsMean
    <3>4. Strict' => Occurrences(Unknown)' = {}
      BY <1>1, <1>5, <1>6, <2>1 DEF IInv, NotedSoFar
    <3>5. QED
      BY <1>4, <1>7, <3>1, <3>3, <3>4 DEF NotedSoFar
  <2>2. CASE ~(k \in Members /\ NoDuplicates /\ has[k])
    <3>1. the_error' = the_error
      BY <2>2
    <3>2. ASSUME NoDuplicates, the_error = NoError
          PROVE  \A m \in Members : ~Twice(m)'
      <4>1. \A m \in Members : ~Twice(m)
        BY <3>2 DEF IInv, NotedSoFar
      <4>2. CASE k \in Members
        <5>1. k \in Flagged /\ ~has[k]
          BY <2>2, <3>2, <4>2 DEF Flagged
        <5>2. Occurrences(k) = {}
          BY <5>1 DEF IInv, FlagsMean
        <5>3. QED
          BY <1>5, <4>1, <5>2
      <4>3. CASE k \notin Members
        BY <1>5, <4>1, <4>3
      <4>4. QED
        BY <4>2, <4>3
    <3>3. Strict => Occurrences(Unknown)' = {}
      BY <1>1, <1>5 DEF IInv, NotedSoFar
    <3>4. the_error.type = "DUPLICATE_KEYS" =>
            \A m \in the_error.members : Twice(m)' \/ m \in earlier
      BY <1>5 DEF IInv, NotedSoFar
    <3>5. the_error.type # "MISSING_REQUIRED"
      BY <1>2 DEF NoError, DuplicateKeys
    <3>6. QED
      BY <1>4, <1>6, <1>7, <3>1, <3>2, <3>3, <3>4, <3>5 DEF NotedSoFar
  <2>3. QED
    BY <2>1, <2>2
<1>15. QED
  BY <1>8, <1>9, <1>10, <1>11, <1>12, <1>13, <1>14 DEF IInv

(* An unknown key is refused in strict mode.                               *)
LEMMA OuterKeyRefused ==
  ASSUME IInv, Len(open) = 1, Emit("Key", FALSE), state' = Unknown,
         named' = Append(named, Unknown), the_error' = UnknownField,
         UNCHANGED <<has, handlers, fedBy, depth, options, earlier>>
  PROVE  IInv'
<1>1. phase = "reading" /\ ~keyed /\ Alive /\ ~(Len(open) > 1)
  BY DEF Emit, MayEmit, InObject, Starts, Alive
<1>2. /\ open \in Seq(Kinds) /\ count \in Nat
      /\ \A m \in Members : ~HasRejected(handlers[m])
      /\ has \in [Flagged -> BOOLEAN]
  BY <1>1, Outside
<1>3. /\ phase' = "terminated" /\ open' = open /\ count' = count /\ keyed' = TRUE
      /\ ~Alive'
  BY DEF Emit, Alive, After, Starts, Ends
<1>4. /\ named' \in Seq(Members \cup {Unknown})
      /\ \A m : m # Unknown => Occurrences(m)' = Occurrences(m)
  BY KeyAppended
<1>5. /\ Flagged' = Flagged /\ Flagged \subseteq Members /\ Unknown \notin Members
  BY ClassAssumption DEF Flagged, NoDuplicates
<1>6. the_error' \in Errors /\ the_error' # NoError
      /\ the_error'.type = "UNKNOWN_FIELD"
  BY DEF UnknownField, Errors, NoError
<1>7. ClassTypeOK'
  <2>1. SourceTypeOK'
    BY <1>2, <1>3 DEF SourceTypeOK, Phases
  <2>2. QED
    BY <1>2, <1>4, <1>5, <1>6, <2>1 DEF IInv, ClassTypeOK
<1>8. FlagsMean'
  BY <1>4, <1>5 DEF IInv, FlagsMean
<1>9. RefusalRecorded'
  <2>1. \A m \in Members : the_error' # ObjectMember(m)
    BY <1>6 DEF ObjectMember
  <2>2. \A m \in Members : HasRejected(handlers'[m]) <=> the_error' = ObjectMember(m)
    BY <1>2, <2>1
  <2>3. QED
    BY <1>6, <2>2 DEF RefusalRecorded
<1>10. NotedSoFar'
  BY <1>3, <1>6 DEF NotedSoFar
<1>11. QED
  BY <1>3, <1>7, <1>8, <1>9, <1>10
     DEF IInv, SourceConsistent, DepthMirrorsText, StateOfMember, MemberIsolated

(* The outermost object ends: it is accepted if nothing is wrong.          *)
LEMMA OuterEnd ==
  ASSUME IInv, Len(open) = 1, Validated, depth' = 0,
         UNCHANGED <<handlers, fedBy, state, has, named, options, earlier>>
  PROVE  IInv'
<1>1. phase = "reading" /\ ~keyed /\ Alive /\ open # <<>>
  BY DEF Validated, Emit, MayEmit, InObject, Starts, Alive
<1>2. /\ open \in Seq(Kinds) /\ count \in Nat /\ Len(named) = count
      /\ handlers \in [Members -> Handlers] /\ fedBy \in [Members -> SUBSET Nat]
      /\ \A m \in Members :
           /\ handlers[m].fed = <<>> /\ ~HasRejected(handlers[m])
           /\ fedBy[m] = {i - 1 : i \in Occurrences(m) \cap 1..count}
      /\ the_error \in Errors
      /\ \/ the_error = NoError
         \/ \E m \in Members : the_error = DuplicateKeys(m)
  <2>1. ~(Len(open) > 1)
    OBVIOUS
  <2>2. QED
    BY <1>1, <2>1, Outside
<1>3. Missing = {m \in Required : Occurrences(m) = {}} \ earlier
  <2>1. Required \subseteq Flagged
    BY ClassAssumption DEF Flagged
  <2>2. QED
    BY <2>1 DEF Missing, IInv, FlagsMean
<1>4. Front(open) = <<>> /\ After(open, "EndObject") = <<>>
  BY <1>1, <1>2, PopFacts DEF After, Starts, Ends
<1>5. /\ "EndObject" \in Events /\ After(open, "EndObject") \in Seq(Kinds)
      /\ depth' \in Nat
  BY <1>4, EmptySeq DEF Events, Ends
<1>6. NoError.type = "none" /\ \A m : DuplicateKeys(m).type = "DUPLICATE_KEYS"
  BY DEF NoError, DuplicateKeys
<1>7. CASE Missing # {}
  <2>1. the_error' = MissingRequired(Missing) /\ Emit("EndObject", the_error' = NoError)
    BY <1>7 DEF Validated
  <2>2. /\ the_error'.type = "MISSING_REQUIRED" /\ the_error'.members = Missing
        /\ the_error' # NoError
    BY <2>1 DEF MissingRequired, NoError
  <2>3. the_error' \in Errors
    BY <2>1, ClassAssumption DEF MissingRequired, Missing, Errors
  <2>4. Emit("EndObject", FALSE)
    BY <2>1, <2>2
  <2>5. \A m \in Members : the_error' # ObjectMember(m)
    BY <2>2 DEF ObjectMember
  <2>6. \A m \in Members : HasRejected(handlers'[m]) <=> the_error' = ObjectMember(m)
    BY <1>2, <2>5
  <2>7. QED
    BY <1>2, <1>3, <1>5, <1>7, <2>2, <2>3, <2>4, <2>6, Stopped
<1>8. CASE Missing = {} /\ the_error # NoError
  <2>1. the_error' = the_error /\ Emit("EndObject", the_error' = NoError)
    BY <1>8 DEF Validated
  <2>2. Emit("EndObject", FALSE) /\ the_error' # NoError
    BY <1>8, <2>1
  <2>3. the_error'.type = "DUPLICATE_KEYS"
    BY <1>2, <1>6, <1>8, <2>1
  <2>4. \A m \in Members : the_error' # ObjectMember(m)
    BY <2>3 DEF ObjectMember
  <2>5. \A m \in Members : HasRejected(handlers'[m]) <=> the_error' = ObjectMember(m)
    BY <1>2, <2>4
  <2>6. QED
    BY <1>2, <1>5, <2>1, <2>2, <2>3, <2>5, Stopped
<1>9. CASE Missing = {} /\ the_error = NoError
  <2>1. the_error' = NoError /\ Emit("EndObject", TRUE)
    BY <1>9 DEF Validated
  <2>2. ~ClosesElement("EndObject")
    BY <1>4 DEF ClosesElement
  <2>3. open' = <<>> /\ phase' = "done" /\ count' = count /\ keyed' = FALSE
    BY <1>4, <2>1, <2>2 DEF Emit
  <2>4. ~(Len(open') > 1)
    BY <2>3
  <2>5. /\ Flagged' = Flagged /\ NoDuplicates' = NoDuplicates /\ Strict' = Strict
        /\ \A m : Occurrences(m)' = Occurrences(m)
        /\ \A m : Twice(m)' <=> Twice(m)
        /\ FlagsMean'
    BY SameKeys
  <2>6. ClassTypeOK'
    <3>1. SourceTypeOK'
      BY <1>2, <2>3, EmptySeq DEF SourceTypeOK, Phases
    <3>2. QED
      BY <1>2, <1>5, <1>9, <2>1, <2>5, <3>1 DEF IInv, ClassTypeOK
  <2>7. SourceConsistent'
    BY <2>3 DEF SourceConsistent
  <2>8. DepthMirrorsText'
    <3>1. Cardinality(ObjectsIn(<<>>)) = 0
      BY EmptySeq, ObjectsBounds
    <3>2. QED
      BY <2>3, <3>1 DEF DepthMirrorsText, ObjectsIn, OpenAs
  <2>9. StateOfMember'
    BY <1>2, <2>3 DEF StateOfMember, InMember
  <2>10. MemberIsolated'
    BY <1>2, <2>3, <2>4, <2>5 DEF MemberIsolated
  <2>11. RefusalRecorded'
    BY <1>9, <2>1, <2>3 DEF IInv, RefusalRecorded, ObjectMember
  <2>12. NotedSoFar'
    <3>1. NoDuplicates => \A m \in Members : ~Twice(m)'
      BY <1>9, <2>5 DEF IInv, NotedSoFar
    <3>2. Strict => Occurrences(Unknown)' = {}
      BY <1>1, <2>5 DEF IInv, NotedSoFar
    <3>3. Missing' = {}
      BY <1>9 DEF Missing
    <3>4. QED
      BY <1>6, <2>1, <2>3, <2>5, <3>1, <3>2, <3>3 DEF NotedSoFar
  <2>13. QED
    BY <2>5, <2>6, <2>7, <2>8, <2>9, <2>10, <2>11, <2>12 DEF IInv
<1>10. QED
  BY <1>7, <1>8, <1>9
-----------------------------------------------------------------------------
(* The whole state machine.                                                *)

(* No value has begun.                                                     *)
Prepared ==
  /\ ClassTypeOK /\ open = <<>> /\ ~keyed /\ phase = "waiting" /\ count = 0
  /\ depth = 0 /\ named = <<>> /\ the_error = NoError /\ fedBy = NeverFed
  /\ \A m \in Members : handlers[m].fed = <<>> /\ ~HasRejected(handlers[m])
  /\ \A m \in Flagged : has[m] <=> m \in earlier

(* Before a value the invariant asks no more than that.                    *)
LEMMA BeforeValue == Prepared => IInv
<1>. SUFFICES ASSUME Prepared PROVE IInv
  OBVIOUS
<1>. USE DEF Prepared
<1>1. ~(Len(open) > 1) /\ Len(named) = 0
  OBVIOUS
<1>2. \A m : Occurrences(m) = {} /\ ~Twice(m)
  BY <1>1 DEF Occurrences, Twice
<1>3. SourceConsistent
  BY DEF SourceConsistent
<1>4. DepthMirrorsText
  BY EmptySeq, ObjectsBounds DEF DepthMirrorsText, ObjectsIn, OpenAs
<1>5. StateOfMember
  BY <1>1 DEF StateOfMember, InMember
<1>6. MemberIsolated
  BY <1>1, <1>2 DEF MemberIsolated, NeverFed
<1>7. FlagsMean
  BY <1>2 DEF FlagsMean
<1>8. RefusalRecorded
  BY DEF RefusalRecorded, NoError, ObjectMember
<1>9. NotedSoFar
  BY <1>2 DEF NotedSoFar, NoError
<1>10. QED
  BY <1>3, <1>4, <1>5, <1>6, <1>7, <1>8, <1>9 DEF IInv

(* ... after a step as before it.                                          *)
LEMMA BeforeNextValue == Prepared' => IInv'
  BY BeforeValue, PTL

(* The initial states.                                                     *)
LEMMA InitInvariant == Init => IInv
<1>. SUFFICES ASSUME Init PROVE IInv
  OBVIOUS
<1>1. /\ open = <<>> /\ keyed = FALSE /\ phase = "waiting" /\ count = 0
      /\ options \in SUBSET Options /\ earlier = {} /\ state = Unknown
      /\ depth = 0 /\ the_error = NoError /\ has = NoFlags
      /\ handlers = AllFresh /\ named = <<>> /\ fedBy = NeverFed
  BY DEF Init, SourceInit
<1>2. Fresh \in Handlers /\ Fresh.fed = <<>> /\ ~HasRejected(Fresh)
  BY EmptySeq DEF Fresh, Handlers, Statuses, HasRejected
<1>3. ClassTypeOK
  <2>1. SourceTypeOK
    BY <1>1, EmptySeq DEF SourceTypeOK, Phases
  <2>2. the_error \in Errors /\ named \in Seq(Members \cup {Unknown})
    BY <1>1, EmptySeq DEF NoError, Errors
  <2>3. /\ has \in [Flagged -> BOOLEAN] /\ handlers \in [Members -> Handlers]
        /\ fedBy \in [Members -> SUBSET Nat]
    BY <1>1, <1>2 DEF NoFlags, AllFresh, NeverFed
  <2>4. QED
    BY <1>1, <2>1, <2>2, <2>3 DEF ClassTypeOK
<1>4. \A m \in Members : handlers[m].fed = <<>> /\ ~HasRejected(handlers[m])
  BY <1>1, <1>2 DEF AllFresh
<1>5. \A m \in Flagged : has[m] <=> m \in earlier
  BY <1>1 DEF NoFlags
<1>6. QED
  BY <1>1, <1>3, <1>4, <1>5, BeforeValue DEF Prepared

(* Another value follows in a prepared handler, or in the same one.        *)
LEMMA NextValue ==
  ASSUME IInv, UNCHANGED options, PrepareForReuse \/ RepeatedMember
  PROVE  IInv'
<1>1. /\ phase = "done" /\ phase' = "waiting" /\ count' = 0
      /\ open' = open /\ keyed' = keyed /\ named' = <<>> /\ fedBy' = NeverFed
  BY DEF PrepareForReuse, RepeatedMember, AnotherValue
<1>2. open = <<>> /\ ~keyed /\ Alive /\ ~(Len(open) > 1) /\ the_error = NoError
      /\ depth = 0
  <2>1. open = <<>> /\ ~keyed /\ Alive /\ the_error = NoError
    BY <1>1 DEF IInv, SourceConsistent, NotedSoFar, Alive
  <2>2. depth = Cardinality(ObjectsIn(<<>>))
    BY <2>1 DEF IInv, DepthMirrorsText, ObjectsIn, OpenAs
  <2>3. Cardinality(ObjectsIn(<<>>)) = 0
    BY EmptySeq, ObjectsBounds
  <2>4. ~(Len(open) > 1)
    BY <2>1
  <2>5. QED
    BY <2>1, <2>2, <2>3, <2>4
<1>3. Fresh \in Handlers /\ Fresh.fed = <<>> /\ ~HasRejected(Fresh)
  BY EmptySeq DEF Fresh, Handlers, Statuses, HasRejected
<1>4. Flagged' = Flagged /\ fedBy' \in [Members -> SUBSET Nat]
      /\ NeverFed' = NeverFed
  BY <1>1 DEF Flagged, NoDuplicates, NeverFed
<1>5. SourceTypeOK' /\ named' \in Seq(Members \cup {Unknown})
  BY <1>1, EmptySeq DEF IInv, ClassTypeOK, SourceTypeOK, Phases
<1>6. CASE PrepareForReuse
  <2>1. /\ depth' = 0 /\ state' = Unknown /\ the_error' = NoError
        /\ has' = NoFlags /\ handlers' = AllFresh /\ earlier' = {}
    BY <1>6 DEF PrepareForReuse
  <2>2. ClassTypeOK'
    <3>1. the_error' \in Errors
      BY <2>1 DEF NoError, Errors
    <3>2. has' \in [Flagged -> BOOLEAN] /\ handlers' \in [Members -> Handlers]
      BY <1>3, <2>1 DEF NoFlags, AllFresh
    <3>3. QED
      BY <1>4, <1>5, <2>1, <3>1, <3>2 DEF IInv, ClassTypeOK
  <2>3. \A m \in Members : handlers'[m].fed = <<>> /\ ~HasRejected(handlers'[m])
    BY <1>3, <2>1 DEF AllFresh
  <2>4. \A m \in Flagged' : has'[m] <=> m \in earlier'
    BY <1>4, <2>1 DEF NoFlags
  <2>5. QED
    BY <1>1, <1>2, <1>4, <2>1, <2>2, <2>3, <2>4, BeforeNextValue DEF Prepared
<1>7. CASE RepeatedMember
  <2>1. /\ UNCHANGED <<state, depth, the_error, has, handlers>>
        /\ earlier' = earlier \cup {m \in Members : \E i \in DOMAIN named : named[i] = m}
    BY <1>7 DEF RepeatedMember
  <2>2. ClassTypeOK'
    BY <1>4, <1>5, <2>1 DEF IInv, ClassTypeOK
  <2>3. \A m \in Members : handlers'[m].fed = <<>> /\ ~HasRejected(handlers'[m])
    BY <1>2, <2>1, Outside
  <2>4. \A m \in Members : m \in earlier' <=> (Occurrences(m) # {} \/ m \in earlier)
    <3>1. DOMAIN named = 1..Len(named)
      BY LenProperties DEF IInv, ClassTypeOK
    <3>2. QED
      BY <2>1, <3>1 DEF Occurrences
  <2>5. Flagged \subseteq Members
    BY ClassAssumption DEF Flagged
  <2>6. \A m \in Flagged' : has'[m] <=> m \in earlier'
    BY <1>4, <2>1, <2>4, <2>5 DEF IInv, FlagsMean
  <2>7. QED
    BY <1>1, <1>2, <1>4, <2>1, <2>2, <2>3, <2>6, BeforeNextValue DEF Prepared
<1>8. QED
  BY <1>6, <1>7

(* Scalars and arrays: at depth 0 refused, otherwise a member's.           *)
LEMMA ValueEvents ==
  ASSUME IInv, NEW e \in {"Scalar", "StartArray", "EndArray"}, ValueEvent(e),
         UNCHANGED <<options, earlier>>
  PROVE  IInv'
<1>1. e \in Events /\ e # "Key" /\ e # "StartObject" /\ e # "EndObject"
  BY DEF Events, Starts, Ends
<1>2. UNCHANGED <<state, depth, has, named>>
  BY DEF ValueEvent
<1>3. \E ok \in BOOLEAN : Emit(e, ok)
  BY DEF ValueEvent, RejectedByDepth, Forwarded, AcceptedByMember,
         RejectedByMember, Ignored
<1>4. /\ phase \in {"waiting", "reading"} /\ Alive
      /\ e = "EndArray" => phase = "reading" /\ open # <<>> /\ Last(open) = "array"
  BY <1>3 DEF Emit, MayEmit, ValueMayBegin, InArray, Alive, Starts
<1>5. /\ depth = Cardinality(ObjectsIn(open)) /\ open \in Seq(Kinds)
      /\ Len(open) \in Nat
  BY <1>4, LenProperties
     DEF IInv, DepthMirrorsText, ObjectsIn, OpenAs, ClassTypeOK, SourceTypeOK
<1>6. CASE RejectedByDepth(e)
  <2>1. depth \notin Nat \ {0}
    BY <1>6 DEF RejectedByDepth
  <2>2. open = <<>> \/ open[1] # "object"
    BY <1>5, <2>1, ObjectsBounds
  <2>3. phase = "waiting" /\ e # "EndArray"
    BY <1>4, <2>2 DEF IInv, SourceConsistent
  <2>4. QED
    BY <1>2, <1>6, <2>3, DepthRejection
<1>7. CASE depth > 0 /\ Forwarded(e, TRUE)
  <2>1. open # <<>>
    <3>1. open = <<>> => depth = 0
      BY <1>5, ObjectsBounds
    <3>2. depth # 0
      BY <1>7
    <3>3. QED
      BY <3>1, <3>2
  <2>2. open[1] = "object"
    BY <1>4, <2>1 DEF IInv, SourceConsistent
  <2>3. OfMember(e)
    <3>1. ASSUME e = "EndArray"
          PROVE  Len(open) > 1
      <4>1. Len(open) # 0
        BY <1>5, <2>1, EmptySeq
      <4>2. Len(open) # 1
        BY <1>4, <2>2, <3>1 DEF Last
      <4>3. \A n \in Nat : n # 0 /\ n # 1 => n > 1
        OBVIOUS
      <4>4. QED
        BY <1>5, <4>1, <4>2, <4>3
    <3>2. QED
      BY <1>1, <3>1 DEF OfMember, Ends
  <2>4. depth' = Cardinality(ObjectsIn(After(open, e)))
    BY <1>1, <1>2, <1>4, <1>5, ObjectsAfter
  <2>5. QED
    BY <1>1, <1>2, <1>7, <2>1, <2>3, <2>4, MemberEvent
<1>8. QED
  BY <1>6, <1>7 DEF ValueEvent

(* Where a key or the end of an object finds the handler.                  *)
LEMMA InsideObject ==
  ASSUME IInv, NEW e \in {"Key", "EndObject"}, NEW ok \in BOOLEAN, Emit(e, ok)
  PROVE  /\ open \in Seq(Kinds) /\ open # <<>> /\ Last(open) = "object" /\ Alive
         /\ depth = Cardinality(ObjectsIn(open)) /\ depth \in Nat \ {0}
         /\ depth = 1 => Len(open) = 1
         /\ depth > 1 => Len(open) > 1
<1>1. phase = "reading" /\ open # <<>> /\ Last(open) = "object" /\ Alive
  BY DEF Emit, MayEmit, InObject, Starts, Alive
<1>2. /\ depth = Cardinality(ObjectsIn(open)) /\ open \in Seq(Kinds)
      /\ open[1] = "object"
  BY <1>1 DEF IInv, DepthMirrorsText, ObjectsIn, OpenAs, ClassTypeOK, SourceTypeOK,
              SourceConsistent
<1>3. /\ depth \in Nat \ {0}
      /\ Len(open) = 1 => depth = 1
      /\ depth = 1 => Len(open) = 1
  BY <1>1, <1>2, ObjectsBounds
<1>4. ASSUME depth > 1
      PROVE  Len(open) > 1
  <2>1. depth # 1
    BY <1>4
  <2>2. Len(open) \in Nat /\ Len(open) # 0 /\ Len(open) # 1
    BY <1>1, <1>2, <1>3, <2>1, EmptySeq, LenProperties
  <2>3. \A n \in Nat : n # 0 /\ n # 1 => n > 1
    OBVIOUS
  <2>4. QED
    BY <2>2, <2>3
<1>5. QED
  BY <1>1, <1>2, <1>3, <1>4

(* A key selects a member at depth 1 and is the member's own below it.     *)
LEMMA Keys ==
  ASSUME IInv, Key, UNCHANGED <<options, earlier>>
  PROVE  IInv'
<1>1. UNCHANGED depth
  BY DEF Key
<1>2. \E ok \in BOOLEAN : Emit("Key", ok)
  BY DEF Key, UnknownKey, KnownKey, Forwarded, AcceptedByMember,
         RejectedByMember, Ignored
<1>3. /\ open \in Seq(Kinds) /\ open # <<>> /\ Last(open) = "object" /\ Alive
      /\ depth = Cardinality(ObjectsIn(open))
      /\ depth = 1 => Len(open) = 1
      /\ depth > 1 => Len(open) > 1
  BY <1>2, InsideObject
<1>4. CASE depth = 1 /\ UnknownKey /\ UNCHANGED <<handlers, fedBy>>
  <2>1. state' = Unknown /\ named' = Append(named, Unknown) /\ has' = has
    BY <1>4 DEF UnknownKey
  <2>2. CASE Strict /\ Emit("Key", FALSE) /\ the_error' = UnknownField
    BY <1>1, <1>3, <1>4, <2>1, <2>2, OuterKeyRefused
  <2>3. CASE ~Strict /\ Emit("Key", TRUE) /\ UNCHANGED the_error
    <3>1. Unknown \notin Flagged /\ Unknown \notin Members
      BY ClassAssumption DEF Flagged
    <3>2. has' = [f \in Flagged |-> has[f] \/ f = Unknown]
      BY <2>1, <3>1 DEF IInv, ClassTypeOK
    <3>3. QED
      BY <1>1, <1>3, <1>4, <2>1, <2>3, <3>1, <3>2, OuterKey
  <2>4. QED
    BY <1>4, <2>2, <2>3 DEF UnknownKey
<1>5. CASE depth = 1 /\ (\E m \in Members : KnownKey(m)) /\ UNCHANGED <<handlers, fedBy>>
  <2>1. PICK m \in Members : KnownKey(m)
    BY <1>5
  <2>2. m # Unknown
    BY ClassAssumption
  <2>3. QED
    BY <1>1, <1>3, <1>5, <2>1, <2>2, OuterKey DEF KnownKey
<1>6. CASE depth > 1 /\ Forwarded("Key", TRUE) /\ UNCHANGED <<state, has, named>>
  <2>1. "Key" \in Events /\ OfMember("Key")
    BY <1>3, <1>6 DEF Events, OfMember
  <2>2. depth' = Cardinality(ObjectsIn(After(open, "Key")))
    BY <1>1, <1>3 DEF After, Starts, Ends
  <2>3. QED
    BY <1>3, <1>6, <2>1, <2>2, MemberEvent
<1>7. QED
  BY <1>4, <1>5, <1>6 DEF Key

(* An object begins: the outermost one, or one of a member's value.        *)
LEMMA ObjectStarts ==
  ASSUME IInv, StartObject, UNCHANGED <<options, earlier>>
  PROVE  IInv'
<1>1. depth' = depth + 1 /\ UNCHANGED <<state, has, named>>
  BY DEF StartObject
<1>2. \E ok \in BOOLEAN : Emit("StartObject", ok)
  BY DEF StartObject, Forwarded, AcceptedByMember, RejectedByMember, Ignored
<1>3. phase \in {"waiting", "reading"} /\ Alive
  BY <1>2 DEF Emit, MayEmit, ValueMayBegin, Alive, Starts, Ends
<1>4. depth = Cardinality(ObjectsIn(open)) /\ open \in Seq(Kinds) /\ depth \in Nat
  BY <1>3 DEF IInv, DepthMirrorsText, ObjectsIn, OpenAs, ClassTypeOK, SourceTypeOK
<1>5. CASE depth' > 1 /\ Forwarded("StartObject", TRUE)
  <2>1. depth # 0
    BY <1>1, <1>5
  <2>2. open # <<>>
    BY <1>4, <2>1, ObjectsBounds
  <2>3. "StartObject" \in Events /\ OfMember("StartObject")
    BY DEF Events, Starts, Ends, OfMember
  <2>4. depth' = Cardinality(ObjectsIn(After(open, "StartObject")))
    BY <1>1, <1>4, <2>3, ObjectsAfter
  <2>5. QED
    BY <1>1, <1>5, <2>2, <2>3, <2>4, MemberEvent
<1>6. CASE depth' <= 1 /\ Ignored("StartObject", TRUE)
  <2>1. depth = 0 /\ depth' = 1
    BY <1>1, <1>4, <1>6
  <2>2. phase = "waiting"
    <3>1. open = <<>> \/ open[1] # "object"
      BY <1>4, <2>1, ObjectsBounds
    <3>2. QED
      BY <1>3, <3>1 DEF IInv, SourceConsistent
  <2>3. QED
    BY <1>1, <1>6, <2>1, <2>2, OuterStart DEF Ignored
<1>7. QED
  BY <1>5, <1>6 DEF StartObject

(* An object ends: the outermost one, or one of a member's value.          *)
LEMMA ObjectEnds ==
  ASSUME IInv, EndObject, UNCHANGED <<options, earlier>>
  PROVE  IInv'
<1>1. depth' = depth - 1 /\ UNCHANGED <<state, has, named>>
  BY DEF EndObject
<1>2. \E ok \in BOOLEAN : Emit("EndObject", ok)
  BY DEF EndObject, Validated, Forwarded, AcceptedByMember, RejectedByMember,
         Ignored
<1>3. /\ open \in Seq(Kinds) /\ open # <<>> /\ Last(open) = "object"
      /\ depth = Cardinality(ObjectsIn(open)) /\ depth \in Nat \ {0}
      /\ depth = 1 => Len(open) = 1
      /\ depth > 1 => Len(open) > 1
  BY <1>2, InsideObject
<1>4. CASE depth' > 0 /\ Forwarded("EndObject", the_error = NoError)
  <2>1. depth > 1
    BY <1>1, <1>3, <1>4
  <2>2. "EndObject" \in Events /\ OfMember("EndObject")
    BY <1>3, <2>1 DEF Events, Ends, OfMember
  <2>3. depth' = Cardinality(ObjectsIn(After(open, "EndObject")))
    BY <1>1, <1>3, <2>2, ObjectsAfter
  <2>. DEFINE okWhenIgnored == (the_error = NoError)
  <2>4. okWhenIgnored \in BOOLEAN /\ (~okWhenIgnored => the_error # NoError)
    OBVIOUS
  <2>5. Forwarded("EndObject", okWhenIgnored)
    BY <1>4
  <2>. HIDE DEF okWhenIgnored
  <2>6. QED
    BY <1>1, <1>3, <2>2, <2>3, <2>4, <2>5, MemberEvent
<1>5. CASE depth' <= 0 /\ Validated /\ UNCHANGED <<handlers, fedBy>>
  <2>1. depth = 1 /\ depth' = 0
    BY <1>1, <1>3, <1>5
  <2>2. QED
    BY <1>1, <1>3, <1>5, <2>1, OuterEnd
<1>6. QED
  BY <1>4, <1>5 DEF EndObject

(* A syntax error leaves the handler as it was.                            *)
LEMMA TextBreaks ==
  ASSUME IInv, SyntaxError, UNCHANGED <<options, earlier>>
  PROVE  IInv'
<1>1. /\ phase' = "malformed" /\ ~Alive' /\ UNCHANGED <<open, keyed, count>>
      /\ UNCHANGED <<state, depth, the_error, has, handlers, named, fedBy>>
  BY DEF SyntaxError, Malformed, handlerVars, Alive
<1>2. /\ Flagged' = Flagged /\ NoDuplicates' = NoDuplicates /\ Strict' = Strict
      /\ \A m : Occurrences(m)' = Occurrences(m)
      /\ \A m : Twice(m)' <=> Twice(m)
      /\ FlagsMean'
  BY <1>1, SameKeys
<1>3. ClassTypeOK'
  BY <1>1, <1>2 DEF IInv, ClassTypeOK, SourceTypeOK, Phases
<1>4. RefusalRecorded'
  BY <1>1 DEF IInv, RefusalRecorded, ObjectMember
<1>5. NotedSoFar'
  <2>1. {m \in Required : Occurrences(m)' = {}} = {m \in Required : Occurrences(m) = {}}
    BY <1>2
  <2>2. /\ NoDuplicates' /\ the_error' = NoError => \A m \in Members : ~Twice(m)'
        /\ the_error'.type = "DUPLICATE_KEYS" =>
             \A m \in the_error'.members : Twice(m)' \/ m \in earlier'
    BY <1>1, <1>2 DEF IInv, NotedSoFar, NoError
  <2>3. the_error'.type = "MISSING_REQUIRED" =>
          /\ the_error'.members = {m \in Required : Occurrences(m)' = {}} \ earlier'
          /\ the_error'.members # {}
    BY <1>1, <2>1 DEF IInv, NotedSoFar
  <2>4. QED
    BY <1>1, <2>2, <2>3 DEF NotedSoFar
<1>6. QED
  BY <1>1, <1>2, <1>3, <1>4, <1>5
     DEF IInv, SourceConsistent, DepthMirrorsText, StateOfMember, MemberIsolated

(* Steps that change nothing, whatever the members note.                   *)
LEMMA StutterInvariant ==
  IInv /\ UNCHANGED <<sourceVars, handlerVars, options, earlier>> => IInv'
<1>. SUFFICES ASSUME IInv, UNCHANGED <<sourceVars, handlerVars, options, earlier>>
              PROVE  IInv'
  OBVIOUS
<1>1. /\ UNCHANGED <<open, keyed, phase, count>>
      /\ UNCHANGED <<state, depth, the_error, has, handlers, named, fedBy>>
      /\ UNCHANGED <<options, earlier>>
  BY DEF sourceVars, handlerVars
<1>2. /\ Flagged' = Flagged /\ NoDuplicates' = NoDuplicates /\ Strict' = Strict
      /\ \A m : Occurrences(m)' = Occurrences(m)
      /\ \A m : Twice(m)' <=> Twice(m)
      /\ FlagsMean'
  BY <1>1, SameKeys
<1>3. ClassTypeOK'
  BY <1>1, <1>2 DEF IInv, ClassTypeOK, SourceTypeOK
<1>4. SourceConsistent' /\ DepthMirrorsText' /\ StateOfMember'
  BY <1>1 DEF IInv, SourceConsistent, DepthMirrorsText, StateOfMember, InMember,
              Alive
<1>5. MemberIsolated'
  BY <1>1, <1>2 DEF IInv, MemberIsolated, Alive
<1>6. RefusalRecorded'
  BY <1>1 DEF IInv, RefusalRecorded, ObjectMember
<1>7. NotedSoFar'
  <2>1. {m \in Required : Occurrences(m)' = {}} = {m \in Required : Occurrences(m) = {}}
    BY <1>2
  <2>2. \A m : DuplicateKeys(m)' = DuplicateKeys(m)
    BY DEF DuplicateKeys
  <2>3. NoError' = NoError /\ Alive' = Alive
    BY <1>1 DEF NoError, Alive
  <2>4. Missing' = Missing
    BY <1>1 DEF Missing
  <2>5. QED
    BY <1>1, <1>2, <2>1, <2>2, <2>3, <2>4 DEF IInv, NotedSoFar
<1>8. QED
  BY <1>2, <1>3, <1>4, <1>5, <1>6, <1>7 DEF IInv

(* Every event, whatever the members note.                                 *)
LEMMA EventInvariant ==
  ASSUME IInv, Event, UNCHANGED <<options, earlier>>
  PROVE  IInv'
<1>1. CASE Scalar
  BY <1>1, ValueEvents DEF Scalar
<1>2. CASE StartArray
  BY <1>2, ValueEvents DEF StartArray
<1>3. CASE EndArray
  BY <1>3, ValueEvents DEF EndArray
<1>4. CASE Key
  BY <1>4, Keys
<1>5. CASE StartObject
  BY <1>5, ObjectStarts
<1>6. CASE EndObject
  BY <1>6, ObjectEnds
<1>7. CASE SyntaxError
  BY <1>7, TextBreaks
<1>8. QED
  BY <1>1, <1>2, <1>3, <1>4, <1>5, <1>6, <1>7 DEF Event

(* Every step.                                                             *)
LEMMA StepInvariant == IInv /\ [Next]_vars => IInv'
<1>. SUFFICES ASSUME IInv, [Next]_vars PROVE IInv'
  OBVIOUS
<1>1. CASE Event /\ UNCHANGED <<options, earlier>>
  BY <1>1, EventInvariant
<1>2. CASE (PrepareForReuse \/ RepeatedMember) /\ UNCHANGED options
  BY <1>2, NextValue
<1>3. CASE UNCHANGED vars
  BY <1>3, StutterInvariant DEF vars
<1>4. QED
  BY <1>1, <1>2, <1>3 DEF Next

(* What the history says of an accepted object.                            *)
LEMMA InvariantMeansEarned == IInv => AcceptanceIsEarned
<1>. SUFFICES ASSUME IInv, phase = "done" PROVE AcceptanceIsEarned
  BY DEF AcceptanceIsEarned
<1>1. Alive /\ the_error = NoError /\ named \in Seq(Members \cup {Unknown})
  BY DEF IInv, NotedSoFar, Alive, ClassTypeOK
<1>2. \A m \in Required : Occurrences(m) # {} \/ m \in earlier
  <2>1. Required \subseteq Flagged
    BY ClassAssumption DEF Flagged
  <2>2. \A m \in Required : has[m]
    BY DEF IInv, NotedSoFar, Missing
  <2>3. QED
    BY <2>1, <2>2 DEF IInv, FlagsMean
<1>3. ASSUME NoDuplicates, NEW m \in Members
      PROVE  Cardinality(Occurrences(m)) <= 1
  <2>1. ~Twice(m)
    BY <1>1, <1>3 DEF IInv, NotedSoFar
  <2>2. Cardinality(Occurrences(m)) \in Nat /\ ~(Cardinality(Occurrences(m)) > 1)
    BY <1>1, <2>1, CountOccurrences
  <2>3. \A n \in Nat : ~(n > 1) => n <= 1
    OBVIOUS
  <2>4. QED
    BY <2>2, <2>3
<1>4. Strict => Occurrences(Unknown) = {}
  BY <1>1 DEF IInv, NotedSoFar
<1>5. QED
  BY <1>1, <1>2, <1>3, <1>4 DEF AcceptanceIsEarned

(* What the history says of a noted error.                                 *)
LEMMA InvariantMeansReal == IInv => ErrorIsReal
<1>. SUFFICES ASSUME IInv PROVE ErrorIsReal
  OBVIOUS
<1>1. named \in Seq(Members \cup {Unknown})
  BY DEF IInv, ClassTypeOK
<1>2. \A m : Cardinality(Occurrences(m)) > 1 <=> Twice(m)
  BY <1>1, CountOccurrences
<1>3. QED
  BY <1>2 DEF IInv, NotedSoFar, ErrorIsReal
-----------------------------------------------------------------------------
(* The theorems.                                                           *)

-----------------------------------------------------------------------------
(* Which member can hold an error.                                         *)

(* A member in the middle of a value has a container open.                 *)
BusyIsOpen ==
  \A m \in Members : handlers[m].status = "busy" => handlers[m].fed # <<>>

(* Only the member being read is in the middle of a value, and until the   *)
(* parse is ended only a repeated key is noted.                            *)
OneReads ==
  /\ \A m \in Members :
       handlers[m].status = "busy" =>
         m = state /\ Len(open) > 1 /\ phase \in {"reading", "malformed"}
  /\ phase # "terminated" =>
       the_error = NoError \/ \E m \in Members : the_error = DuplicateKeys(m)

NotedInside == noted => \E m \in Members : handlers[m].status = "busy"

ErrorInv == BusyIsOpen /\ OneReads /\ NotedInside /\ noted \in BOOLEAN

(* What an event can do to the members.                                    *)
Fed(e, ok) ==
  /\ state \in Members
  /\ Emit(e, ok)
  /\ handlers' = [handlers EXCEPT ![state] = Feed(@, e, ok)]
  /\ ok => UNCHANGED the_error

(* ... or it leaves them alone: no member's value is being read if it is   *)
(* refused, and an error it adds is noted at a key.                        *)
LeftAlone(e, ok) ==
  /\ Emit(e, ok)
  /\ UNCHANGED handlers
  /\ ~ok => state \notin Members \/ depth <= 0
            \/ (depth <= 1 /\ e \in {"Key", "EndObject"})
  /\ ok => \/ UNCHANGED the_error
           \/ e = "Key" /\ the_error' # NoError

(* Every event is one or the other.                                        *)
LEMMA EventKinds ==
  ASSUME IInv, Event
  PROVE  \/ SyntaxError
         \/ \E e \in Events, ok \in BOOLEAN : Fed(e, ok) \/ LeftAlone(e, ok)
<1>. DEFINE Kind == \E e \in Events, ok \in BOOLEAN : Fed(e, ok) \/ LeftAlone(e, ok)
<1>1. /\ Events = {"Scalar", "Key", "StartArray", "EndArray", "StartObject",
                   "EndObject"}
      /\ depth \in Nat
  BY DEF Events, Starts, Ends, IInv, ClassTypeOK
<1>2. ASSUME NEW e \in Events, NEW ok \in BOOLEAN, Forwarded(e, ok)
      PROVE  Kind
  <2>1. CASE state \in Members /\ AcceptedByMember(e)
    BY <2>1 DEF AcceptedByMember, Fed
  <2>2. CASE state \in Members /\ RejectedByMember(e)
    BY <2>2 DEF RejectedByMember, Fed
  <2>3. CASE state = Unknown /\ Ignored(e, ok)
    BY <2>3, ClassAssumption DEF Ignored, LeftAlone
  <2>4. QED
    BY <1>2, <2>1, <2>2, <2>3 DEF Forwarded
<1>3. ASSUME NEW e \in Events, ValueEvent(e)
      PROVE  Kind
  <2>1. CASE RejectedByDepth(e)
    BY <2>1 DEF RejectedByDepth, LeftAlone
  <2>2. QED
    BY <1>2, <1>3, <2>1 DEF ValueEvent
<1>4. CASE Scalar \/ StartArray \/ EndArray
  BY <1>1, <1>3, <1>4 DEF Scalar, StartArray, EndArray
<1>5. CASE Key
  <2>1. ASSUME depth = 1, UnknownKey, UNCHANGED handlers
        PROVE  Kind
    <3>1. CASE Emit("Key", TRUE) /\ UNCHANGED the_error
      BY <1>1, <2>1, <3>1 DEF LeftAlone
    <3>2. CASE Emit("Key", FALSE)
      <4>0. depth <= 1 /\ handlers' = handlers
        BY <2>1
      <4>1. LeftAlone("Key", FALSE)
        BY <3>2, <4>0 DEF LeftAlone
      <4>2. QED
        BY <1>1, <4>1
    <3>3. QED
      BY <2>1, <3>1, <3>2 DEF UnknownKey
  <2>2. ASSUME NEW m \in Members, KnownKey(m), UNCHANGED handlers
        PROVE  Kind
    <3>1. DuplicateKeys(m) # NoError
      BY DEF DuplicateKeys, NoError
    <3>2. Emit("Key", TRUE) /\ (UNCHANGED the_error \/ the_error' # NoError)
      BY <2>2, <3>1 DEF KnownKey
    <3>3. LeftAlone("Key", TRUE)
      BY <2>2, <3>2 DEF LeftAlone
    <3>4. QED
      BY <1>1, <3>3
  <2>3. QED
    BY <1>1, <1>2, <1>5, <2>1, <2>2 DEF Key
<1>6. CASE StartObject
  <2>1. ASSUME Ignored("StartObject", TRUE)
        PROVE  Kind
    BY <1>1, <2>1 DEF Ignored, LeftAlone
  <2>2. QED
    BY <1>1, <1>2, <1>6, <2>1 DEF StartObject
<1>7. CASE EndObject
  <2>1. CASE depth' > 0 /\ Forwarded("EndObject", the_error = NoError)
    <3>. DEFINE ok == (the_error = NoError)
    <3>1. ok \in BOOLEAN /\ Forwarded("EndObject", ok)
      BY <2>1
    <3>. HIDE DEF ok
    <3>2. QED
      BY <1>1, <1>2, <3>1
  <2>2. CASE depth' <= 0 /\ Validated /\ UNCHANGED <<handlers, fedBy>>
    <3>. DEFINE ok == (the_error' = NoError)
    <3>1. depth <= 1
      BY <1>1, <1>7, <2>2 DEF EndObject
    <3>2. MissingRequired(Missing) # NoError
      BY DEF MissingRequired, NoError
    <3>3. ok \in BOOLEAN /\ Emit("EndObject", ok) /\ (ok => UNCHANGED the_error)
      BY <2>2, <3>2 DEF Validated
    <3>. HIDE DEF ok
    <3>4. LeftAlone("EndObject", ok)
      BY <2>2, <3>1, <3>3 DEF LeftAlone
    <3>5. QED
      BY <1>1, <3>3, <3>4
  <2>3. QED
    BY <1>7, <2>1, <2>2 DEF EndObject
<1>8. QED
  BY <1>4, <1>5, <1>6, <1>7 DEF Event

(* While nothing has gone wrong, the busy member is the one being read.    *)
LEMMA AliveReads == IInv /\ BusyIsOpen /\ Alive => OneReads
<1>0. IInv /\ Alive => \/ the_error = NoError
                      \/ \E m \in Members : the_error = DuplicateKeys(m)
  BY DEF IInv, NotedSoFar
<1>. SUFFICES ASSUME IInv, BusyIsOpen, Alive, NEW m \in Members,
                     handlers[m].status = "busy"
              PROVE  m = state /\ Len(open) > 1 /\ phase = "reading"
  BY <1>0 DEF OneReads
<1>1. handlers[m].fed # <<>>
  BY DEF BusyIsOpen
<1>2. Len(open) > 1 /\ state = m
  BY <1>1 DEF IInv, MemberIsolated
<1>3. open # <<>>
  BY <1>2
<1>4. QED
  BY <1>2, <1>3 DEF IInv, SourceConsistent, Alive

(* ... and so it is in the next state.                                     *)
LEMMA NextAliveReads == IInv' /\ BusyIsOpen' /\ Alive' => OneReads'
  BY AliveReads, PTL

(* An event the class itself refuses finds no member in the middle of a    *)
(* value.                                                                  *)
LEMMA NobodyReads ==
  ASSUME IInv, BusyIsOpen, OneReads, NEW e \in Events, LeftAlone(e, FALSE),
         NEW m \in Members
  PROVE  handlers[m].status # "busy"
<1>. SUFFICES ASSUME handlers[m].status = "busy"
              PROVE  FALSE
  OBVIOUS
<1>1. Emit(e, FALSE)
  BY DEF LeftAlone
<1>2. phase \in {"waiting", "reading"} /\ Alive
  BY <1>1 DEF Emit, MayEmit, ValueMayBegin, Alive, Events, Starts, Ends
<1>3. m = state /\ Len(open) > 1 /\ open # <<>>
  BY DEF OneReads
<1>4. /\ open \in Seq(Kinds) /\ open[1] = "object"
      /\ depth = Cardinality(ObjectsIn(open))
  BY <1>2, <1>3
     DEF IInv, ClassTypeOK, SourceTypeOK, SourceConsistent, DepthMirrorsText,
         ObjectsIn, OpenAs
<1>5. /\ depth \in Nat \ {0}
      /\ Last(open) = "object" /\ depth = 1 => Len(open) = 1
  BY <1>3, <1>4, ObjectsBounds
<1>6. depth <= 1 /\ e \in {"Key", "EndObject"}
  BY <1>3, <1>5 DEF LeftAlone
<1>7. Last(open) = "object"
  BY <1>1, <1>6 DEF Emit, MayEmit, InObject, Starts
<1>8. depth = 1
  BY <1>5, <1>6
<1>9. Len(open) = 1
  BY <1>5, <1>7, <1>8
<1>10. QED
  BY <1>3, <1>9

(* Nothing happens to the class, or the text breaks off.                   *)
LEMMA StillReads ==
  ASSUME BusyIsOpen, OneReads, UNCHANGED <<handlers, state, open, the_error>>,
         phase' = phase \/ (phase # "terminated" /\ phase' = "malformed")
  PROVE  BusyIsOpen' /\ OneReads'
<1>1. NoError' = NoError /\ \A m : DuplicateKeys(m)' = DuplicateKeys(m)
  BY DEF NoError, DuplicateKeys
<1>2. QED
  BY <1>1 DEF BusyIsOpen, OneReads

(* Every event keeps BusyIsOpen and OneReads.                              *)
LEMMA EventReads ==
  ASSUME IInv, IInv', BusyIsOpen, OneReads, Event
  PROVE  BusyIsOpen' /\ OneReads'
<1>0. handlers \in [Members -> Handlers]
  BY DEF IInv, ClassTypeOK
<1>2. ASSUME NEW e \in Events, NEW ok \in BOOLEAN, Fed(e, ok)
      PROVE  BusyIsOpen' /\ OneReads'
  <2>1. Feed(handlers[state], e, ok).status = "busy"
          => Feed(handlers[state], e, ok).fed # <<>>
    BY DEF Feed
  <2>2. BusyIsOpen'
    BY <1>0, <1>2, <2>1 DEF Fed, BusyIsOpen
  <2>3. CASE ok = TRUE
    <3>1. Alive'
      BY <1>2, <2>3 DEF Fed, Emit, Alive
    <3>2. QED
      BY <1>0, <2>2, <3>1, NextAliveReads
  <2>4. CASE ok = FALSE
    <3>1. Feed(handlers[state], e, ok).status = "failed"
      BY <2>4 DEF Feed
    <3>2. ASSUME NEW m \in Members
          PROVE  handlers'[m].status # "busy"
      <4>1. CASE m = state
        BY <1>0, <1>2, <3>1, <4>1 DEF Fed
      <4>2. CASE m # state
        BY <1>0, <1>2, <4>2 DEF Fed, OneReads
      <4>3. QED
        BY <4>1, <4>2
    <3>3. phase' = "terminated"
      BY <1>2, <2>4 DEF Fed, Emit
    <3>4. QED
      BY <2>2, <3>2, <3>3 DEF OneReads
  <2>5. QED
    BY <2>3, <2>4
<1>3. ASSUME NEW e \in Events, NEW ok \in BOOLEAN, LeftAlone(e, ok)
      PROVE  BusyIsOpen' /\ OneReads'
  <2>1. BusyIsOpen' /\ handlers' = handlers
    BY <1>3 DEF LeftAlone, BusyIsOpen
  <2>2. CASE ok = TRUE
    <3>1. Alive'
      BY <1>3, <2>2 DEF LeftAlone, Emit, Alive
    <3>2. QED
      BY <1>0, <2>1, <3>1, NextAliveReads
  <2>3. CASE ok = FALSE
    <3>1. \A m \in Members : handlers[m].status # "busy"
      BY <1>3, <2>3, NobodyReads
    <3>2. phase' = "terminated"
      BY <1>3, <2>3 DEF LeftAlone, Emit
    <3>3. QED
      BY <2>1, <3>1, <3>2 DEF OneReads
  <2>4. QED
    BY <2>2, <2>3
<1>4. CASE SyntaxError
  BY <1>4, StillReads DEF SyntaxError, Malformed, handlerVars
<1>5. QED
  BY <1>2, <1>3, <1>4, EventKinds

(* ... and so does every other step.                                       *)
LEMMA StepReads ==
  IInv /\ BusyIsOpen /\ OneReads /\ [Next]_vars => BusyIsOpen' /\ OneReads'
<1>. SUFFICES ASSUME IInv, BusyIsOpen, OneReads, [Next]_vars
              PROVE  BusyIsOpen' /\ OneReads'
  OBVIOUS
<1>0. IInv'
  BY StepInvariant
<1>1. CASE Event
  BY <1>0, <1>1, EventReads
<1>2. CASE PrepareForReuse
  <2>1. handlers' = AllFresh
    BY <1>2 DEF PrepareForReuse
  <2>2. \A m \in Members : handlers'[m].status # "busy"
    BY <2>1 DEF AllFresh, Fresh
  <2>3. the_error' = NoError
    BY <1>2 DEF PrepareForReuse
  <2>4. QED
    BY <2>2, <2>3 DEF BusyIsOpen, OneReads, NoError
<1>3. CASE RepeatedMember
  <2>1. BusyIsOpen' /\ Alive'
    BY <1>3 DEF RepeatedMember, AnotherValue, Alive, BusyIsOpen
  <2>2. QED
    BY <1>0, <2>1, NextAliveReads
<1>4. CASE UNCHANGED vars
  BY <1>4, StillReads DEF vars, sourceVars, handlerVars
<1>5. QED
  BY <1>1, <1>2, <1>3, <1>4 DEF Next

(* The initial states.                                                     *)
LEMMA InitErrors == Init => IInv /\ ErrorInv
<1>. SUFFICES ASSUME Init
              PROVE  IInv /\ ErrorInv
  OBVIOUS
<1>1. IInv
  BY InitInvariant
<1>2. BusyIsOpen
  BY DEF Init, AllFresh, Fresh, BusyIsOpen
<1>3. Alive /\ noted = FALSE
  BY DEF Init, SourceInit, Alive
<1>4. QED
  BY <1>1, <1>2, <1>3, AliveReads DEF ErrorInv, NotedInside

(* Every step: what the members note, they note in the middle of a value.  *)
LEMMA StepErrors == IInv /\ ErrorInv /\ [Next]_vars => IInv' /\ ErrorInv'
<1>1. ASSUME NotedInside, noted \in BOOLEAN, [Next]_vars
      PROVE  NotedInside' /\ noted' \in BOOLEAN
  <2>1. CASE Next
    BY <2>1 DEF Next, PartNotes, NotedInside
  <2>2. CASE UNCHANGED vars
    BY <1>1, <2>2 DEF vars, handlerVars, NotedInside
  <2>3. QED
    BY <1>1, <2>1, <2>2
<1>2. QED
  BY <1>1, StepInvariant, StepReads DEF ErrorInv

(* Nothing a member holds as an error is left unreported by a refusal.     *)
LEMMA TraceKnown == IInv /\ ErrorInv => TraceContinues
<1>. SUFFICES ASSUME IInv, ErrorInv
              PROVE  TraceContinues
  OBVIOUS
<1>1. \A m \in Members : HasRejected(handlers[m]) <=> the_error = ObjectMember(m)
  BY DEF IInv, RefusalRecorded
<1>2. \A m \in Members :
        HasError(handlers[m]) <=>
          HasRejected(handlers[m]) \/ (handlers[m].status = "busy" /\ noted)
  BY DEF HasError, HasRejected
<1>3. \A m \in Members : ObjectMember(m).type = "OBJECT_MEMBER"
  BY DEF ObjectMember
<1>4. CASE phase = "terminated"
  <2>1. \A m \in Members : handlers[m].status # "busy"
    BY <1>4 DEF ErrorInv, OneReads
  <2>2. the_error # NoError
       /\ (the_error.type = "OBJECT_MEMBER" => the_error = ObjectMember(state))
    BY <1>4 DEF IInv, RefusalRecorded
  <2>3. QED
    BY <1>1, <1>2, <1>4, <2>1, <2>2 DEF TraceContinues
<1>5. CASE phase # "terminated"
  <2>1. the_error.type # "OBJECT_MEMBER"
    BY <1>5 DEF ErrorInv, OneReads, NoError, DuplicateKeys
  <2>2. \A m \in Members : ~HasRejected(handlers[m])
    BY <1>1, <1>3, <2>1
  <2>3. \A m \in Members : HasError(handlers[m]) => m = state /\ Len(open) > 1
    BY <1>2, <2>2 DEF ErrorInv, OneReads
  <2>4. QED
    BY <1>5, <2>1, <2>3 DEF TraceContinues
<1>6. QED
  BY <1>4, <1>5

(* An accepted event keeps the_error or notes one at a key.                *)
LEMMA ErrorKept ==
  ASSUME IInv, Event
  PROVE  /\ phase' \in {"reading", "done", "terminated", "malformed"}
         /\ phase' # "terminated" =>
              UNCHANGED the_error \/ (the_error' # NoError /\ AtKey)
<1>1. CASE SyntaxError
  BY <1>1 DEF SyntaxError, Malformed, handlerVars
<1>2. ASSUME NEW e \in Events, NEW ok \in BOOLEAN, Emit(e, ok),
             ok => UNCHANGED the_error \/ (e = "Key" /\ the_error' # NoError)
      PROVE  /\ phase' \in {"reading", "done", "terminated"}
             /\ phase' # "terminated" =>
                  UNCHANGED the_error \/ (the_error' # NoError /\ AtKey)
  <2>1. /\ phase' \in {"reading", "done", "terminated"}
        /\ phase' # "terminated" => ok
    BY <1>2 DEF Emit
  <2>2. ASSUME e = "Key", ok
        PROVE  AtKey
    <3>1. open # <<>> /\ After(open, e) = open
      BY <1>2, <2>2 DEF Emit, MayEmit, InObject, Starts, Ends, After
    <3>2. QED
      BY <1>2, <2>2, <3>1 DEF Emit, AtKey
  <2>3. QED
    BY <1>2, <2>1, <2>2
<1>3. QED
  BY <1>1, <1>2, EventKinds DEF Fed, LeftAlone

(* The class keeps the protocol, whatever its members note.                *)
LEMMA StepProtocol ==
  ASSUME IInv, IInv', Next
  PROVE  ErrorProtocol(the_error # NoError, the_error' # NoError, AsPart')
<1>1. /\ phase' = "terminated" => the_error' # NoError
      /\ phase' = "done" => the_error' = NoError
      /\ phase = "done" => the_error = NoError
  <2>1. NoError' = NoError
    BY DEF NoError
  <2>2. QED
    BY <2>1 DEF IInv, RefusalRecorded, NotedSoFar
<1>2. CASE Event
  <2>1. CASE phase' = "terminated"
    BY <1>1, <2>1 DEF ErrorProtocol, AsPart
  <2>2. CASE phase' = "done"
    <3>1. the_error = NoError /\ the_error' = NoError
      BY <1>1, <1>2, <2>2, ErrorKept
    <3>2. QED
      BY <2>2, <3>1 DEF ErrorProtocol, AsPart
  <2>3. CASE phase' \in {"reading", "malformed"}
    <3>1. UNCHANGED the_error \/ (the_error' # NoError /\ AtKey)
      BY <1>2, <2>3, ErrorKept
    <3>2. QED
      BY <2>3, <3>1 DEF ErrorProtocol, AsPart
  <2>4. QED
    BY <1>2, <2>1, <2>2, <2>3, ErrorKept
<1>3. CASE PrepareForReuse \/ RepeatedMember
  <2>1. phase = "done" /\ phase' = "waiting" /\ (the_error' = NoError \/ UNCHANGED the_error)
    BY <1>3 DEF PrepareForReuse, RepeatedMember, AnotherValue
  <2>2. the_error = NoError /\ the_error' = NoError
    BY <1>1, <2>1
  <2>3. QED
    BY <2>1, <2>2 DEF ErrorProtocol, AsPart
<1>4. QED
  BY <1>2, <1>3 DEF Next

(* Every variable keeps its type.                                          *)
THEOREM TypeCorrect == Spec => []TypeOK
<1>1. IInv /\ ErrorInv => TypeOK
  BY DEF IInv, ErrorInv, ClassTypeOK, TypeOK
<1>2. QED
  BY InitErrors, StepErrors, <1>1, PTL DEF Spec

(* depth counts the objects the text has open, so that the generated       *)
(* handler takes no key of a nested object for its own and validates at    *)
(* the end of the outermost object and nowhere else.                       *)
THEOREM DepthIsExact == Spec => []DepthMirrorsText
<1>1. IInv => DepthMirrorsText
  BY DEF IInv
<1>2. QED
  BY InitInvariant, StepInvariant, <1>1, PTL DEF Spec

(* A member's handler gets the events of the values its key introduced,    *)
(* whatever is nested in them, and none of another member's.               *)
THEOREM Isolation == Spec => []MemberIsolated
<1>1. IInv => MemberIsolated
  BY DEF IInv
<1>2. QED
  BY InitInvariant, StepInvariant, <1>1, PTL DEF Spec

(* A refusal is recorded where ReapError looks for it, and whatever error  *)
(* a member holds then, rejected or only noted, is linked to; before, it   *)
(* can only be the member being read that holds one.                       *)
THEOREM TraceComplete == Spec => []TraceContinues
  BY InitErrors, StepErrors, TraceKnown, PTL DEF Spec

(* The class handler keeps the error protocol it relies on: what it notes  *)
(* at a key stays until the object is refused for it.                      *)
THEOREM ProtocolKept == Spec => KeepsErrorProtocol
<1>1. IInv /\ IInv' /\ [Next]_vars
        => [ErrorProtocol(the_error # NoError, the_error' # NoError, AsPart')]_vars
  BY StepProtocol
<1>2. QED
  BY InitInvariant, StepInvariant, <1>1, PTL DEF Spec, KeepsErrorProtocol

(* An accepted object has its required members, and what its options       *)
(* forbid is not in it.                                                    *)
THEOREM Acceptance == Spec => []AcceptanceIsEarned
<1>1. QED
  BY InitInvariant, StepInvariant, InvariantMeansEarned, PTL DEF Spec

(* A noted error is about keys that were read, or were not.                *)
THEOREM ErrorsAreReal == Spec => []ErrorIsReal
<1>1. QED
  BY InitInvariant, StepInvariant, InvariantMeansReal, PTL DEF Spec
=============================================================================
