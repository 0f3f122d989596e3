--------------------------- MODULE TupleHandlerProofs ---------------------------
(***************************************************************************)
(* The chain of a tuple's handlers matches the prefix of the JSON array,   *)
(* keeps its elements apart and reports a rejection, for every tuple size. *)
(* The argument is about the one element the events are for: it is the     *)
(* first that is not finished, and its total_depth is the number of open   *)
(* containers less the one bracket that the most derived class has taken,  *)
(* so that it reaches 0 when the JSON element ends and not before.         *)
(***************************************************************************)
EXTENDS TupleHandler, SourceLemmas

(* The tuple's element that the events of the value now go to.             *)
Current == IF FromArray THEN first + count ELSE first

(* How many elements are finished.                                         *)
Finished == IF ~FromArray /\ phase = "done" THEN first + 1 ELSE Current

(* Where a value stands is where its containers stand, and root says how   *)
(* it began.                                                               *)
SourceConsistent ==
  /\ phase \in {"waiting", "done"} => open = <<>>
  /\ phase = "reading" => open # <<>> /\ (root = "StartArray" <=> open[1] = "array")
  /\ phase = "waiting" => count = 0
  /\ Alive => (root = "none" <=> phase = "waiting")

(* array_depth counts the arrays the text has open.                        *)
ArraysCounted == Alive => array_depth = Cardinality(OpenAs("array", open))

(* The containers open in the value of the current element: one array may  *)
(* be the most derived class's.                                            *)
OpenInElement == Len(open) - (IF array_depth > 0 THEN 1 ELSE 0)

DepthsMatch ==
  Alive => \A i \in Elements :
    /\ total_depth[i] = Len(internal[i].fed)
    /\ total_depth[i] = IF i = Current THEN OpenInElement ELSE 0

FinishedIsPrefix == Alive => \A i \in Elements : finished[i] <=> i < Finished

(* What was written so far.                                                *)
WrittenSoFar ==
  /\ Alive /\ FromArray => \A i \in Elements :
       written[i] = IF i < first THEN Untouched
                    ELSE IF i < Current THEN {i - first}
                    ELSE IF i = Current /\ Len(open) > 1 THEN {count}
                    ELSE Untouched
  /\ Alive => \A i \in Elements : ~FromArray /\ i # first => written[i] = Untouched

(* A handler that has rejected an event, and whether an event would reach  *)
(* one.                                                                    *)
HasRejected(h) == h.status = "failed"
Refused == reached < TupleSize /\ HasRejected(internal[reached])

NothingRejected == phase # "terminated" => \A i \in Elements : ~HasRejected(internal[i])

RejectionFound ==
  /\ Refused = (phase = "terminated")
  /\ Refused /\ FromArray => reached = first + count

(* The types of everything but what the elements note.                     *)
ChainTypeOK ==
  /\ SourceTypeOK
  /\ array_depth \in Nat
  /\ internal \in [Elements -> Handlers]
  /\ total_depth \in [Elements -> Nat]
  /\ finished \in [Elements -> BOOLEAN]
  /\ written \in [Elements -> SUBSET Nat]
  /\ root \in Events \cup {"none"}
  /\ first \in 0..TupleSize

IInv ==
  /\ ChainTypeOK
  /\ SourceConsistent
  /\ ArraysCounted
  /\ DepthsMatch
  /\ FinishedIsPrefix
  /\ WrittenSoFar
  /\ ElementIsolated
  /\ NothingRejected
  /\ RejectionFound
-----------------------------------------------------------------------------
(* Which handler an event reaches.                                         *)

(* Finished elements that make a prefix of the tuple are skipped.          *)
SkipsPrefix ==
  \A k \in Nat : (\A i \in Elements : finished[i] <=> i < k)
                   => reached = IF k < TupleSize THEN k ELSE TupleSize

(* The event reaches the first element after the finished ones.            *)
LEMMA Reach == SkipsPrefix
<1>. SUFFICES ASSUME NEW k \in Nat, \A i \in Elements : finished[i] <=> i < k
              PROVE  reached = IF k < TupleSize THEN k ELSE TupleSize
  BY DEF SkipsPrefix
<1>. DEFINE r == IF k < TupleSize THEN k ELSE TupleSize
            P(i) == /\ i < TupleSize => ~finished[i]
                    /\ \A j \in Elements : j < i => finished[j]
<1>1. TupleSize \in Nat \ {0}
  BY TupleAssumption
<1>2. r \in 0..TupleSize /\ P(r)
  BY <1>1 DEF Elements
<1>3. ASSUME NEW x \in 0..TupleSize, P(x)
      PROVE  x = r
  <2>1. x < TupleSize => ~(x < k)
    BY <1>1, <1>3 DEF Elements
  <2>2. k < TupleSize => ~(k < x)
    BY <1>1, <1>3 DEF Elements
  <2>3. QED
    BY <1>1, <2>1, <2>2
<1>4. reached \in 0..TupleSize /\ P(reached)
  <2>1. reached = CHOOSE i \in 0..TupleSize : P(i)
    BY DEF reached
  <2>. HIDE DEF P, r
  <2>2. QED
    BY <1>2, <2>1
<1>5. QED
  BY <1>3, <1>4

(* ... and so it does in the next state.                                  *)
LEMMA NextReach == SkipsPrefix'
  BY Reach, PTL

(* An error is held by an element that an event can reach.                 *)
LEMMA NoRejection ==
  ASSUME ChainTypeOK, NEW k \in Nat, \A i \in Elements : finished[i] <=> i < k,
         \A i \in Elements : ~HasRejected(internal[i])
  PROVE  Refused = FALSE
<1>1. reached = IF k < TupleSize THEN k ELSE TupleSize
  BY Reach DEF SkipsPrefix
<1>2. reached < TupleSize => reached \in Elements
  BY <1>1, TupleAssumption DEF Elements
<1>3. QED
  BY <1>2 DEF Refused
-----------------------------------------------------------------------------
(* One event.                                                              *)

(* What e does to the number of open containers.                           *)
Delta(e) == IF e \in Starts THEN 1 ELSE IF e \in Ends THEN -1 ELSE 0

(* How many of the open containers the most derived class has taken.       *)
Taken(depth) == IF depth > 0 THEN 1 ELSE 0

(* What the invariant says when an event arrives.                          *)
LEMMA AtEvent ==
  ASSUME IInv, NEW e \in Events, NEW ok \in BOOLEAN, Emit(e, ok)
  PROVE  /\ phase \in {"waiting", "reading"} /\ Alive /\ Finished = Current
         /\ Current \in Nat /\ count \in Nat /\ first \in Nat
         /\ reached = IF Current < TupleSize THEN Current ELSE TupleSize
         /\ open \in Seq(Kinds) /\ Len(open) \in Nat /\ (open = <<>> <=> Len(open) = 0)
         /\ e \in Ends => open # <<>> /\ Last(open) = KindOf(e)
         /\ e \in Ends \cup {"Key"} => phase = "reading"
         /\ e = "Key" => Last(open) = "object"
         /\ phase = "reading" => open # <<>>
         /\ phase = "waiting" => open = <<>> /\ count = 0 /\ FromArray
<1>1. /\ phase \in {"waiting", "reading"} /\ Alive
      /\ e \in Ends => open # <<>> /\ Last(open) = KindOf(e)
      /\ e \in Ends \cup {"Key"} => phase = "reading"
      /\ e = "Key" => Last(open) = "object"
  BY DEF Emit, MayEmit, ValueMayBegin, InArray, InObject, Alive, Events, Ends,
         Starts, KindOf
<1>2. /\ open \in Seq(Kinds) /\ Len(open) \in Nat /\ count \in Nat
      /\ first \in 0..TupleSize
  BY LenProperties DEF IInv, ChainTypeOK, SourceTypeOK
<1>3. first \in Nat /\ TupleSize \in Nat
  BY <1>2, TupleAssumption
<1>4. Current \in Nat /\ Finished = Current
  BY <1>1, <1>2, <1>3 DEF Current, Finished
<1>5. reached = IF Current < TupleSize THEN Current ELSE TupleSize
  <2>1. \A i \in Elements : finished[i] <=> i < Current
    BY <1>1, <1>4 DEF IInv, FinishedIsPrefix
  <2>2. QED
    BY <1>4, <2>1, Reach DEF SkipsPrefix
<1>6. open = <<>> <=> Len(open) = 0
  BY <1>2, EmptySeq
<1>7. /\ phase = "reading" => open # <<>>
      /\ phase = "waiting" => open = <<>> /\ count = 0 /\ FromArray
  BY <1>1 DEF IInv, SourceConsistent, FromArray
<1>8. QED
  BY <1>1, <1>2, <1>3, <1>4, <1>5, <1>6, <1>7

(* The arrays among the open containers, and what else must be open.       *)
LEMMA ArraysOpen ==
  ASSUME IInv, Alive
  PROVE  /\ array_depth = Cardinality(OpenAs("array", open)) /\ array_depth \in Nat
         /\ open = <<>> => array_depth = 0
         /\ open # <<>> /\ open[1] = "array" => array_depth > 0
         /\ open # <<>> /\ Last(open) = "array" => array_depth > 0
         /\ open # <<>> /\ open[1] = "array" /\ Last(open) = "array"
              /\ array_depth = 1 => Len(open) = 1
         /\ Len(open) = 1 /\ array_depth > 0 =>
              array_depth = 1 /\ open[1] = "array" /\ Last(open) = "array"
<1>1. open \in Seq(Kinds) /\ "array" \in Kinds /\ Len(open) \in Nat
  BY LenProperties DEF IInv, ChainTypeOK, SourceTypeOK, Kinds
<1>2. array_depth = Cardinality(OpenAs("array", open)) /\ array_depth \in Nat
  BY DEF IInv, ArraysCounted, ChainTypeOK
<1>3. /\ open = <<>> => array_depth = 0
      /\ open # <<>> /\ open[1] = "array" =>
           /\ array_depth \in Nat \ {0}
           /\ Len(open) = 1 => array_depth = 1
           /\ Last(open) = "array" /\ array_depth = 1 => Len(open) = 1
  BY <1>1, <1>2, OpenBounds
<1>4. ASSUME open # <<>>, Last(open) = "array"
      PROVE  array_depth # 0
  <2>1. Len(open) # 0
    BY <1>1, <1>4, EmptySeq
  <2>2. Len(open) \in OpenAs("array", open)
    BY <1>1, <1>4, <2>1 DEF OpenAs, Last
  <2>3. QED
    BY <1>1, <1>2, <2>2, OpenFinite, FS_EmptySet
<1>5. ASSUME Len(open) = 1, array_depth # 0
      PROVE  array_depth = 1 /\ open[1] = "array" /\ Last(open) = "array"
  <2>1. open # <<>>
    BY <1>5
  <2>2. open[1] = "array" /\ Last(open) = "array"
    BY <1>1, <1>2, <1>5, <2>1, OpenWithOthers
  <2>3. QED
    BY <1>3, <1>5, <2>1, <2>2
<1>6. array_depth > 0 <=> array_depth # 0
  BY <1>2
<1>7. QED
  BY <1>2, <1>3, <1>4, <1>5, <1>6

(* The stack after an event, and the arrays in it.                         *)
LEMMA StackAfter ==
  ASSUME IInv, NEW e \in Events, NEW ok \in BOOLEAN, Emit(e, ok)
  PROVE  LET st == After(open, e)
         IN  /\ st \in Seq(Kinds) /\ Len(st) \in Nat /\ (st = <<>> <=> Len(st) = 0)
             /\ Len(st) = Len(open) + Delta(e)
             /\ open # <<>> /\ st # <<>> => st[1] = open[1]
             /\ open = <<>> /\ st # <<>> => e \in Starts /\ st[1] = KindOf(e)
             /\ Cardinality(OpenAs("array", st)) \in Nat
             /\ Cardinality(OpenAs("array", st)) =
                  IF e = "StartArray" THEN array_depth + 1
                  ELSE IF e = "EndArray" THEN array_depth - 1 ELSE array_depth
<1>. DEFINE st == After(open, e)
<1>1. /\ open \in Seq(Kinds) /\ Len(open) \in Nat /\ (open = <<>> <=> Len(open) = 0)
      /\ e \in Ends => open # <<>> /\ Last(open) = KindOf(e)
      /\ Alive
  BY AtEvent
<1>2. /\ st \in Seq(Kinds)
      /\ e \in Starts => Len(st) = Len(open) + 1
      /\ e \in Ends => Len(st) = Len(open) - 1
      /\ e \notin Starts \cup Ends => st = open
      /\ open # <<>> /\ Len(st) # 0 => st[1] = open[1]
  BY <1>1, AfterFacts
<1>3. Len(st) \in Nat /\ (st = <<>> <=> Len(st) = 0)
  BY <1>2, LenProperties, EmptySeq
<1>4. Len(st) = Len(open) + Delta(e)
  BY <1>1, <1>2 DEF Delta, Starts, Ends
<1>5. ASSUME open = <<>>, st # <<>>
      PROVE  e \in Starts /\ st[1] = KindOf(e)
  <2>1. e \in Starts
    BY <1>1, <1>2, <1>5
  <2>2. KindOf(e) \in Kinds
    BY DEF KindOf, Kinds
  <2>3. st = Append(open, KindOf(e))
    BY <2>1 DEF After
  <2>4. QED
    BY <1>1, <1>5, <2>1, <2>2, <2>3, PushFacts
<1>6. /\ Cardinality(OpenAs("array", st)) \in Nat
      /\ Cardinality(OpenAs("array", st)) =
           IF e = "StartArray" THEN array_depth + 1
           ELSE IF e = "EndArray" THEN array_depth - 1 ELSE array_depth
  <2>1. array_depth = Cardinality(OpenAs("array", open))
    BY <1>1, ArraysOpen
  <2>2. "array" \in Kinds
    BY DEF Kinds
  <2>3. Cardinality(OpenAs("array", st)) \in Nat
    BY <1>2, <2>2, OpenFinite
  <2>4. Cardinality(OpenAs("array", st)) =
           IF e \in Starts /\ KindOf(e) = "array" THEN array_depth + 1
           ELSE IF e \in Ends /\ KindOf(e) = "array" THEN array_depth - 1
           ELSE array_depth
    BY <1>1, <2>1, <2>2, OpenAfter
  <2>5. QED
    BY <2>3, <2>4 DEF KindOf, Starts, Ends
<1>7. QED
  BY <1>2, <1>3, <1>4, <1>5, <1>6

(* Events that the most derived class passes to the chain.                 *)
Passed(e) ==
  /\ e = "StartArray" => array_depth > 0
  /\ e = "EndArray" => array_depth > 1

(* A passed event changes the depth of the current element and leaves the  *)
(* bracket that the most derived class has taken.  The depth is 0 when the *)
(* element's JSON value ends, and not before: in an array when the event   *)
(* closes an element of it, elsewhere when the whole value ends.           *)
LEMMA DepthOfElement ==
  ASSUME IInv, NEW e \in Events, NEW ok \in BOOLEAN, Emit(e, ok), Passed(e)
  PROVE  LET st == After(open, e)
             d  == OpenInElement + Delta(e)
             n  == Cardinality(OpenAs("array", st))
         IN  /\ OpenInElement \in Nat /\ d \in Nat
             /\ d = Len(st) - Taken(n)
             /\ e \in Ends => OpenInElement > 0
             /\ open # <<>> /\ open[1] = "array" =>
                  /\ array_depth > 0
                  /\ e \in Ends \cup {"Key"} => Len(open) > 1
                  /\ st # <<>> /\ st[1] = "array"
                  /\ ClosesElement(e) <=> d = 0
                  /\ d = 0 <=> ~(Len(st) > 1)
             /\ open = <<>> \/ open[1] # "array" => (d = 0 <=> st = <<>>)
<1>. DEFINE st == After(open, e)
            d  == OpenInElement + Delta(e)
            n  == Cardinality(OpenAs("array", st))
<1>1. /\ Alive /\ Len(open) \in Nat /\ (open = <<>> <=> Len(open) = 0)
      /\ e \in Ends => open # <<>> /\ Last(open) = KindOf(e)
      /\ e = "Key" => open # <<>> /\ Last(open) = "object"
      /\ open \in Seq(Kinds)
  <2>1. e = "Key" => phase = "reading" /\ (phase = "reading" => open # <<>>)
    BY AtEvent
  <2>2. QED
    BY <2>1, AtEvent
<1>2. /\ array_depth \in Nat
      /\ open = <<>> => array_depth = 0
      /\ open # <<>> /\ open[1] = "array" => array_depth > 0
      /\ Len(open) = 1 /\ array_depth > 0 =>
           array_depth = 1 /\ open[1] = "array" /\ Last(open) = "array"
  BY <1>1, ArraysOpen
<1>3. /\ st \in Seq(Kinds) /\ Len(st) \in Nat /\ (st = <<>> <=> Len(st) = 0)
      /\ Len(st) = Len(open) + Delta(e)
      /\ open # <<>> /\ st # <<>> => st[1] = open[1]
      /\ open = <<>> /\ st # <<>> => e \in Starts /\ st[1] = KindOf(e)
      /\ n \in Nat
      /\ n = IF e = "StartArray" THEN array_depth + 1
             ELSE IF e = "EndArray" THEN array_depth - 1 ELSE array_depth
  BY StackAfter
<1>4. /\ e \in Starts => Delta(e) = 1 /\ e \notin Ends /\ e # "Key"
      /\ e \in Ends => Delta(e) = -1 /\ e # "Key" /\ e # "StartArray"
      /\ e \notin Starts \cup Ends => Delta(e) = 0 /\ e # "StartArray" /\ e # "EndArray"
      /\ e = "EndArray" => KindOf(e) = "array"
      /\ e \in Ends /\ e # "EndArray" => KindOf(e) = "object"
  BY DEF Delta, Starts, Ends, KindOf
<1>5. /\ e = "StartArray" => array_depth > 0
      /\ e = "EndArray" => array_depth > 1
  BY DEF Passed
<1>6. OpenInElement = Len(open) - Taken(array_depth)
  BY DEF OpenInElement, Taken
<1>. HIDE DEF st, d, n
<1>7. Taken(n) = Taken(array_depth) /\ Taken(n) \in {0, 1}
      /\ (Taken(n) = 1 <=> array_depth > 0)
  BY <1>2, <1>3, <1>4, <1>5 DEF Taken
<1>8. d = Len(st) - Taken(n)
  BY <1>1, <1>3, <1>4, <1>6, <1>7 DEF d, Events
<1>9. e \in Ends => OpenInElement > 0 /\ (array_depth > 0 => Len(open) > 1)
  <2>1. ASSUME e \in Ends, array_depth > 0
        PROVE  Len(open) # 1
    BY <1>1, <1>2, <1>4, <1>5, <2>1
  <2>2. ASSUME e \in Ends
        PROVE  Len(open) # 0
    BY <1>1, <2>2
  <2>3. ASSUME e \in Ends, array_depth > 0
        PROVE  OpenInElement > 0 /\ Len(open) > 1
    <3>1. Len(open) # 0 /\ Len(open) # 1 /\ OpenInElement = Len(open) - 1
      BY <1>6, <1>7, <2>1, <2>2, <2>3
    <3>2. QED
      BY <1>1, <3>1
  <2>4. ASSUME e \in Ends, ~(array_depth > 0)
        PROVE  OpenInElement > 0
    <3>1. Len(open) # 0 /\ OpenInElement = Len(open) - 0
      BY <1>6, <1>7, <2>2, <2>4
    <3>2. QED
      BY <1>1, <3>1
  <2>5. QED
    BY <2>3, <2>4
<1>10. OpenInElement \in Nat
  <2>1. CASE array_depth > 0
    <3>1. Len(open) # 0 /\ OpenInElement = Len(open) - 1
      BY <1>1, <1>2, <1>6, <1>7, <2>1
    <3>2. QED
      BY <1>1, <3>1
  <2>2. CASE ~(array_depth > 0)
    <3>1. OpenInElement = Len(open) - 0
      BY <1>6, <1>7, <2>2
    <3>2. QED
      BY <1>1, <3>1
  <2>3. QED
    BY <2>1, <2>2
<1>11. d \in Nat
  BY <1>4, <1>9, <1>10 DEF d, Events
<1>12. ASSUME open # <<>>, open[1] = "array"
       PROVE  /\ array_depth > 0
              /\ e \in Ends \cup {"Key"} => Len(open) > 1
              /\ st # <<>> /\ st[1] = "array"
              /\ ClosesElement(e) <=> d = 0
              /\ d = 0 <=> ~(Len(st) > 1)
  <2>1. array_depth > 0 /\ Taken(n) = 1
    BY <1>2, <1>7, <1>12
  <2>2. Len(open) # 1 => Len(open) > 1
    BY <1>1, <1>12
  <2>3. e \in Ends \cup {"Key"} => Len(open) > 1
    BY <1>1, <1>2, <1>9, <2>1, <2>2
  <2>4. d = Len(st) - 1
    BY <1>8, <2>1
  <2>5. Len(st) > 0 /\ st # <<>> /\ st[1] = "array"
    <3>1. Len(st) # 0
      BY <1>3, <1>11, <2>4
    <3>2. QED
      BY <1>3, <1>12, <3>1
  <2>6. d = 0 => e \notin Starts /\ e # "Key"
    <3>1. e \in Starts => Len(st) = Len(open) + 1 /\ Len(open) # 0
      BY <1>1, <1>3, <1>4, <1>12
    <3>2. e = "Key" => Len(st) = Len(open) + 0
      BY <1>3, <1>4
    <3>3. QED
      BY <1>1, <1>3, <2>3, <2>4, <3>1, <3>2
  <2>7. ClosesElement(e) <=> e \in {"Scalar"} \cup Ends /\ Len(st) = 1
    BY DEF ClosesElement, st
  <2>8. Len(st) = 1 <=> d = 0
    BY <1>3, <2>4
  <2>9. d = 0 => e \in {"Scalar"} \cup Ends
    BY <2>6 DEF Events
  <2>10. d = 0 <=> ~(Len(st) > 1)
    BY <1>3, <2>4, <2>5
  <2>11. QED
    BY <2>1, <2>3, <2>5, <2>7, <2>8, <2>9, <2>10
<1>13. ASSUME open = <<>> \/ open[1] # "array"
       PROVE  d = 0 <=> st = <<>>
  <2>1. CASE array_depth > 0
    <3>1. open # <<>> /\ n \in Nat \ {0} /\ Taken(n) = 1
      BY <1>2, <1>3, <1>4, <1>5, <1>7, <2>1
    <3>2. "array" \in Kinds /\ n = Cardinality(OpenAs("array", st))
      BY DEF Kinds, n
    <3>3. st # <<>>
      <4>1. st = <<>> => n = 0
        BY <1>3, <3>2, OpenBounds
      <4>2. QED
        BY <3>1, <4>1
    <3>4. st[1] # "array"
      BY <1>3, <1>13, <3>1, <3>3
    <3>5. Len(st) # 1
      BY <1>3, <3>1, <3>2, <3>3, <3>4, OpenWithOthers
    <3>6. QED
      BY <1>3, <1>8, <3>1, <3>3, <3>5
  <2>2. CASE ~(array_depth > 0)
    BY <1>3, <1>7, <1>8, <2>2
  <2>3. QED
    BY <2>1, <2>2
<1>14. QED
  BY <1>8, <1>9, <1>10, <1>11, <1>12, <1>13 DEF st, d, n

(* What an event leaves in the handler it is given to.                     *)
LEMMA FeedFacts ==
  ASSUME NEW h, NEW e, After(h.fed, e) \in Seq(Kinds), NEW ok \in BOOLEAN
  PROVE  /\ Feed(h, e, ok) \in Handlers
         /\ Feed(h, e, ok).fed = After(h.fed, e)
         /\ HasRejected(Feed(h, e, ok)) <=> ~ok
<1>. DEFINE st == After(h.fed, e)
<1>1. Feed(h, e, ok) =
        [fed |-> st, status |-> IF ~ok THEN "failed"
                                ELSE IF st = <<>> THEN "complete" ELSE "busy"]
  BY DEF Feed
<1>. HIDE DEF st
<1>2. st \in Seq(Kinds)
  BY DEF st
<1>3. QED
  BY <1>1, <1>2 DEF st, HasRejected, Handlers, Statuses

(* What a passed event leaves in the current element.                      *)
LEMMA ElementFed ==
  ASSUME IInv, NEW e \in Events, NEW ok \in BOOLEAN, Emit(e, ok), Passed(e),
         Current \in Elements
  PROVE  LET h == Feed(internal[Current], e, ok)
         IN  /\ h \in Handlers /\ (HasRejected(h) <=> ~ok)
             /\ Len(h.fed) = DepthAfter(Current, e)
             /\ DepthAfter(Current, e) = OpenInElement + Delta(e)
             /\ DepthAfter(Current, e) \in Nat
             /\ FromArray /\ open # <<>> /\ open[1] = "array" =>
                  h.fed = Tail(After(open, e))
<1>. DEFINE i == Current
            f == internal[i].fed
            h == Feed(internal[i], e, ok)
<1>1. /\ Alive /\ open \in Seq(Kinds) /\ Len(open) \in Nat
      /\ i \in Elements
  BY AtEvent
<1>2. /\ OpenInElement \in Nat /\ OpenInElement + Delta(e) \in Nat
      /\ e \in Ends => OpenInElement > 0
      /\ open # <<>> /\ open[1] = "array" /\ e \in Ends => Len(open) > 1
  BY DepthOfElement
<1>3. f \in Seq(Kinds) /\ Len(f) = OpenInElement /\ total_depth[i] = OpenInElement
  BY <1>1 DEF IInv, ChainTypeOK, Handlers, DepthsMatch
<1>4. e \in Ends => f # <<>>
  <2>1. f = <<>> => Len(f) = 0
    BY <1>3
  <2>2. QED
    BY <1>2, <1>3, <2>1
<1>5. /\ After(f, e) \in Seq(Kinds)
      /\ e \in Starts => Len(After(f, e)) = Len(f) + 1
      /\ e \in Ends => Len(After(f, e)) = Len(f) - 1
      /\ e \notin Starts \cup Ends => After(f, e) = f
  BY <1>3, <1>4, AfterFacts
<1>6. Len(After(f, e)) = OpenInElement + Delta(e)
  BY <1>2, <1>3, <1>5 DEF Delta, Starts, Ends
<1>7. h \in Handlers /\ h.fed = After(f, e) /\ (HasRejected(h) <=> ~ok)
  BY <1>5, FeedFacts
<1>8. DepthAfter(i, e) = OpenInElement + Delta(e)
  BY <1>3 DEF DepthAfter, Delta
<1>9. ASSUME FromArray, open # <<>>, open[1] = "array"
      PROVE  h.fed = Tail(After(open, e))
  <2>1. f = IF Len(open) > 1 THEN Tail(open) ELSE <<>>
    BY <1>1, <1>9 DEF IInv, ElementIsolated, Current
  <2>2. Len(open) > 1 \/ Len(open) = 1
    <3>1. Len(open) # 0
      BY <1>1, <1>9, EmptySeq
    <3>2. \A n \in Nat : n # 0 => n > 1 \/ n = 1
      OBVIOUS
    <3>3. QED
      BY <1>1, <3>1, <3>2
  <2>3. Len(open) = 1 => Tail(open) = <<>>
    BY <1>1, <1>9, AboveBottom
  <2>4. f = Tail(open)
    BY <2>1, <2>2, <2>3
  <2>5. Tail(After(open, e)) = After(Tail(open), e)
    BY <1>1, <1>2, <1>9, AfterAboveBottom
  <2>6. QED
    BY <1>7, <2>4, <2>5
<1>10. QED
  BY <1>2, <1>6, <1>7, <1>8, <1>9

(* A passed event does not begin an array that is the whole value.         *)
LEMMA RootAfter ==
  ASSUME IInv, NEW e \in Events, NEW ok \in BOOLEAN, Emit(e, ok), Passed(e),
         root' = (IF phase = "waiting" THEN e ELSE root), first' = first
  PROVE  /\ root' \in Events /\ root' # "none"
         /\ FromArray' <=> open # <<>> /\ open[1] = "array"
         /\ FromArray' => FromArray /\ phase = "reading"
         /\ root' = "StartArray" <=> FromArray'
         /\ ~FromArray' => Current = first
         /\ ~FromArray' => ~(FromArray /\ phase = "reading")
<1>1. /\ phase \in {"waiting", "reading"} /\ Alive /\ first \in Nat
      /\ phase = "reading" => open # <<>>
      /\ phase = "waiting" => open = <<>> /\ count = 0 /\ FromArray
  BY AtEvent
<1>2. CASE phase = "waiting"
  <2>1. array_depth = 0 /\ open = <<>> /\ Current = first
    BY <1>1, <1>2, ArraysOpen DEF Current
  <2>2. e # "StartArray" /\ root' = e
    BY <1>2, <2>1 DEF Passed
  <2>3. QED
    BY <1>2, <2>1, <2>2 DEF FromArray, Events, Starts, Ends
<1>3. CASE phase = "reading"
  <2>1. root' = root /\ root # "none" /\ (root = "StartArray" <=> open[1] = "array")
    BY <1>1, <1>3 DEF IInv, SourceConsistent
  <2>2. root \in Events
    BY <2>1 DEF IInv, ChainTypeOK
  <2>3. QED
    BY <1>1, <1>3, <2>1, <2>2 DEF FromArray, Current
<1>4. QED
  BY <1>1, <1>2, <1>3

(* An event the current element accepts, or that nobody is given because   *)
(* every element is finished.                                              *)
LEMMA Accepted ==
  ASSUME IInv, NEW e \in Events, Emit(e, TRUE), Passed(e),
         root' = (IF phase = "waiting" THEN e ELSE root), first' = first,
         array_depth' = Cardinality(OpenAs("array", After(open, e))),
         internal' = [i \in Elements |-> IF i = Current THEN Feed(internal[i], e, TRUE)
                                         ELSE internal[i]],
         total_depth' = [i \in Elements |-> IF i = Current THEN DepthAfter(i, e)
                                            ELSE total_depth[i]],
         written' = [i \in Elements |-> IF i = Current THEN written[i] \cup {count}
                                        ELSE written[i]],
         finished' = [i \in Elements |-> IF i = Current
                                         THEN finished[i] \/ DepthAfter(i, e) = 0
                                         ELSE finished[i]]
  PROVE  IInv'
<1>. DEFINE st == After(open, e)
            d  == OpenInElement + Delta(e)
<1>1. /\ phase \in {"waiting", "reading"} /\ Alive /\ Finished = Current
      /\ Current \in Nat /\ count \in Nat /\ first \in Nat
      /\ phase = "waiting" => open = <<>> /\ count = 0 /\ FromArray
      /\ phase = "reading" => open # <<>>
  BY AtEvent
<1>2. /\ st \in Seq(Kinds) /\ Len(st) \in Nat /\ (st = <<>> <=> Len(st) = 0)
      /\ open # <<>> /\ st # <<>> => st[1] = open[1]
      /\ open = <<>> /\ st # <<>> => e \in Starts /\ st[1] = KindOf(e)
      /\ array_depth' \in Nat
  BY StackAfter
<1>3. /\ d \in Nat /\ d = Len(st) - Taken(array_depth')
      /\ open # <<>> /\ open[1] = "array" =>
           /\ st # <<>> /\ st[1] = "array"
           /\ ClosesElement(e) <=> d = 0
           /\ d = 0 <=> ~(Len(st) > 1)
      /\ open = <<>> \/ open[1] # "array" => (d = 0 <=> st = <<>>)
  BY DepthOfElement
<1>4. /\ root' \in Events /\ root' # "none"
      /\ FromArray' <=> open # <<>> /\ open[1] = "array"
      /\ FromArray' => FromArray /\ phase = "reading"
      /\ root' = "StartArray" <=> FromArray'
      /\ ~FromArray' => Current = first
      /\ ~FromArray' => ~(FromArray /\ phase = "reading")
  BY RootAfter
<1>5. ASSUME Current \in Elements
      PROVE  /\ internal'[Current] \in Handlers /\ ~HasRejected(internal'[Current])
             /\ Len(internal'[Current].fed) = d /\ total_depth'[Current] = d
             /\ FromArray' => internal'[Current].fed = Tail(st)
  <2>1. LET h == Feed(internal[Current], e, TRUE)
        IN  /\ h \in Handlers /\ ~HasRejected(h)
            /\ Len(h.fed) = DepthAfter(Current, e)
            /\ DepthAfter(Current, e) = d
            /\ FromArray /\ open # <<>> /\ open[1] = "array" => h.fed = Tail(st)
    BY <1>5, ElementFed
  <2>2. /\ internal'[Current] = Feed(internal[Current], e, TRUE)
        /\ total_depth'[Current] = DepthAfter(Current, e)
    BY <1>5
  <2>3. QED
    BY <1>4, <2>1, <2>2
<1>6. \A i \in Elements \ {Current} :
        /\ internal'[i] = internal[i] /\ total_depth'[i] = total_depth[i]
        /\ written'[i] = written[i] /\ finished'[i] = finished[i]
  OBVIOUS
<1>7. /\ open' = st /\ keyed' \in BOOLEAN
      /\ count' = IF ClosesElement(e) THEN count + 1 ELSE count
      /\ phase' = IF st = <<>> THEN "done" ELSE "reading"
  BY DEF Emit
<1>. HIDE DEF st, d
<1>8. Alive' /\ count' \in Nat /\ phase' # "waiting"
  BY <1>1, <1>7 DEF Alive
<1>9. /\ FromArray' => Current' = IF d = 0 THEN Current + 1 ELSE Current
      /\ ~FromArray' => Current' = Current
  BY <1>1, <1>3, <1>4, <1>7 DEF Current
<1>10. /\ FromArray' => phase' = "reading" /\ OpenInElement' = Len(st) - 1
       /\ OpenInElement' = d
  <2>1. OpenInElement' = Len(st) - Taken(array_depth')
    BY <1>7 DEF OpenInElement, Taken
  <2>2. ASSUME FromArray'
        PROVE  phase' = "reading" /\ Taken(array_depth') = 1
    <3>1. st # <<>> /\ st[1] = "array" /\ "array" \in Kinds
      BY <1>3, <1>4, <2>2 DEF Kinds
    <3>2. array_depth' \in Nat \ {0}
      BY <1>2, <3>1, OpenBounds DEF st
    <3>3. QED
      BY <1>7, <3>1, <3>2 DEF Taken
  <2>3. QED
    BY <1>3, <2>1, <2>2
<1>11. /\ internal \in [Elements -> Handlers] /\ total_depth \in [Elements -> Nat]
       /\ finished \in [Elements -> BOOLEAN] /\ written \in [Elements -> SUBSET Nat]
       /\ first \in 0..TupleSize
  BY DEF IInv, ChainTypeOK
<1>12. ChainTypeOK'
  <2>1. SourceTypeOK'
    BY <1>2, <1>7, <1>8 DEF SourceTypeOK, Phases
  <2>2. \A i \in Elements : /\ internal'[i] \in Handlers /\ total_depth'[i] \in Nat
                            /\ written'[i] \in SUBSET Nat /\ finished'[i] \in BOOLEAN
    BY <1>1, <1>3, <1>5, <1>6, <1>11
  <2>3. /\ internal' \in [Elements -> Handlers] /\ total_depth' \in [Elements -> Nat]
        /\ written' \in [Elements -> SUBSET Nat]
        /\ finished' \in [Elements -> BOOLEAN]
    BY <2>2
  <2>4. QED
    BY <1>2, <1>4, <1>11, <2>1, <2>3 DEF ChainTypeOK
<1>13. SourceConsistent'
  <2>1. phase' = "reading" => (root' = "StartArray" <=> st[1] = "array")
    <3>1. CASE open # <<>>
      BY <1>2, <1>4, <1>7, <3>1
    <3>2. CASE open = <<>>
      <4>1. phase' = "reading" => st[1] = KindOf(e) /\ e \in Starts /\ root' = e
        BY <1>1, <1>2, <1>7, <3>2
      <4>2. QED
        BY <1>4, <3>2, <4>1 DEF KindOf, Starts
    <3>3. QED
      BY <3>1, <3>2
  <2>2. QED
    BY <1>4, <1>7, <1>8, <2>1 DEF SourceConsistent
<1>14. ArraysCounted'
  BY <1>7 DEF ArraysCounted, st
<1>15. \A i \in Elements :
         /\ total_depth[i] = Len(internal[i].fed)
         /\ i # Current => total_depth[i] = 0 /\ Len(internal[i].fed) = 0
  BY <1>1 DEF IInv, DepthsMatch
<1>16. DepthsMatch'
  <2>1. ASSUME NEW i \in Elements
        PROVE  /\ total_depth'[i] = Len(internal'[i].fed)
               /\ total_depth'[i] = IF i = Current' THEN OpenInElement' ELSE 0
    <3>1. CASE i = Current
      <4>1. total_depth'[i] = d /\ Len(internal'[i].fed) = d
        BY <1>5, <3>1
      <4>2. i # Current' => d = 0
        BY <1>9, <3>1
      <4>3. QED
        BY <1>10, <4>1, <4>2
    <3>2. CASE i # Current
      <4>1. total_depth'[i] = 0 /\ Len(internal'[i].fed) = 0
        BY <1>6, <1>15, <3>2
      <4>2. i = Current' => d = 0
        BY <1>9, <3>2
      <4>3. QED
        BY <1>10, <4>1, <4>2
    <3>3. QED
      BY <3>1, <3>2
  <2>2. QED
    BY <2>1 DEF DepthsMatch
<1>17. \A i \in Elements : finished'[i] <=> i < Finished'
  <2>1. ASSUME NEW i \in Elements
        PROVE  finished'[i] <=> i < Current \/ (i = Current /\ d = 0)
    <3>1. finished[i] <=> i < Current
      BY <1>1 DEF IInv, FinishedIsPrefix
    <3>2. CASE i = Current
      <4>1. finished'[i] <=> finished[i] \/ DepthAfter(i, e) = 0
        BY <3>2
      <4>2. DepthAfter(i, e) = d
        BY <1>5, <3>2
      <4>3. ~(Current < Current)
        BY <1>1
      <4>4. QED
        BY <3>1, <3>2, <4>1, <4>2, <4>3
    <3>3. CASE i # Current
      BY <1>6, <3>1, <3>3
    <3>4. QED
      BY <3>2, <3>3
  <2>2. Finished' = IF d = 0 THEN Current + 1 ELSE Current
    <3>1. CASE FromArray'
      BY <1>9, <3>1 DEF Finished
    <3>2. CASE ~FromArray'
      <4>1. d = 0 <=> phase' = "done"
        BY <1>3, <1>4, <1>7, <3>2
      <4>2. Current = first /\ Current' = Current
        BY <1>4, <1>9, <3>2
      <4>3. QED
        BY <3>2, <4>1, <4>2 DEF Finished
    <3>3. QED
      BY <3>1, <3>2
  <2>3. \A i \in Elements : i \in Int
    BY TupleAssumption DEF Elements
  <2>4. QED
    BY <1>1, <2>1, <2>2, <2>3
<1>18. FinishedIsPrefix'
  BY <1>17 DEF FinishedIsPrefix
<1>19. ASSUME FromArray'
       PROVE  \A i \in Elements :
                /\ written'[i] = IF i < first' THEN Untouched
                                 ELSE IF i < Current' THEN {i - first'}
                                 ELSE IF i = Current' /\ Len(open') > 1 THEN {count'}
                                 ELSE Untouched
                /\ internal'[i].fed = IF i = first' + count' /\ Len(open') > 1
                                      THEN Tail(open') ELSE <<>>
  <2>1. /\ FromArray /\ first' = first /\ Current = first + count
        /\ Current' = first + count' /\ Current' = IF d = 0 THEN Current + 1 ELSE Current
        /\ d = 0 <=> ~(Len(st) > 1)
        /\ count' = IF d = 0 THEN count + 1 ELSE count
    BY <1>3, <1>4, <1>7, <1>9, <1>19 DEF Current
  <2>2. SUFFICES ASSUME NEW i \in Elements
                 PROVE  /\ written'[i] = IF i < first THEN Untouched
                                         ELSE IF i < Current' THEN {i - first}
                                         ELSE IF i = Current' /\ d # 0 THEN {count'}
                                         ELSE Untouched
                        /\ internal'[i].fed = IF i = Current' /\ d # 0
                                              THEN Tail(st) ELSE <<>>
    BY <1>7, <2>1
  <2>3. /\ written[i] = IF i < first THEN Untouched
                        ELSE IF i < Current THEN {i - first}
                        ELSE IF i = Current /\ Len(open) > 1 THEN {count}
                        ELSE Untouched
        /\ i # Current => internal[i].fed = <<>>
    BY <1>1, <2>1 DEF IInv, WrittenSoFar, ElementIsolated
  <2>4. i \in Nat
    BY TupleAssumption DEF Elements
  <2>5. CASE i = Current
    <3>1. written'[i] = written[i] \cup {count} /\ internal'[i].fed = Tail(st)
      BY <1>5, <1>19, <2>5
    <3>2. ~(i < first) /\ ~(i < Current) /\ i - first = count
      BY <1>1, <2>1, <2>5
    <3>3. written'[i] = {count}
      BY <2>3, <2>5, <3>1, <3>2 DEF Untouched
    <3>4. CASE d = 0
      <4>1. st \in Seq(Kinds) /\ st # <<>> /\ Len(st) = 1
        <5>1. st # <<>> /\ ~(Len(st) > 1)
          BY <1>3, <1>4, <1>19, <2>1, <3>4
        <5>2. \A n \in Nat : n # 0 /\ ~(n > 1) => n = 1
          OBVIOUS
        <5>3. QED
          BY <1>2, <5>1, <5>2
      <4>2. Tail(st) = <<>>
        BY <4>1, AboveBottom
      <4>3. i < Current' /\ ~(i = Current')
        BY <1>1, <2>1, <2>5, <3>4
      <4>4. QED
        BY <3>1, <3>2, <3>3, <3>4, <4>2, <4>3
    <3>5. CASE d # 0
      <4>1. i = Current' /\ ~(i < Current') /\ count' = count
        BY <2>1, <2>5, <3>2, <3>5
      <4>2. QED
        BY <3>1, <3>2, <3>3, <3>5, <4>1
    <3>6. QED
      BY <3>4, <3>5
  <2>6. CASE i # Current
    <3>1. written'[i] = written[i] /\ internal'[i].fed = <<>>
      BY <1>6, <2>3, <2>6
    <3>2. i < Current' <=> i < Current
      BY <1>1, <2>1, <2>4, <2>6
    <3>3. i = Current' => d = 0
      BY <2>1, <2>6
    <3>4. QED
      BY <2>3, <2>6, <3>1, <3>2, <3>3
  <2>7. QED
    BY <2>5, <2>6
<1>20. ASSUME ~FromArray', NEW i \in Elements, i # first'
       PROVE  written'[i] = Untouched
  <2>1. i # Current /\ written'[i] = written[i]
    BY <1>4, <1>6, <1>20
  <2>2. CASE phase = "reading"
    <3>1. ~FromArray
      BY <1>4, <1>20, <2>2
    <3>2. QED
      BY <1>1, <1>20, <2>1, <3>1 DEF IInv, WrittenSoFar
  <2>3. CASE phase = "waiting"
    <3>1. FromArray /\ Current = first
      BY <1>1, <1>4, <1>20, <2>3
    <3>2. written[i] = IF i < first THEN Untouched
                       ELSE IF i < Current THEN {i - first}
                       ELSE IF i = Current /\ Len(open) > 1 THEN {count}
                       ELSE Untouched
      BY <1>1, <3>1 DEF IInv, WrittenSoFar
    <3>3. QED
      BY <2>1, <3>1, <3>2
  <2>4. QED
    BY <1>1, <2>2, <2>3
<1>21. WrittenSoFar' /\ ElementIsolated'
  <2>1. \A i \in Elements : total_depth'[i] = Len(internal'[i].fed)
    BY <1>8, <1>16 DEF DepthsMatch
  <2>2. QED
    BY <1>19, <1>20, <2>1 DEF WrittenSoFar, ElementIsolated
<1>22. \A i \in Elements : ~HasRejected(internal'[i])
  <2>1. \A i \in Elements : ~HasRejected(internal[i])
    BY <1>1 DEF IInv, NothingRejected
  <2>2. QED
    BY <1>5, <1>6, <2>1
<1>23. NothingRejected' /\ RejectionFound'
  <2>1. Finished' \in Nat
    <3>1. first' \in Nat /\ Current' \in Nat
      BY <1>1, <1>9
    <3>2. QED
      BY <3>1 DEF Finished
  <2>2. reached' = IF Finished' < TupleSize THEN Finished' ELSE TupleSize
    BY <1>17, <2>1, NextReach DEF SkipsPrefix
  <2>3. reached' < TupleSize => reached' \in Elements
    BY <2>1, <2>2, TupleAssumption DEF Elements
  <2>4. Refused' = FALSE
    BY <1>22, <2>3 DEF Refused
  <2>5. QED
    BY <1>7, <1>22, <2>4 DEF NothingRejected, RejectionFound
<1>24. QED
  BY <1>12, <1>13, <1>14, <1>16, <1>18, <1>21, <1>23 DEF IInv

(* An event the current element rejects: the element stays the one that an *)
(* event would reach, so it is asked for the error.                        *)
LEMMA Rejected ==
  ASSUME IInv, NEW e \in Events, Emit(e, FALSE), Passed(e), Current \in Elements,
         root' = (IF phase = "waiting" THEN e ELSE root), first' = first,
         array_depth' = Cardinality(OpenAs("array", After(open, e))),
         internal' = [internal EXCEPT ![Current] = Feed(@, e, FALSE)],
         total_depth' = [total_depth EXCEPT ![Current] = DepthAfter(Current, e)],
         written' = [written EXCEPT ![Current] = @ \cup {count}],
         finished' = finished
  PROVE  IInv'
<1>1. /\ Alive /\ Finished = Current /\ Current \in Nat /\ count \in Nat
      /\ reached = IF Current < TupleSize THEN Current ELSE TupleSize
  BY AtEvent
<1>2. After(open, e) \in Seq(Kinds) /\ array_depth' \in Nat
  BY StackAfter
<1>3. root' \in Events /\ (FromArray' => FromArray)
  BY RootAfter
<1>4. LET h == Feed(internal[Current], e, FALSE)
      IN  h \in Handlers /\ HasRejected(h) /\ DepthAfter(Current, e) \in Nat
  BY ElementFed
<1>5. /\ internal \in [Elements -> Handlers] /\ total_depth \in [Elements -> Nat]
      /\ finished \in [Elements -> BOOLEAN] /\ written \in [Elements -> SUBSET Nat]
      /\ first \in 0..TupleSize
  BY DEF IInv, ChainTypeOK
<1>6. /\ open' = After(open, e) /\ keyed' \in BOOLEAN /\ count' = count
      /\ phase' = "terminated" /\ ~Alive'
  BY DEF Emit, Alive
<1>7. ChainTypeOK'
  <2>1. SourceTypeOK'
    BY <1>1, <1>2, <1>6 DEF SourceTypeOK, Phases
  <2>2. internal' \in [Elements -> Handlers]
    BY <1>4, <1>5
  <2>3. total_depth' \in [Elements -> Nat]
    BY <1>4, <1>5
  <2>4. written' \in [Elements -> SUBSET Nat]
    BY <1>1, <1>5
  <2>5. QED
    BY <1>2, <1>3, <1>5, <2>1, <2>2, <2>3, <2>4 DEF ChainTypeOK
<1>8. RejectionFound'
  <2>1. reached' = reached
    BY DEF reached
  <2>2. reached = Current /\ Current < TupleSize
    BY <1>1, TupleAssumption DEF Elements
  <2>3. HasRejected(internal'[Current])
    BY <1>4, <1>5
  <2>4. Refused' = TRUE
    BY <2>1, <2>2, <2>3 DEF Refused
  <2>5. FromArray' => reached' = first' + count'
    BY <1>3, <1>6, <2>1, <2>2 DEF Current
  <2>6. QED
    BY <1>6, <2>4, <2>5 DEF RejectionFound
<1>9. QED
  BY <1>6, <1>7, <1>8
     DEF IInv, SourceConsistent, ArraysCounted, DepthsMatch, FinishedIsPrefix,
         WrittenSoFar, ElementIsolated, NothingRejected

(* An event that the most derived class passes to the chain.               *)
LEMMA InChain ==
  ASSUME IInv, NEW e \in Events, Passed(e), Forwarded(e),
         root' = (IF phase = "waiting" THEN e ELSE root), first' = first,
         array_depth' = IF e = "StartArray" THEN array_depth + 1
                        ELSE IF e = "EndArray" THEN array_depth - 1 ELSE array_depth
  PROVE  IInv'
<1>1. /\ internal \in [Elements -> Handlers] /\ total_depth \in [Elements -> Nat]
      /\ finished \in [Elements -> BOOLEAN] /\ written \in [Elements -> SUBSET Nat]
  BY DEF IInv, ChainTypeOK
<1>2. ASSUME NEW ok \in BOOLEAN, Emit(e, ok)
      PROVE  /\ array_depth' = Cardinality(OpenAs("array", After(open, e)))
             /\ reached = IF Current < TupleSize THEN Current ELSE TupleSize
             /\ Current \in Nat
  BY <1>2, StackAfter, AtEvent
<1>3. CASE Dropped(e)
  <2>1. Emit(e, TRUE) /\ reached = TupleSize
        /\ UNCHANGED <<internal, total_depth, written, finished>>
    BY <1>3 DEF Dropped
  <2>2. Current \notin Elements
    <3>1. TupleSize = IF Current < TupleSize THEN Current ELSE TupleSize
      BY <1>2, <2>1
    <3>2. ~(Current < TupleSize)
      BY <3>1, TupleAssumption
    <3>3. QED
      BY <3>2, TupleAssumption DEF Elements
  <2>3. /\ internal' = [i \in Elements |-> IF i = Current THEN Feed(internal[i], e, TRUE)
                                           ELSE internal[i]]
        /\ total_depth' = [i \in Elements |-> IF i = Current THEN DepthAfter(i, e)
                                              ELSE total_depth[i]]
    BY <1>1, <2>1, <2>2
  <2>4. /\ written' = [i \in Elements |-> IF i = Current THEN written[i] \cup {count}
                                          ELSE written[i]]
        /\ finished' = [i \in Elements |-> IF i = Current
                                           THEN finished[i] \/ DepthAfter(i, e) = 0
                                           ELSE finished[i]]
    BY <1>1, <2>1, <2>2
  <2>5. QED
    BY <1>2, <2>1, <2>3, <2>4, Accepted
<1>4. ASSUME NEW i \in Elements, NEW ok \in BOOLEAN, i = reached, Emit(e, ok),
             internal' = [internal EXCEPT ![i] = Feed(@, e, ok)],
             total_depth' = [total_depth EXCEPT ![i] = DepthAfter(i, e)],
             written' = [written EXCEPT ![i] = @ \cup {count}],
             finish_when_depth_is_right(i, DepthAfter(i, e), ok)
      PROVE  IInv'
  <2>1. i = Current /\ Current \in Elements
    BY <1>2, <1>4, TupleAssumption DEF Elements
  <2>2. finished' = [finished EXCEPT ![Current] =
                       @ \/ (ok /\ DepthAfter(Current, e) = 0)]
    BY <1>4, <2>1 DEF finish_when_depth_is_right
  <2>3. CASE ok
    <3>1. /\ internal' = [j \in Elements |-> IF j = Current THEN Feed(internal[j], e, TRUE)
                                             ELSE internal[j]]
          /\ total_depth' = [j \in Elements |-> IF j = Current THEN DepthAfter(j, e)
                                                ELSE total_depth[j]]
      BY <1>1, <1>4, <2>1, <2>3
    <3>2. /\ written' = [j \in Elements |-> IF j = Current THEN written[j] \cup {count}
                                            ELSE written[j]]
          /\ finished' = [j \in Elements |-> IF j = Current
                                             THEN finished[j] \/ DepthAfter(j, e) = 0
                                             ELSE finished[j]]
      BY <1>1, <1>4, <2>1, <2>2, <2>3
    <3>3. Emit(e, TRUE)
      BY <1>4, <2>3
    <3>4. QED
      BY <1>2, <3>1, <3>2, <3>3, Accepted
  <2>4. CASE ~ok
    <3>1. finished' = finished
      BY <1>1, <2>1, <2>2, <2>4
    <3>2. /\ internal' = [internal EXCEPT ![Current] = Feed(@, e, FALSE)]
          /\ total_depth' = [total_depth EXCEPT ![Current] = DepthAfter(Current, e)]
          /\ written' = [written EXCEPT ![Current] = @ \cup {count}]
      BY <1>4, <2>1, <2>4
    <3>3. Emit(e, FALSE)
      BY <1>4, <2>4
    <3>4. QED
      BY <1>2, <2>1, <3>1, <3>2, <3>3, Rejected
  <2>5. QED
    BY <2>3, <2>4
<1>5. QED
  BY <1>3, <1>4 DEF Forwarded
-----------------------------------------------------------------------------
(* The brackets that the most derived class takes.                         *)

(* Nothing but the array's own bracket happens to the elements.            *)
LEMMA BracketStarts ==
  ASSUME IInv, array_depth' = array_depth + 1, ~(array_depth > 0),
         Bracket("StartArray"), Began("StartArray"), first' = first
  PROVE  IInv'
<1>. DEFINE e  == "StartArray"
            st == After(open, e)
<1>1. e \in Events /\ e \in Starts /\ Delta(e) = 1 /\ KindOf(e) = "array"
  BY DEF Events, Starts, Delta, KindOf
<1>2. Emit(e, TRUE) /\ UNCHANGED <<internal, total_depth, finished, written>>
  BY DEF Bracket
<1>3. /\ phase \in {"waiting", "reading"} /\ Alive /\ Finished = Current
      /\ Current \in Nat /\ count \in Nat /\ first \in Nat
      /\ open \in Seq(Kinds) /\ Len(open) \in Nat /\ (open = <<>> <=> Len(open) = 0)
      /\ phase = "reading" => open # <<>>
      /\ phase = "waiting" => open = <<>> /\ count = 0 /\ FromArray
  BY <1>1, <1>2, AtEvent
<1>4. /\ st \in Seq(Kinds) /\ Len(st) \in Nat /\ Len(st) = Len(open) + 1
      /\ open # <<>> /\ st # <<>> => st[1] = open[1]
      /\ open = <<>> /\ st # <<>> => st[1] = "array"
      /\ st = <<>> <=> Len(st) = 0
      /\ array_depth + 1 = Cardinality(OpenAs("array", st)) /\ array_depth + 1 \in Nat
  BY <1>1, <1>2, StackAfter
<1>5. st # <<>> /\ array_depth = 0
  <2>1. array_depth \in Nat
    BY DEF IInv, ChainTypeOK
  <2>2. QED
    BY <1>3, <1>4, <2>1
<1>6. open # <<>> => open[1] # "array"
  BY <1>3, <1>5, ArraysOpen
<1>7. /\ open' = st /\ keyed' \in BOOLEAN /\ phase' = "reading" /\ count' = count
      /\ Alive'
  BY <1>1, <1>2, <1>5 DEF Emit, ClosesElement, Starts, Ends, Alive
<1>8. /\ root' \in Events /\ root' # "none"
      /\ FromArray' <=> FromArray
      /\ root' = "StartArray" <=> FromArray
      /\ FromArray <=> phase = "waiting"
  <2>1. CASE phase = "waiting"
    <3>1. root' = "StartArray" /\ FromArray
      BY <1>3, <2>1 DEF Began
    <3>2. QED
      BY <1>1, <2>1, <3>1 DEF FromArray
  <2>2. CASE phase = "reading"
    <3>1. root' = root /\ root # "none" /\ root # "StartArray"
      BY <1>3, <1>6, <2>2 DEF Began, IInv, SourceConsistent
    <3>2. QED
      BY <2>2, <3>1 DEF FromArray, IInv, ChainTypeOK
  <2>3. QED
    BY <1>3, <2>1, <2>2
<1>. HIDE DEF st
<1>9. Current' = Current /\ Finished' = Current
  BY <1>7, <1>8 DEF Current, Finished
<1>10. OpenInElement' = OpenInElement
  <2>1. OpenInElement' = Len(st) - 1
    BY <1>4, <1>5, <1>7 DEF OpenInElement
  <2>2. OpenInElement = Len(open) - 0
    BY <1>5 DEF OpenInElement
  <2>3. QED
    BY <1>3, <1>4, <2>1, <2>2
<1>11. FromArray => ~(Len(open) > 1) /\ ~(Len(st) > 1)
  BY <1>3, <1>4, <1>8
<1>12. ChainTypeOK' /\ SourceConsistent' /\ ArraysCounted'
  <2>1. SourceTypeOK'
    BY <1>3, <1>4, <1>7 DEF SourceTypeOK, Phases
  <2>2. ChainTypeOK'
    BY <1>2, <1>4, <1>8, <2>1 DEF IInv, ChainTypeOK
  <2>3. st[1] = "array" <=> FromArray
    BY <1>3, <1>4, <1>5, <1>6, <1>8
  <2>4. QED
    BY <1>4, <1>5, <1>7, <1>8, <2>2, <2>3
       DEF SourceConsistent, ArraysCounted, st
<1>13. DepthsMatch' /\ FinishedIsPrefix'
  BY <1>2, <1>3, <1>9, <1>10 DEF IInv, DepthsMatch, FinishedIsPrefix
<1>14. WrittenSoFar'
  BY <1>2, <1>3, <1>7, <1>8, <1>9, <1>11 DEF IInv, WrittenSoFar
<1>15. ElementIsolated'
  BY <1>2, <1>3, <1>7, <1>8, <1>11 DEF IInv, ElementIsolated
<1>16. NothingRejected' /\ RejectionFound'
  <2>1. \A i \in Elements : ~HasRejected(internal'[i])
    BY <1>2, <1>3 DEF IInv, NothingRejected
  <2>2. Refused' = Refused /\ phase # "terminated"
    BY <1>2, <1>3 DEF Refused, reached
  <2>3. QED
    BY <1>7, <2>1, <2>2 DEF IInv, NothingRejected, RejectionFound
<1>17. QED
  BY <1>12, <1>13, <1>14, <1>15, <1>16 DEF IInv

(* The bracket that ends it is its own exactly when no array is left open, *)
(* which in an array is the end of the value.                              *)
LEMMA BracketEnds ==
  ASSUME IInv, array_depth' = array_depth - 1, ~(array_depth > 1),
         Bracket("EndArray"), UNCHANGED <<root, first>>
  PROVE  IInv'
<1>. DEFINE e  == "EndArray"
            st == After(open, e)
<1>1. e \in Events /\ e \in Ends /\ Delta(e) = -1 /\ KindOf(e) = "array"
  BY DEF Events, Starts, Ends, Delta, KindOf
<1>2. Emit(e, TRUE) /\ UNCHANGED <<internal, total_depth, finished, written>>
  BY DEF Bracket
<1>3. /\ phase = "reading" /\ Alive /\ Finished = Current
      /\ Current \in Nat /\ count \in Nat /\ first \in Nat
      /\ open \in Seq(Kinds) /\ Len(open) \in Nat
      /\ open # <<>> /\ Last(open) = "array"
  BY <1>1, <1>2, AtEvent
<1>4. /\ st \in Seq(Kinds) /\ Len(st) \in Nat /\ Len(st) = Len(open) + (-1)
      /\ open # <<>> /\ st # <<>> => st[1] = open[1]
      /\ st = <<>> <=> Len(st) = 0
      /\ array_depth - 1 = Cardinality(OpenAs("array", st)) /\ array_depth - 1 \in Nat
  BY <1>1, <1>2, StackAfter
<1>5. /\ array_depth = 1
      /\ open[1] = "array" => Len(open) = 1
      /\ Len(open) = 1 => open[1] = "array"
  <2>1. /\ array_depth \in Nat /\ array_depth > 0
        /\ open[1] = "array" /\ array_depth = 1 => Len(open) = 1
        /\ Len(open) = 1 => open[1] = "array"
    BY <1>3, ArraysOpen
  <2>2. array_depth = 1
    BY <2>1
  <2>3. QED
    BY <2>1, <2>2
<1>6. /\ root # "none" /\ (FromArray <=> open[1] = "array") /\ FromArray' = FromArray
      /\ root = "StartArray" <=> FromArray
  BY <1>3 DEF IInv, SourceConsistent, FromArray
<1>7. /\ open' = st /\ keyed' \in BOOLEAN
      /\ phase' = IF st = <<>> THEN "done" ELSE "reading"
      /\ count' = IF ClosesElement(e) THEN count + 1 ELSE count
      /\ ClosesElement(e) => Len(st) = 1
  BY <1>2 DEF Emit, ClosesElement
<1>. HIDE DEF st
<1>8. Len(st) = 0 <=> FromArray
  BY <1>3, <1>4, <1>5, <1>6
<1>9. /\ FromArray => phase' = "done" /\ st = <<>> /\ count' = count
      /\ ~FromArray => phase' = "reading" /\ st # <<>>
      /\ Alive' /\ count' \in Nat
  BY <1>3, <1>4, <1>7, <1>8 DEF Alive
<1>10. Current' = Current /\ Finished' = Current
  BY <1>6, <1>9 DEF Current, Finished
<1>11. OpenInElement' = OpenInElement
  <2>1. array_depth' = 0
    BY <1>5
  <2>2. OpenInElement' = Len(st) - 0
    BY <1>7, <2>1 DEF OpenInElement
  <2>3. OpenInElement = Len(open) - 1
    BY <1>5 DEF OpenInElement
  <2>4. QED
    BY <1>3, <1>4, <2>2, <2>3
<1>12. FromArray => ~(Len(open) > 1) /\ ~(Len(st) > 1)
  BY <1>5, <1>6, <1>8
<1>13. ChainTypeOK' /\ SourceConsistent' /\ ArraysCounted'
  <2>1. SourceTypeOK'
    BY <1>4, <1>7, <1>9 DEF SourceTypeOK, Phases
  <2>2. ChainTypeOK'
    BY <1>2, <1>4, <2>1 DEF IInv, ChainTypeOK
  <2>3. SourceConsistent'
    BY <1>3, <1>4, <1>6, <1>7, <1>9 DEF SourceConsistent
  <2>4. QED
    BY <1>4, <1>7, <2>2, <2>3 DEF ArraysCounted, st
<1>14. DepthsMatch' /\ FinishedIsPrefix'
  BY <1>2, <1>3, <1>10, <1>11 DEF IInv, DepthsMatch, FinishedIsPrefix
<1>15. WrittenSoFar'
  BY <1>2, <1>3, <1>6, <1>7, <1>9, <1>10, <1>12 DEF IInv, WrittenSoFar
<1>16. ElementIsolated'
  BY <1>2, <1>3, <1>6, <1>7, <1>9, <1>12 DEF IInv, ElementIsolated
<1>17. NothingRejected' /\ RejectionFound'
  <2>1. \A i \in Elements : ~HasRejected(internal'[i])
    BY <1>2, <1>3 DEF IInv, NothingRejected
  <2>2. Refused' = Refused /\ phase # "terminated" /\ phase' # "terminated"
    BY <1>2, <1>3, <1>9 DEF Refused, reached
  <2>3. QED
    BY <2>1, <2>2 DEF IInv, NothingRejected, RejectionFound
<1>18. QED
  BY <1>13, <1>14, <1>15, <1>16, <1>17 DEF IInv
-----------------------------------------------------------------------------
(* Steps that are no events.                                               *)

(* The chain before a value, freshly made or prepared for reuse.           *)
Prepared ==
  /\ open = <<>> /\ phase = "waiting" /\ count = 0 /\ keyed \in BOOLEAN
  /\ array_depth = 0
  /\ internal = OfEach(Fresh)
  /\ total_depth = OfEach(0)
  /\ finished = OfEach(FALSE)
  /\ written = OfEach(Untouched)
  /\ root = "none"
  /\ first = 0

(* A prepared chain satisfies the invariant.                               *)
LEMMA BeforeValue == Prepared => IInv
<1>. SUFFICES ASSUME Prepared
              PROVE  IInv
  OBVIOUS
<1>1. /\ open = <<>> /\ phase = "waiting" /\ count = 0 /\ keyed \in BOOLEAN
      /\ array_depth = 0 /\ root = "none" /\ first = 0
  BY DEF Prepared
<1>2. \A i \in Elements :
        /\ internal[i] = Fresh /\ total_depth[i] = 0 /\ finished[i] = FALSE
        /\ written[i] = Untouched /\ ~(i < 0)
  BY TupleAssumption DEF Prepared, OfEach, Elements
<1>3. /\ <<>> \in Seq(Kinds) /\ Len(<<>>) = 0
      /\ Fresh \in Handlers /\ Fresh.fed = <<>> /\ ~HasRejected(Fresh)
  BY DEF Fresh, Handlers, Statuses, HasRejected
<1>4. FromArray /\ Current = 0 /\ Finished = 0 /\ OpenInElement = 0
  BY <1>1, <1>3 DEF FromArray, Current, Finished, OpenInElement
<1>5. ChainTypeOK
  <2>1. SourceTypeOK
    BY <1>1, <1>3 DEF SourceTypeOK, Phases
  <2>2. /\ internal \in [Elements -> Handlers] /\ total_depth \in [Elements -> Nat]
        /\ finished \in [Elements -> BOOLEAN] /\ written \in [Elements -> SUBSET Nat]
    BY <1>3 DEF Prepared, OfEach, Untouched
  <2>3. first \in 0..TupleSize
    BY <1>1, TupleAssumption
  <2>4. QED
    BY <1>1, <2>1, <2>2, <2>3 DEF ChainTypeOK
<1>6. SourceConsistent
  BY <1>1 DEF SourceConsistent
<1>7. ArraysCounted
  <2>1. "array" \in Kinds
    BY DEF Kinds
  <2>2. open \in Seq(Kinds) /\ open = <<>>
    BY <1>1, <1>3
  <2>3. Cardinality(OpenAs("array", open)) = 0
    BY <2>1, <2>2, OpenBounds
  <2>4. QED
    BY <1>1, <2>3 DEF ArraysCounted
<1>8. DepthsMatch /\ FinishedIsPrefix /\ WrittenSoFar /\ ElementIsolated
  BY <1>1, <1>2, <1>3, <1>4
     DEF DepthsMatch, FinishedIsPrefix, WrittenSoFar, ElementIsolated
<1>9. NothingRejected /\ RejectionFound
  <2>1. \A i \in Elements : ~HasRejected(internal[i]) /\ (finished[i] <=> i < 0)
    BY <1>2, <1>3
  <2>2. Refused = FALSE
    BY <1>5, <2>1, NoRejection
  <2>3. QED
    BY <1>1, <2>1, <2>2 DEF NothingRejected, RejectionFound
<1>10. QED
  BY <1>5, <1>6, <1>7, <1>8, <1>9 DEF IInv

(* ... also when a step has prepared it.                                   *)
LEMMA BeforeNextValue == Prepared' => IInv'
  BY BeforeValue, PTL

(* The initial states satisfy the invariant.                               *)
LEMMA InitInvariant == Init => IInv
  BY BeforeValue DEF Init, SourceInit, Prepared

(* Between two values the elements stay finished: those of an earlier      *)
(* value that had elements enough leave nothing for the next.              *)
LEMMA NextValue == IInv /\ RepeatedMember => IInv'
<1>. SUFFICES ASSUME IInv, RepeatedMember
              PROVE  IInv'
  OBVIOUS
<1>1. /\ phase = "done" /\ phase' = "waiting" /\ count' = 0
      /\ open' = open /\ keyed' = keyed
      /\ written' = OfEach(Untouched) /\ root' = "none" /\ first' = reached
      /\ UNCHANGED <<array_depth, internal, total_depth, finished>>
  BY DEF RepeatedMember, AnotherValue
<1>2. /\ Alive /\ open = <<>> /\ Len(<<>>) = 0
      /\ ChainTypeOK /\ count \in Nat /\ first \in Nat
      /\ TupleSize \in Nat /\ array_depth = 0
  <2>1. Alive /\ open = <<>> /\ ChainTypeOK
    BY <1>1 DEF IInv, SourceConsistent, Alive
  <2>2. array_depth = 0
    BY <2>1, ArraysOpen
  <2>3. QED
    BY <2>1, <2>2, TupleAssumption DEF ChainTypeOK, SourceTypeOK
<1>3. Finished \in Nat
  BY <1>2 DEF Finished, Current
<1>4. reached = IF Finished < TupleSize THEN Finished ELSE TupleSize
  <2>1. \A i \in Elements : finished[i] <=> i < Finished
    BY <1>2 DEF IInv, FinishedIsPrefix
  <2>2. QED
    BY <1>3, <2>1, Reach DEF SkipsPrefix
<1>5. reached \in 0..TupleSize /\ reached \in Nat
  BY <1>2, <1>3, <1>4
<1>6. FromArray' /\ Alive' /\ Current' = reached /\ Finished' = reached
  BY <1>1, <1>5 DEF FromArray, Alive, Current, Finished
<1>7. \A i \in Elements :
        /\ total_depth[i] = 0 /\ internal[i].fed = <<>> /\ ~HasRejected(internal[i])
        /\ written'[i] = Untouched
        /\ finished[i] <=> i < reached
  <2>1. ASSUME NEW i \in Elements
        PROVE  total_depth[i] = 0 /\ internal[i].fed = <<>>
    <3>1. /\ total_depth[i] = Len(internal[i].fed)
          /\ total_depth[i] = 0
      <4>1. OpenInElement = 0
        BY <1>2 DEF OpenInElement
      <4>2. QED
        BY <1>2, <4>1 DEF IInv, DepthsMatch
    <3>2. internal[i].fed \in Seq(Kinds)
      BY <1>2 DEF ChainTypeOK, Handlers
    <3>3. QED
      BY <3>1, <3>2, EmptySeq
  <2>2. ASSUME NEW i \in Elements
        PROVE  finished[i] <=> i < reached
    <3>1. finished[i] <=> i < Finished
      BY <1>2 DEF IInv, FinishedIsPrefix
    <3>2. i < TupleSize /\ i \in Nat
      BY <1>2 DEF Elements
    <3>3. QED
      BY <1>2, <1>3, <1>4, <3>1, <3>2
  <2>3. \A i \in Elements : ~HasRejected(internal[i])
    BY <1>1 DEF IInv, NothingRejected
  <2>4. QED
    BY <1>1, <2>1, <2>2, <2>3 DEF OfEach
<1>8. ChainTypeOK'
  <2>1. SourceTypeOK'
    BY <1>1, <1>2 DEF ChainTypeOK, SourceTypeOK, Phases
  <2>2. written' \in [Elements -> SUBSET Nat]
    BY <1>1 DEF OfEach, Untouched
  <2>3. QED
    BY <1>1, <1>2, <1>5, <2>1, <2>2 DEF ChainTypeOK
<1>9. SourceConsistent' /\ ArraysCounted'
  BY <1>1, <1>2 DEF SourceConsistent, IInv, ArraysCounted
<1>10. DepthsMatch' /\ FinishedIsPrefix'
  <2>1. OpenInElement' = 0
    BY <1>1, <1>2 DEF OpenInElement
  <2>2. QED
    BY <1>1, <1>2, <1>6, <1>7, <2>1 DEF DepthsMatch, FinishedIsPrefix
<1>11. WrittenSoFar' /\ ElementIsolated'
  <2>1. ~(Len(open') > 1)
    BY <1>1, <1>2
  <2>2. ASSUME NEW i \in Elements
        PROVE  ~(~(i < reached) /\ i < reached)
    OBVIOUS
  <2>3. QED
    BY <1>1, <1>2, <1>6, <1>7, <2>1 DEF WrittenSoFar, ElementIsolated
<1>12. NothingRejected' /\ RejectionFound'
  <2>1. \A i \in Elements : ~HasRejected(internal'[i])
    BY <1>1, <1>7
  <2>2. Refused' = Refused /\ phase # "terminated"
    BY <1>1 DEF Refused, reached
  <2>3. QED
    BY <1>1, <2>1, <2>2 DEF IInv, NothingRejected, RejectionFound
<1>13. QED
  BY <1>8, <1>9, <1>10, <1>11, <1>12 DEF IInv

(* A syntax error leaves the handlers as they are, and holding no error.   *)
LEMMA TextBreaks == IInv /\ SyntaxError => IInv'
<1>. SUFFICES ASSUME IInv, SyntaxError
              PROVE  IInv'
  OBVIOUS
<1>1. /\ phase \in {"waiting", "reading", "done"} /\ phase' = "malformed"
      /\ ~Alive' /\ UNCHANGED <<open, keyed, count>> /\ UNCHANGED handlerVars
  BY DEF SyntaxError, Malformed, Alive
<1>2. ChainTypeOK'
  BY <1>1 DEF IInv, ChainTypeOK, SourceTypeOK, Phases, handlerVars
<1>3. NothingRejected'
  BY <1>1 DEF IInv, NothingRejected, handlerVars
<1>4. RejectionFound'
  <2>1. Refused' = Refused
    BY <1>1 DEF Refused, reached, handlerVars
  <2>2. QED
    BY <1>1, <2>1 DEF IInv, RejectionFound
<1>5. QED
  BY <1>1, <1>2, <1>3, <1>4
     DEF IInv, SourceConsistent, ArraysCounted, DepthsMatch, FinishedIsPrefix,
         WrittenSoFar, ElementIsolated

(* A step that changes nothing keeps the invariant.                        *)
LEMMA StutterInvariant == IInv /\ UNCHANGED vars => IInv'
<1>. SUFFICES ASSUME IInv, UNCHANGED vars
              PROVE  IInv'
  OBVIOUS
<1>1. /\ UNCHANGED <<open, keyed, phase, count>>
      /\ UNCHANGED <<array_depth, internal, total_depth, finished, written, root, first>>
  BY DEF vars, sourceVars, handlerVars
<1>2. /\ Alive' = Alive /\ FromArray' = FromArray /\ Refused' = Refused
      /\ reached' = reached /\ OpenInElement' = OpenInElement
  BY <1>1 DEF Alive, FromArray, Refused, reached, OpenInElement
<1>3. Current' = Current /\ Finished' = Finished
  BY <1>1, <1>2 DEF Current, Finished
<1>4. ChainTypeOK' /\ SourceConsistent' /\ ArraysCounted' /\ DepthsMatch'
  BY <1>1, <1>2, <1>3
     DEF IInv, ChainTypeOK, SourceTypeOK, SourceConsistent, ArraysCounted, DepthsMatch
<1>5. FinishedIsPrefix' /\ WrittenSoFar' /\ ElementIsolated'
  BY <1>1, <1>2, <1>3 DEF IInv, FinishedIsPrefix, WrittenSoFar, ElementIsolated
<1>6. NothingRejected' /\ RejectionFound'
  BY <1>1, <1>2 DEF IInv, NothingRejected, RejectionFound
<1>7. QED
  BY <1>4, <1>5, <1>6 DEF IInv

(* Every step keeps the invariant.                                         *)
LEMMA StepInvariant == IInv /\ [Next]_vars => IInv'
<1>. SUFFICES ASSUME IInv, [Next]_vars
              PROVE  IInv'
  OBVIOUS
<1>0. array_depth \in Nat
  BY DEF IInv, ChainTypeOK
<1>1. ASSUME NEW e \in {"Scalar", "Key", "StartObject", "EndObject"},
             Forwarded(e), Began(e), UNCHANGED <<array_depth, first>>
      PROVE  IInv'
  <2>1. e \in Events /\ Passed(e) /\ e # "StartArray" /\ e # "EndArray"
    BY DEF Events, Starts, Ends, Passed
  <2>2. QED
    BY <1>1, <2>1, InChain DEF Began
<1>2. CASE StartArray
  <2>1. array_depth' = array_depth + 1 /\ Began("StartArray") /\ first' = first
    BY <1>2 DEF StartArray
  <2>2. CASE array_depth' > 1 /\ Forwarded("StartArray")
    <3>1. "StartArray" \in Events /\ Passed("StartArray")
      BY <1>0, <2>1, <2>2 DEF Events, Starts, Passed
    <3>2. QED
      BY <2>1, <2>2, <3>1, InChain DEF Began
  <2>3. CASE array_depth' <= 1 /\ Bracket("StartArray")
    <3>1. ~(array_depth > 0)
      BY <1>0, <2>1, <2>3
    <3>2. QED
      BY <2>1, <2>3, <3>1, BracketStarts
  <2>4. QED
    BY <1>2, <2>2, <2>3 DEF StartArray
<1>3. CASE EndArray
  <2>1. array_depth' = array_depth - 1 /\ UNCHANGED <<root, first>>
    BY <1>3 DEF EndArray
  <2>2. CASE array_depth > 1 /\ Forwarded("EndArray")
    <3>1. "EndArray" \in Events /\ "EndArray" \in Ends /\ Passed("EndArray")
      BY <2>2 DEF Events, Ends, Passed
    <3>2. \E ok \in BOOLEAN : Emit("EndArray", ok)
      BY <2>2 DEF Forwarded, Dropped
    <3>3. phase = "reading"
      BY <3>1, <3>2, AtEvent
    <3>4. QED
      BY <2>1, <2>2, <3>1, <3>3, InChain
  <2>3. CASE array_depth <= 1 /\ Bracket("EndArray")
    <3>1. ~(array_depth > 1)
      BY <1>0, <2>3
    <3>2. QED
      BY <2>1, <2>3, <3>1, BracketEnds
  <2>4. QED
    BY <1>3, <2>2, <2>3 DEF EndArray
<1>4. CASE PrepareForReuse
  <2>1. open = <<>> /\ keyed \in BOOLEAN
    BY <1>4 DEF PrepareForReuse, AnotherValue, IInv, SourceConsistent, ChainTypeOK,
                SourceTypeOK
  <2>2. Prepared'
    BY <1>4, <2>1 DEF PrepareForReuse, AnotherValue, Prepared
  <2>3. QED
    BY <2>2, BeforeNextValue
<1>5. QED
  BY <1>1, <1>2, <1>3, <1>4, NextValue, TextBreaks, StutterInvariant
     DEF Next, ChainEvent
-----------------------------------------------------------------------------
(* What the invariant says of the tuple.                                   *)

(* A prefix of the elements is finished, and each of them was written by   *)
(* the JSON element at its own position.                                   *)
LEMMA InvariantMeansMatched == IInv => PrefixMatched
<1>. SUFFICES ASSUME IInv, Alive
              PROVE  PrefixMatched
  BY DEF PrefixMatched
<1>1. /\ first \in Nat /\ count \in Nat
      /\ \A i \in Elements : finished[i] <=> i < Finished
      /\ \A i \in Elements : i \in Nat
  BY TupleAssumption
     DEF IInv, ChainTypeOK, SourceTypeOK, FinishedIsPrefix, Elements
<1>2. ASSUME FromArray, NEW i \in Elements
      PROVE  /\ finished[i] <=> i < first + count
             /\ i < first => written[i] = Untouched
             /\ i \in first .. first + count - 1 => written[i] = {i - first}
             /\ i > first + count => written[i] = Untouched
  <2>1. Current = first + count /\ Finished = first + count
    BY <1>2 DEF Current, Finished
  <2>2. written[i] = IF i < first THEN Untouched
                     ELSE IF i < first + count THEN {i - first}
                     ELSE IF i = first + count /\ Len(open) > 1 THEN {count}
                     ELSE Untouched
    BY <1>2, <2>1 DEF IInv, WrittenSoFar
  <2>3. i \in first .. first + count - 1 => ~(i < first) /\ i < first + count
    BY <1>1
  <2>4. i > first + count =>
          ~(i < first) /\ ~(i < first + count) /\ i # first + count
    BY <1>1
  <2>5. QED
    BY <1>1, <2>1, <2>2, <2>3, <2>4
<1>3. ASSUME ~FromArray, NEW i \in Elements
      PROVE  /\ finished[i] <=> i < first \/ (i = first /\ phase = "done")
             /\ i # first => written[i] = Untouched
  <2>1. Finished = IF phase = "done" THEN first + 1 ELSE first
    BY <1>3 DEF Finished, Current
  <2>2. i < first + 1 <=> i < first \/ i = first
    BY <1>1
  <2>3. QED
    BY <1>1, <1>3, <2>1, <2>2 DEF IInv, WrittenSoFar
<1>4. QED
  BY <1>2, <1>3 DEF PrefixMatched

-----------------------------------------------------------------------------
(* Which element can hold an error.                                        *)

(* An element in the middle of a value has a container open.               *)
BusyIsOpen ==
  \A i \in Elements : internal[i].status = "busy" => internal[i].fed # <<>>

(* Only the element that an event would reach is in the middle of a value, *)
(* or has rejected an event.                                               *)
OneReads ==
  /\ reached \in 0..TupleSize
  /\ \A i \in Elements :
       /\ HasRejected(internal[i]) => i = reached /\ phase = "terminated"
       /\ internal[i].status = "busy" =>
            /\ i = reached
            /\ open # <<>> /\ phase \in {"reading", "malformed"}
            /\ FromArray => i = first + count

NotedInside == noted => \E i \in Elements : internal[i].status = "busy"

(* A handler is busy after an event only if the event leaves a container   *)
(* open.                                                                   *)
LEMMA FedBusy ==
  \A h \in Handlers, e \in Events, ok \in BOOLEAN :
    Feed(h, e, ok).status = "busy" => Feed(h, e, ok).fed # <<>>
BY DEF Feed

(* Every step keeps BusyIsOpen.                                            *)
LEMMA StepBusy == IInv /\ BusyIsOpen /\ [Next]_vars => BusyIsOpen'
<1>. SUFFICES ASSUME IInv, BusyIsOpen, [Next]_vars
              PROVE  BusyIsOpen'
  OBVIOUS
<1>0. internal \in [Elements -> Handlers]
  BY DEF IInv, ChainTypeOK
<1>1. ASSUME internal' = internal
      PROVE  BusyIsOpen'
  BY <1>1 DEF BusyIsOpen
<1>2. ASSUME NEW e \in Events, Forwarded(e)
      PROVE  BusyIsOpen'
  <2>1. CASE Dropped(e)
    BY <1>1, <2>1 DEF Dropped
  <2>2. ASSUME NEW i \in Elements, NEW ok \in BOOLEAN,
               internal' = [internal EXCEPT ![i] = Feed(@, e, ok)]
        PROVE  BusyIsOpen'
    BY <1>0, <2>2, FedBusy DEF BusyIsOpen
  <2>3. QED
    BY <1>2, <2>1, <2>2 DEF Forwarded
<1>3. CASE ChainEvent
  BY <1>2, <1>3 DEF ChainEvent, Events, Starts, Ends
<1>4. CASE StartArray
  BY <1>1, <1>2, <1>4 DEF StartArray, Bracket, Events, Starts, Ends
<1>5. CASE EndArray
  BY <1>1, <1>2, <1>5 DEF EndArray, Bracket, Events, Starts, Ends
<1>6. CASE PrepareForReuse
  BY <1>6 DEF PrepareForReuse, OfEach, Fresh, BusyIsOpen
<1>7. CASE SyntaxError \/ RepeatedMember \/ UNCHANGED vars
  BY <1>1, <1>7 DEF SyntaxError, RepeatedMember, vars, handlerVars
<1>8. QED
  BY <1>3, <1>4, <1>5, <1>6, <1>7 DEF Next

(* While nothing has gone wrong, the busy element is the one being read.   *)
LEMMA AliveReads == IInv /\ BusyIsOpen /\ Alive => OneReads
<1>. SUFFICES ASSUME IInv, BusyIsOpen, Alive
              PROVE  OneReads
  OBVIOUS
<1>0. reached \in 0..TupleSize
  <2>1. Finished \in Nat /\ TupleSize \in Nat
    BY TupleAssumption
       DEF IInv, ChainTypeOK, SourceTypeOK, Finished, Current
  <2>2. \A j \in Elements : finished[j] <=> j < Finished
    BY DEF IInv, FinishedIsPrefix
  <2>3. reached = IF Finished < TupleSize THEN Finished ELSE TupleSize
    BY <2>1, <2>2, Reach DEF SkipsPrefix
  <2>4. QED
    BY <2>1, <2>3
<1>1. \A i \in Elements : ~HasRejected(internal[i])
  BY DEF IInv, NothingRejected, Alive
<1>2. ASSUME NEW i \in Elements, internal[i].status = "busy"
      PROVE  /\ i = reached
             /\ open # <<>> /\ phase = "reading"
             /\ FromArray => i = first + count
  <2>1. /\ internal[i].fed \in Seq(Kinds) /\ internal[i].fed # <<>>
        /\ open \in Seq(Kinds) /\ count \in Nat /\ first \in Nat
        /\ TupleSize \in Nat /\ i \in Nat /\ i < TupleSize
        /\ array_depth \in Nat
    BY <1>2, TupleAssumption
       DEF IInv, ChainTypeOK, SourceTypeOK, Handlers, BusyIsOpen, Elements
  <2>2. Len(internal[i].fed) # 0
    BY <2>1, EmptySeq
  <2>3. i = Current /\ OpenInElement # 0
    BY <2>2 DEF IInv, DepthsMatch
  <2>4. open # <<>>
    <3>1. ASSUME open = <<>>
          PROVE  FALSE
      <4>1. array_depth = 0 /\ Len(open) = 0
        BY <3>1, ArraysOpen
      <4>2. OpenInElement = 0
        BY <4>1 DEF OpenInElement
      <4>3. QED
        BY <2>3, <4>2
    <3>2. QED
      BY <3>1
  <2>5. phase = "reading" /\ Finished = Current
    BY <2>4 DEF IInv, SourceConsistent, Alive, Finished
  <2>6. i = reached
    <3>1. Current \in Nat /\ \A j \in Elements : finished[j] <=> j < Current
      BY <2>1, <2>3, <2>5 DEF IInv, FinishedIsPrefix
    <3>2. reached = IF Current < TupleSize THEN Current ELSE TupleSize
      BY <3>1, Reach DEF SkipsPrefix
    <3>3. QED
      BY <2>1, <2>3, <3>2
  <2>7. QED
    BY <2>3, <2>4, <2>5, <2>6 DEF Current
<1>3. QED
  BY <1>0, <1>1, <1>2 DEF OneReads

(* ... and so it is in the next state.                                     *)
LEMMA NextAliveReads == IInv' /\ BusyIsOpen' /\ Alive' => OneReads'
  BY AliveReads, PTL

(* Every step keeps OneReads.                                              *)
LEMMA StepReads ==
  IInv /\ BusyIsOpen /\ OneReads /\ [Next]_vars => OneReads'
<1>. SUFFICES ASSUME IInv, BusyIsOpen, OneReads, [Next]_vars
              PROVE  OneReads'
  OBVIOUS
<1>1. IInv' /\ BusyIsOpen'
  BY StepInvariant, StepBusy
<1>2. CASE Alive'
  BY <1>1, <1>2, NextAliveReads
<1>3. CASE UNCHANGED vars
  <2>1. /\ UNCHANGED <<open, keyed, phase, count>>
        /\ UNCHANGED <<internal, finished, root, first>>
    BY <1>3 DEF vars, sourceVars, handlerVars
  <2>2. reached' = reached /\ FromArray' = FromArray
    BY <2>1 DEF reached, FromArray
  <2>3. QED
    BY <2>1, <2>2 DEF OneReads
<1>4. CASE SyntaxError
  <2>1. /\ phase \in {"waiting", "reading", "done"} /\ phase' = "malformed"
        /\ UNCHANGED <<open, count, internal, finished, root, first>>
    BY <1>4 DEF SyntaxError, Malformed, handlerVars
  <2>2. reached' = reached /\ FromArray' = FromArray
    BY <2>1 DEF reached, FromArray
  <2>3. QED
    BY <2>1, <2>2 DEF OneReads
<1>5. ASSUME NEW e \in Events, NEW i \in Elements, i = reached, Emit(e, FALSE),
             internal' = [internal EXCEPT ![i] = Feed(@, e, FALSE)],
             finish_when_depth_is_right(i, DepthAfter(i, e), FALSE)
      PROVE  OneReads'
  <2>1. internal \in [Elements -> Handlers] /\ finished \in [Elements -> BOOLEAN]
    BY DEF IInv, ChainTypeOK
  <2>2. finished' = finished
    BY <1>5, <2>1 DEF finish_when_depth_is_right
  <2>3. reached' = reached
    BY <2>2 DEF reached
  <2>4. phase' = "terminated" /\ phase # "terminated"
    BY <1>5 DEF Emit, MayEmit, ValueMayBegin
  <2>5. Feed(internal[i], e, FALSE).status = "failed"
    BY DEF Feed
  <2>6. \A j \in Elements : internal'[j].status = IF j = i THEN "failed"
                                                  ELSE internal[j].status
    BY <1>5, <2>1, <2>5
  <2>7. \A j \in Elements :
          j # reached => internal[j].status # "busy" /\ internal[j].status # "failed"
    BY DEF OneReads, HasRejected
  <2>8. QED
    <3>1. ASSUME NEW j \in Elements
          PROVE  /\ HasRejected(internal'[j]) => j = reached'
                 /\ internal'[j].status # "busy"
      <4>1. CASE j = i
        <5>1. internal'[j].status = "failed"
          BY <2>6, <4>1
        <5>2. j = reached'
          BY <1>5, <2>3, <4>1
        <5>3. QED
          BY <5>1, <5>2
      <4>2. CASE j # i
        <5>1. j # reached
          BY <1>5, <4>2
        <5>2. internal'[j].status = internal[j].status
          BY <2>6, <4>2
        <5>3. QED
          BY <2>7, <5>1, <5>2 DEF HasRejected
      <4>3. QED
        BY <4>1, <4>2
    <3>2. reached' \in 0..TupleSize
      BY <2>3 DEF OneReads
    <3>3. QED
      BY <2>4, <3>1, <3>2 DEF OneReads
<1>6. ASSUME NEW e \in Events, Forwarded(e), ~Alive'
      PROVE  OneReads'
  <2>1. ASSUME Emit(e, TRUE)
        PROVE  FALSE
    BY <1>6, <2>1 DEF Emit, Alive
  <2>2. QED
    BY <1>5, <1>6, <2>1 DEF Forwarded, Dropped
<1>7. ASSUME ~Alive', ChainEvent \/ StartArray \/ EndArray
      PROVE  OneReads'
  <2>1. ASSUME NEW e, Bracket(e)
        PROVE  FALSE
    BY <1>7, <2>1 DEF Bracket, Emit, Alive
  <2>2. CASE ChainEvent
    BY <1>6, <1>7, <2>2 DEF ChainEvent, Events, Starts, Ends
  <2>3. CASE StartArray
    BY <1>6, <1>7, <2>1, <2>3 DEF StartArray, Events, Starts, Ends
  <2>4. CASE EndArray
    BY <1>6, <1>7, <2>1, <2>4 DEF EndArray, Events, Starts, Ends
  <2>5. QED
    BY <1>7, <2>2, <2>3, <2>4
<1>8. CASE PrepareForReuse \/ RepeatedMember
  <2>1. Alive'
    BY <1>8 DEF PrepareForReuse, RepeatedMember, AnotherValue, Alive
  <2>2. QED
    BY <1>2, <2>1
<1>9. QED
  BY <1>2, <1>3, <1>4, <1>7, <1>8 DEF Next

(* What the elements note, they note in the middle of a value.             *)
LEMMA StepNoted == NotedInside /\ [Next]_vars => NotedInside'
<1>1. CASE Next
  BY <1>1 DEF Next, PartNotes, NotedInside
<1>2. CASE UNCHANGED vars
  BY <1>2 DEF vars, handlerVars, NotedInside
<1>3. QED
  BY <1>1, <1>2

(* The whole invariant.                                                    *)
ErrorInv == BusyIsOpen /\ OneReads /\ NotedInside /\ noted \in BOOLEAN

(* The initial states satisfy it.                                          *)
LEMMA InitErrors == Init => IInv /\ ErrorInv
<1>. SUFFICES ASSUME Init
              PROVE  IInv /\ ErrorInv
  OBVIOUS
<1>1. IInv
  BY InitInvariant
<1>2. BusyIsOpen
  BY DEF Init, OfEach, Fresh, BusyIsOpen
<1>3. Alive /\ noted = FALSE
  BY DEF Init, SourceInit, Alive
<1>4. QED
  BY <1>1, <1>2, <1>3, AliveReads DEF ErrorInv, NotedInside

(* Every step keeps it.                                                    *)
LEMMA StepErrors == IInv /\ ErrorInv /\ [Next]_vars => IInv' /\ ErrorInv'
<1>1. ASSUME noted \in BOOLEAN, [Next]_vars
      PROVE  noted' \in BOOLEAN
  BY <1>1 DEF Next, PartNotes, vars
<1>2. QED
  BY <1>1, StepInvariant, StepBusy, StepReads, StepNoted DEF ErrorInv

(* An error is that of the element an event would reach.                   *)
LEMMA ErrorsFound == IInv /\ ErrorInv => RejectionIsReported
<1>. SUFFICES ASSUME IInv, ErrorInv
              PROVE  RejectionIsReported
  OBVIOUS
<1>1. Refused => Error
  BY DEF Refused, HasRejected, Error, HasError
<1>2. phase = "terminated" => Error
  BY <1>1 DEF IInv, RejectionFound
<1>3. ASSUME NEW i \in Elements, HasError(internal[i])
      PROVE  i = reached /\ (phase = "terminated" \/ open # <<>>)
  BY <1>3 DEF HasError, ErrorInv, OneReads, HasRejected
<1>4. ASSUME Error, FromArray
      PROVE  reached = first + count
  <2>1. reached \in Elements
    BY <1>4, TupleAssumption DEF Error, ErrorInv, OneReads, Elements
  <2>2. CASE Refused
    BY <1>4, <2>2 DEF IInv, RejectionFound
  <2>3. CASE ~Refused
    BY <1>4, <2>1, <2>3
       DEF Error, Refused, HasError, HasRejected, ErrorInv, OneReads
  <2>4. QED
    BY <2>2, <2>3
<1>5. QED
  BY <1>2, <1>3, <1>4 DEF RejectionIsReported

(* ... also in the next state.                                             *)
LEMMA NextErrorsFound == IInv' /\ ErrorInv' => RejectionIsReported'
  BY ErrorsFound, PTL

(* The error is one of the elements'.                                      *)
LEMMA SomeElementHasIt ==
  ErrorInv /\ Error => \E i \in Elements : HasError(internal[i])
<1>. SUFFICES ASSUME ErrorInv, Error
              PROVE  \E i \in Elements : HasError(internal[i])
  OBVIOUS
<1>1. reached \in Elements
  BY TupleAssumption DEF Error, ErrorInv, OneReads, Elements
<1>2. QED
  BY <1>1 DEF Error

(* ... also in the next state.                                             *)
LEMMA NextHasIt ==
  ErrorInv' /\ Error' => (\E i \in Elements : HasError(internal[i]))'
  BY SomeElementHasIt, PTL

(* A tuple whose elements keep the protocol keeps it: the element that     *)
(* holds an error is the one HasError() asks, before the step and after.   *)
LEMMA StepProtocol ==
  ASSUME IInv, ErrorInv, IInv', ErrorInv', PartNotes
  PROVE  ErrorProtocol(Error, Error', AsPart')
<1>1. RejectionIsReported /\ RejectionIsReported'
  BY ErrorsFound, NextErrorsFound
<1>2. phase' \in Phases
  BY DEF IInv, ChainTypeOK, SourceTypeOK
<1>3. /\ Error => \E i \in Elements : HasError(internal[i])
      /\ Error' => \E i \in Elements : HasError(internal[i])'
  BY SomeElementHasIt, NextHasIt
<1>4. \A i \in Elements :
        /\ HasError(internal[i]) => i = reached /\ Error
        /\ HasError(internal[i])' => i = reached' /\ Error'
  BY <1>1, TupleAssumption DEF RejectionIsReported, Error, Elements
<1>5. \A i \in Elements :
        /\ internal'[i].status = "failed" => phase' = "terminated"
        /\ internal'[i].status = "busy" => phase' \in {"reading", "malformed"}
  BY DEF ErrorInv, OneReads, HasRejected
<1>6. \A i \in Elements :
        ErrorProtocol(HasError(internal[i]), HasError(internal[i])',
                      internal'[i].status)
  BY DEF PartNotes
<1>7. CASE phase' = "terminated"
  <2>1. Error' /\ AsPart' = "failed"
    BY <1>1, <1>7 DEF RejectionIsReported, AsPart
  <2>2. QED
    BY <2>1 DEF ErrorProtocol
<1>8. CASE phase' \in {"waiting", "done"}
  <2>1. \A i \in Elements : ~HasError(internal[i]) /\ ~HasError(internal[i])'
    BY <1>5, <1>6, <1>8 DEF ErrorProtocol
  <2>2. ~Error /\ ~Error' /\ AsPart' \in {"fresh", "complete"}
    BY <1>3, <1>8, <2>1 DEF AsPart
  <2>3. QED
    BY <2>2 DEF ErrorProtocol
<1>9. CASE phase' \in {"reading", "malformed"}
  <2>1. \A i \in Elements :
          /\ HasError(internal[i]) => HasError(internal[i])'
          /\ HasError(internal[i])' => HasError(internal[i]) \/ AtKey
    BY <1>5, <1>6, <1>9 DEF ErrorProtocol
  <2>2. (Error => Error') /\ (Error' => Error \/ AtKey) /\ AsPart' = "busy"
    BY <1>3, <1>4, <1>9, <2>1 DEF AsPart
  <2>3. QED
    BY <2>2 DEF ErrorProtocol
<1>10. QED
  BY <1>2, <1>7, <1>8, <1>9 DEF Phases
-----------------------------------------------------------------------------
(* Type correctness, for every tuple size.                                 *)
THEOREM TypeCorrect == Spec => []TypeOK
<1>1. IInv /\ ErrorInv => TypeOK
  BY DEF IInv, ErrorInv, ChainTypeOK, TypeOK
<1>2. QED
  BY InitErrors, StepErrors, <1>1, PTL DEF Spec

(* The elements of the tuple are filled in order, each by the JSON element *)
(* at its own position and by no other, however many elements either has   *)
(* and whatever is nested in them; a value that is no array is all the     *)
(* first element's (finish_when_depth_is_right).         *)
THEOREM PrefixMatching == Spec => []PrefixMatched
  BY InitInvariant, StepInvariant, InvariantMeansMatched, PTL DEF Spec

(* Each element's handler sees exactly the events of its own JSON element, *)
(* and total_depth is what it has open.                                    *)
THEOREM Isolation == Spec => []ElementIsolated
<1>1. IInv => ElementIsolated
  BY DEF IInv
<1>2. QED
  BY InitInvariant, StepInvariant, <1>1, PTL DEF Spec

(* A rejection is reported by the tuple, and what an element holds as an   *)
(* error is the error HasError() and ReapError() find, at its position,    *)
(* whether it was rejected or only noted by a class inside the element.    *)
THEOREM RejectionReported == Spec => []RejectionIsReported
  BY InitErrors, StepErrors, ErrorsFound, PTL DEF Spec

(* A tuple whose elements keep the error protocol keeps it towards what    *)
(* encloses it: an error noted by an element is the tuple's at once and    *)
(* stays, and a value that is accepted leaves none.                        *)
THEOREM ProtocolKept == Spec => KeepsErrorProtocol
<1>1. IInv /\ ErrorInv /\ [Next]_vars
        => [ErrorProtocol(Error, Error', AsPart')]_vars
  BY StepErrors, StepProtocol DEF Next
<1>2. QED
  BY InitErrors, StepErrors, <1>1, PTL DEF Spec, KeepsErrorProtocol
=============================================================================
