----------------------------- MODULE TupleHandler -----------------------------
(***************************************************************************)
(* SAXEventHandler<std::tuple<...>> (tuple_types.hpp): a chain of handlers *)
(* by inheritance, one per element.  An event goes down the chain to the   *)
(* first handler that is not finished; past the last one it is dropped.    *)
(* The most derived class takes the brackets of the JSON array away.       *)
(***************************************************************************)
EXTENDS AbstractHandler

CONSTANT TupleSize

ASSUME TupleAssumption == TupleSize \in Nat \ {0}

VARIABLES
  array_depth,
  internal,     (* per element, its handler                                *)
  total_depth,  (* per element                                             *)
  finished,     (* per element                                             *)
  written,      (* per element of the user's tuple, the positions of the   *)
                (* JSON elements whose events reached it                   *)
  root,         (* history: the first event of this JSON value             *)
  first         (* history: elements finished when this value began        *)

handlerVars ==
  <<array_depth, internal, total_depth, finished, written, root, first>>
vars == <<sourceVars, handlerVars, noted>>

Elements == 0..TupleSize-1
Untouched == {}

(* The handlers an event of the chain skips, and the one it reaches: the   *)
(* base class TupleSAXEventHandler<Tuple, TupleSize, TupleSize> is at the  *)
(* end of the chain.                                                       *)
reached ==
  CHOOSE i \in 0..TupleSize :
    /\ i < TupleSize => ~finished[i]
    /\ \A j \in Elements : j < i => finished[j]

(* Mutant: an element is finished by its first accepted event.             *)
finish_at_first_event(i, depth, ok) ==
  finished' = [finished EXCEPT ![i] = @ \/ ok]

(* Mutant: an element is finished by a refused event too.                  *)
finish_when_refused(i, depth, ok) ==
  finished' = [finished EXCEPT ![i] = @ \/ depth = 0]

finish_when_depth_is_right(i, depth, ok) ==
  finished' = [finished EXCEPT ![i] = @ \/ (ok /\ depth = 0)]

DepthAfter(i, e) ==
  total_depth[i] + IF e \in Starts THEN 1 ELSE IF e \in Ends THEN -1 ELSE 0

(* The base class at the end of the chain accepts everything.              *)
Dropped(e) ==
  /\ reached = TupleSize
  /\ Emit(e, TRUE)
  /\ UNCHANGED <<internal, total_depth, finished, written>>

(* TupleSAXEventHandler's method for e.  Start events are not followed by  *)
(* finish_when_depth_is_right, where it would find a depth above 0.        *)
Forwarded(e) ==
  \/ Dropped(e)
  \/ \E i \in Elements, ok \in BOOLEAN :
       /\ i = reached
       /\ Emit(e, ok)
       /\ internal' = [internal EXCEPT ![i] = Feed(@, e, ok)]
       /\ total_depth' = [total_depth EXCEPT ![i] = DepthAfter(i, e)]
       /\ written' = [written EXCEPT ![i] = @ \cup {count}]
       /\ finish_when_depth_is_right(i, DepthAfter(i, e), ok)

Began(e) == root' = IF phase = "waiting" THEN e ELSE root

(* Mutant: HasError() asks the first element only.                         *)
Error_OfFirst == HasError(internal[0])

(* HasError() and ReapError() go down the chain like an event.             *)
Error == reached < TupleSize /\ HasError(internal[reached])

-----------------------------------------------------------------------------

OfEach(x) == [i \in Elements |-> x]

Init ==
  /\ SourceInit
  /\ array_depth = 0
  /\ internal = OfEach(Fresh)
  /\ noted = FALSE
  /\ total_depth = OfEach(0)
  /\ finished = OfEach(FALSE)
  /\ written = OfEach(Untouched)
  /\ root = "none"
  /\ first = 0

(* Null, Bool, ... String, Key, StartObject and EndObject, which the most  *)
(* derived class inherits from the chain.                                  *)
ChainEvent ==
  \E e \in {"Scalar", "Key", "StartObject", "EndObject"} :
    /\ Forwarded(e)
    /\ Began(e)
    /\ UNCHANGED <<array_depth, first>>

(* The array's own bracket stops here.                                     *)
Bracket(e) ==
  /\ Emit(e, TRUE)
  /\ UNCHANGED <<internal, total_depth, finished, written>>

StartArray ==
  /\ array_depth' = array_depth + 1
  /\ \/ array_depth' > 1 /\ Forwarded("StartArray")
     \/ array_depth' <= 1 /\ Bracket("StartArray")
  /\ Began("StartArray")
  /\ UNCHANGED first

EndArray ==
  /\ array_depth' = array_depth - 1
  /\ \/ array_depth > 1 /\ Forwarded("EndArray")
     \/ array_depth <= 1 /\ Bracket("EndArray")
  /\ UNCHANGED <<root, first>>

SyntaxError ==
  /\ Malformed
  /\ UNCHANGED handlerVars

(* Mutant: the chain is not prepared.                                      *)
PrepareForReuse_OuterOnly ==
  /\ AnotherValue
  /\ array_depth' = 0
  /\ written' = OfEach(Untouched)
  /\ root' = "none"
  /\ first' = 0
  /\ UNCHANGED <<internal, total_depth, finished>>

(* An enclosing container takes the tuple, resets it and prepares the      *)
(* handler, which prepares the whole chain.                                *)
PrepareForReuse ==
  /\ AnotherValue
  /\ array_depth' = 0
  /\ internal' = OfEach(Fresh)
  /\ total_depth' = OfEach(0)
  /\ finished' = OfEach(FALSE)
  /\ written' = OfEach(Untouched)
  /\ root' = "none"
  /\ first' = 0

(* A class handler meets the key of this member once more: no reset.  The  *)
(* positions of the new array are counted from 0 again.                    *)
RepeatedMember ==
  /\ AnotherValue
  /\ written' = OfEach(Untouched)
  /\ root' = "none"
  /\ first' = reached
  /\ UNCHANGED <<array_depth, internal, total_depth, finished>>

(* What the elements' handlers may note in a step.                         *)
PartNotes ==
  /\ noted' \in BOOLEAN
  /\ noted' => \E i \in Elements : internal'[i].status = "busy"
  /\ \A i \in Elements :
       ErrorProtocol(HasError(internal[i]), HasError(internal[i])',
                     internal'[i].status)

Next ==
  /\ \/ ChainEvent
     \/ StartArray
     \/ EndArray
     \/ SyntaxError
     \/ PrepareForReuse
     \/ RepeatedMember
  /\ PartNotes

Spec == Init /\ [][Next]_vars
-----------------------------------------------------------------------------

TypeOK ==
  /\ SourceTypeOK
  /\ array_depth \in Nat
  /\ internal \in [Elements -> Handlers]
  /\ noted \in BOOLEAN
  /\ total_depth \in [Elements -> Nat]
  /\ finished \in [Elements -> BOOLEAN]
  /\ written \in [Elements -> SUBSET Nat]
  /\ root \in Events \cup {"none"}
  /\ first \in 0..TupleSize

Alive == phase \in {"waiting", "reading", "done"}
FromArray == root \in {"none", "StartArray"}

(* The prefix of a JSON array is matched: the first elements of the tuple  *)
(* hold the first elements of the array, each made of the events of its    *)
(* own JSON element, the tuple's remaining elements are untouched and the  *)
(* array's remaining elements are dropped.  (After a repeated member, the  *)
(* tuple's elements that an earlier value filled are skipped.)  A value    *)
(* that is no array is not refused: all of it, whatever it contains, is    *)
(* the first element's, which it finishes only when it ends.               *)
PrefixMatched ==
  /\ Alive /\ FromArray =>
       \A i \in Elements :
         /\ finished[i] <=> i < first + count
         /\ i < first => written[i] = Untouched
         /\ i \in first .. first + count - 1 => written[i] = {i - first}
         /\ i > first + count => written[i] = Untouched
  /\ Alive /\ ~FromArray =>
       \A i \in Elements :
         /\ finished[i] <=> i < first \/ (i = first /\ phase = "done")
         /\ i # first => written[i] = Untouched

(* The element's handler sees the events of its JSON element and nothing   *)
(* else, and its depth is the number of containers that element has open.  *)
ElementIsolated ==
  Alive /\ FromArray =>
    \A i \in Elements :
      /\ total_depth[i] = Len(internal[i].fed)
      /\ internal[i].fed = IF i = first + count /\ Len(open) > 1 THEN Tail(open)
                           ELSE <<>>

(* A rejection is reported, and an error is never another element's than   *)
(* the one HasError() and ReapError() find, nor one of an element that is  *)
(* not being read: the index in the ArrayElementError is the position in   *)
(* the JSON array, after a repeated member plus the elements already       *)
(* filled.                                                                 *)
RejectionIsReported ==
  /\ phase = "terminated" => Error
  /\ \A i \in Elements :
       HasError(internal[i]) =>
         /\ i = reached
         /\ phase = "terminated" \/ open # <<>>
  /\ Error /\ FromArray => reached = first + count

(* The tuple keeps the protocol it takes for granted of its elements: what *)
(* an element notes is the tuple's error at once and until the parse ends, *)
(* and none is left when the value is accepted.                            *)
KeepsErrorProtocol == [][ErrorProtocol(Error, Error', AsPart')]_vars
=============================================================================
