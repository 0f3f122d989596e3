--------------------------------- MODULE Lifo ---------------------------------
(***************************************************************************)
(* What utility::stack promises, and what the handlers that keep a stack   *)
(* of open containers rely on: the operations of std::stack, with clear(). *)
(***************************************************************************)
EXTENDS Sequences, SequencesExt

CONSTANT Values

VARIABLE items      (* the top is the last element                         *)

Init == items = <<>>

Push(v) == items' = Append(items, v)

Pop == items # <<>> /\ items' = Front(items)

Clear == items' = <<>>

Next == Pop \/ Clear \/ \E v \in Values : Push(v)

Spec == Init /\ [][Next]_items
=============================================================================
