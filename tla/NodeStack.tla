------------------------------ MODULE NodeStack ------------------------------
(***************************************************************************)
(* utility::stack<T, num_elements_per_node> (utility.hpp): a stack kept as *)
(* a linked list of nodes of raw storage.  A node is allocated when the    *)
(* head is full and freed when a pop finds the head empty, so after a pop  *)
(* the head may hold nothing and the top is in the node behind it.         *)
(*                                                                         *)
(* A slot holds Raw while no object is constructed in it.  Constructing in *)
(* an occupied slot, destroying an object that does not exist and freeing  *)
(* a node with an object in it are undefined behaviour or leaks; fault     *)
(* records that one of them has happened.  What follows a null head is not *)
(* modelled: AssertProtects says whether the code can do so.               *)
(***************************************************************************)
EXTENDS Integers, Sequences, SequencesExt

CONSTANTS
  Values,
  Raw,                    (* storage without an object                     *)
  NumElementsPerNode,
  MaxSize                 (* bound: elements pushed at once                *)

ASSUME StackAssumption ==
  /\ Raw \notin Values
  /\ NumElementsPerNode \in Nat \ {0}
  /\ MaxSize \in Nat

VARIABLES
  nodes,                  (* the list behind head, head last               *)
  current_size,           (* slots of the head in use                      *)
  total_size,
  fault

stackVars == <<nodes, current_size, total_size, fault>>

Slots == 1..NumElementsPerNode
RawNode == [i \in Slots |-> Raw]

empty == total_size = 0

(* The node at the end of ns can be freed after its first size slots are   *)
(* destroyed: they hold an object and no other does.                       *)
FreesCleanly(node, size) == \A i \in Slots : node[i] # Raw <=> i <= size

StackInit ==
  /\ nodes = <<>>
  /\ current_size = NumElementsPerNode
  /\ total_size = 0
  /\ fault = FALSE

(* Mutant: an empty head that a pop has left is not used again.            *)
Push_IgnoresEmptyHead(v) ==
  LET grow == current_size \in {0, NumElementsPerNode}
      list == IF grow THEN Append(nodes, RawNode) ELSE nodes
      slot == IF grow THEN 1 ELSE current_size + 1
  IN  /\ total_size < MaxSize
      /\ nodes' = [list EXCEPT ![Len(list)][slot] = v]
      /\ current_size' = slot
      /\ total_size' = total_size + 1
      /\ fault' = (fault \/ list[Len(list)][slot] # Raw)

(* emplace() and the assignment that push() adds.                          *)
Push(v) ==
  LET grow == current_size = NumElementsPerNode
      list == IF grow THEN Append(nodes, RawNode) ELSE nodes
      slot == IF grow THEN 1 ELSE current_size + 1
  IN  /\ total_size < MaxSize
      /\ nodes' = [list EXCEPT ![Len(list)][slot] = v]
      /\ current_size' = slot
      /\ total_size' = total_size + 1
      /\ fault' = (fault \/ list[Len(list)][slot] # Raw)

(* pop(), which asserts that the stack is not empty.                       *)
Pop ==
  LET list == IF current_size = 0 THEN Front(nodes) ELSE nodes
      slot == IF current_size = 0 THEN NumElementsPerNode ELSE current_size
  IN  /\ ~empty
      /\ nodes # <<>>
      /\ nodes' = [list EXCEPT ![Len(list)][slot] = Raw]
      /\ current_size' = slot - 1
      /\ total_size' = total_size - 1
      /\ fault' = (fault \/ list[Len(list)][slot] = Raw
                         \/ (current_size = 0 /\ ~FreesCleanly(Last(nodes), 0)))

(* Mutant: every node is freed as if it were full.                         *)
Clear_AllFull ==
  /\ nodes' = <<>>
  /\ current_size' = NumElementsPerNode
  /\ fault' = (fault \/ \E n \in 1..Len(nodes) :
                          ~FreesCleanly(nodes[n], NumElementsPerNode))
  /\ UNCHANGED total_size

(* clear(): total_size is left as it is.                                   *)
Clear ==
  /\ nodes' = <<>>
  /\ current_size' = NumElementsPerNode
  /\ fault' = (fault \/ \E n \in 1..Len(nodes) :
                          ~FreesCleanly(nodes[n],
                                        IF n = Len(nodes) THEN current_size
                                        ELSE NumElementsPerNode))
  /\ UNCHANGED total_size

StackNext == Pop \/ Clear \/ \E v \in Values : Push(v)

StackSpec == StackInit /\ [][StackNext]_stackVars

(* The handlers call clear() from PrepareForReuse(), after a complete      *)
(* value, when their stack is empty (StackMirrorsText in VectorHandler and *)
(* MapHandler).                                                            *)
UsedNext == Pop \/ (empty /\ Clear) \/ \E v \in Values : Push(v)

UsedSpec == StackInit /\ [][UsedNext]_stackVars
-----------------------------------------------------------------------------

StackTypeOK ==
  /\ nodes \in Seq([Slots -> Values \cup {Raw}])
  /\ current_size \in 0..NumElementsPerNode
  /\ total_size \in Nat
  /\ fault \in BOOLEAN

(* Mutant: top() does not look behind an empty head.                       *)
top_slot_HeadOnly ==
  Last(nodes)[IF current_size > 0 THEN current_size ELSE NumElementsPerNode]

(* The slot top() returns: in the head, or in the node behind an empty     *)
(* head.                                                                   *)
top_slot ==
  IF current_size > 0 THEN Last(nodes)[current_size]
  ELSE nodes[Len(nodes) - 1][NumElementsPerNode]

(* The objects in the nodes, bottom first.                                 *)
Contents ==
  [i \in 1..total_size |->
     nodes[(i - 1) \div NumElementsPerNode + 1][((i - 1) % NumElementsPerNode) + 1]]

(* Objects live exactly below current_size in the head and everywhere in   *)
(* the nodes behind it, and no lifetime was ever violated.                 *)
LifetimesPaired ==
  /\ ~fault
  /\ \A n \in 1..Len(nodes) :
       FreesCleanly(nodes[n], IF n = Len(nodes) THEN current_size
                              ELSE NumElementsPerNode)

(* empty() is the truth, so that the assertion in top() and pop() protects *)
(* the slot they are about to use.                                         *)
AssertProtects == ~empty => nodes # <<>> /\ top_slot # Raw

(* std::stack's contract: what is on the stack, in which order, and what   *)
(* each operation does to it.                                              *)
Abstract == INSTANCE Lifo WITH items <- Contents
ImplementsLifo == Abstract!Spec
TopIsLast == ~empty => top_slot = Last(Contents)
=============================================================================
