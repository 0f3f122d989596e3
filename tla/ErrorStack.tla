------------------------------ MODULE ErrorStack ------------------------------
(***************************************************************************)
(* error::ErrorStack (error.hpp): an intrusive singly linked list that     *)
(* owns its errors, and the storage the errors live in.  The module is     *)
(* passive: its operators are steps of the code in Program that uses it.   *)
(***************************************************************************)
EXTENDS Integers, Sequences, FiniteSets, Functions

CONSTANTS
  MaxErrors,   (* bound: error objects alive at once                       *)
  Stacks       (* the ErrorStack objects                                   *)

ASSUME ErrorStackAssumption == MaxErrors \in Nat \ {0}

VARIABLES
  heap,        (* the error object at an address, or Freed                 *)
  next,        (* ErrorBase::next of that object                           *)
  head,        (* of each stack                                            *)
  m_size,
  released,    (* addresses the caller of pop() has to delete              *)
  fault        (* freed storage was read or deleted                        *)

errorStackVars == <<heap, next, head, m_size, released, fault>>

Addresses == 1..MaxErrors
Null == 0
Pointers == Addresses \cup {Null}

Freed == [type |-> "freed"]

(* What operator new returns; which free address it is does not matter.    *)
FreeAddresses == {a \in Addresses : heap[a] = Freed}
NewAddress == CHOOSE a \in FreeAddresses : \A b \in FreeAddresses : a <= b

(* begin() and n times operator++ of the const_iterator, until end().      *)
Position(s) ==
  LET at[n \in 0..MaxErrors] ==
        IF n = 0 THEN head[s]
        ELSE IF at[n - 1] = Null THEN Null ELSE next[at[n - 1]]
  IN  at

(* The addresses an iteration visits in order; one more than there can be  *)
(* when the list has a cycle.                                              *)
Visited(s) ==
  LET at == Position(s)
  IN  [n \in 1..Cardinality({k \in 0..MaxErrors : at[k] # Null}) |-> at[n - 1]]

Contents(s) ==
  LET visited == Visited(s)
  IN  [n \in DOMAIN visited |-> heap[visited[n]]]

empty(s) == head[s] = Null

-----------------------------------------------------------------------------

ErrorStackInit ==
  /\ heap = [a \in Addresses |-> Freed]
  /\ next = [a \in Addresses |-> Null]
  /\ head = [s \in Stacks |-> Null]
  /\ m_size = [s \in Stacks |-> 0]
  /\ released = {}
  /\ fault = FALSE

(* Mutant: head is assigned before it is read.                             *)
push_HeadFirst(s, e) ==
  LET a == NewAddress
  IN  /\ FreeAddresses # {}
      /\ heap' = [heap EXCEPT ![a] = e]
      /\ next' = [next EXCEPT ![a] = a]
      /\ head' = [head EXCEPT ![s] = a]
      /\ m_size' = [m_size EXCEPT ![s] = @ + 1]
      /\ UNCHANGED <<released, fault>>

(* push(): e is the object a handler has released.                         *)
push(s, e) ==
  LET a == NewAddress
  IN  /\ FreeAddresses # {}
      /\ heap' = [heap EXCEPT ![a] = e]
      /\ next' = [next EXCEPT ![a] = head[s]]
      /\ head' = [head EXCEPT ![s] = a]
      /\ m_size' = [m_size EXCEPT ![s] = @ + 1]
      /\ UNCHANGED <<released, fault>>

(* Mutant: head is not moved on.                                           *)
pop_KeepsHead(s) ==
  /\ ~empty(s)
  /\ m_size' = [m_size EXCEPT ![s] = @ - 1]
  /\ released' = released \cup {head[s]}
  /\ UNCHANGED <<heap, next, head, fault>>

(* pop() of a stack that is not empty: next of the object is left alone.   *)
pop(s) ==
  /\ ~empty(s)
  /\ head' = [head EXCEPT ![s] = next[@]]
  /\ m_size' = [m_size EXCEPT ![s] = @ - 1]
  /\ released' = released \cup {head[s]}
  /\ fault' = (fault \/ heap[head[s]] = Freed)
  /\ UNCHANGED <<heap, next>>

(* The caller of pop() deletes what it got.                                *)
delete(a) ==
  /\ a \in released
  /\ released' = released \ {a}
  /\ heap' = [heap EXCEPT ![a] = Freed]
  /\ next' = [next EXCEPT ![a] = Null]
  /\ fault' = (fault \/ heap[a] = Freed)
  /\ UNCHANGED <<head, m_size>>

swap(s, t) ==
  /\ head' = [head EXCEPT ![s] = head[t], ![t] = head[s]]
  /\ m_size' = [m_size EXCEPT ![s] = m_size[t], ![t] = m_size[s]]
  /\ UNCHANGED <<heap, next, released, fault>>

(* One turn of the loop in ~ErrorStack(); m_size is not counted down.      *)
destroy_head(s) ==
  /\ ~empty(s)
  /\ head' = [head EXCEPT ![s] = next[@]]
  /\ heap' = [heap EXCEPT ![head[s]] = Freed]
  /\ next' = [next EXCEPT ![head[s]] = Null]
  /\ fault' = (fault \/ heap[head[s]] = Freed)
  /\ UNCHANGED <<m_size, released>>

(* ErrorStack(): a new object where the old one is gone.                   *)
construct(s) ==
  /\ head' = [head EXCEPT ![s] = Null]
  /\ m_size' = [m_size EXCEPT ![s] = 0]
  /\ UNCHANGED <<heap, next, released, fault>>

-----------------------------------------------------------------------------

(* heap holds the records the user of the module pushes.                   *)
ErrorStackTypeOK ==
  /\ DOMAIN heap = Addresses
  /\ next \in [Addresses -> Pointers]
  /\ head \in [Stacks -> Pointers]
  /\ m_size \in [Stacks -> Nat]
  /\ released \in SUBSET Addresses
  /\ fault \in BOOLEAN

(* Every error that is alive belongs to one stack, at one place, or to the *)
(* caller of pop(): none is leaked, none is owned twice, no list has a     *)
(* cycle or reaches freed storage.                                         *)
OwnedOnce ==
  LET visited == [s \in Stacks |-> Visited(s)]
      owners(a) == {s \in Stacks : a \in Range(visited[s])}
  IN  /\ \A s \in Stacks : IsInjective(visited[s])
      /\ \A a \in Addresses :
           IF heap[a] = Freed THEN owners(a) = {} /\ a \notin released
           ELSE Cardinality(owners(a)) = (IF a \in released THEN 0 ELSE 1)
=============================================================================
