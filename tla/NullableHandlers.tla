---------------------------- MODULE NullableHandlers ----------------------------
(***************************************************************************)
(* The handlers of values that may be null: a std smart pointer            *)
(* (NullableHandler) or a boost::optional (OptionalHandler), under the     *)
(* same texts and with the same promises.                                  *)
(***************************************************************************)
EXTENDS NullableHandler

VARIABLE type        (* of the value: "pointer" or "optional"              *)

Optional == INSTANCE OptionalHandler

TypesInit ==
  /\ type \in {"pointer", "optional"}
  /\ Init

TypesNext ==
  /\ \/ type = "pointer" /\ Next
     \/ type = "optional" /\ Optional!Next /\ current' = Optional!InPlace'
  /\ UNCHANGED type

TypesSpec == TypesInit /\ [][TypesNext]_<<vars, type>>

(* A boost::optional, whose value lives in place and whose handler is      *)
(* written separately, behaves as the smart pointers do in every step.     *)
OptionalIsNullable == Init /\ [][Next]_vars
=============================================================================
