---------------------------- MODULE AbstractHandler ----------------------------
(***************************************************************************)
(* What a composite handler can rely on from the handler of its element,   *)
(* its mapped value or its member (its part), whatever the C++ type is.    *)
(* The verdict on an event is left to the environment; what is remembered  *)
(* is the protocol: which containers the events fed to it have opened, and *)
(* whether it is freshly prepared, in the middle of a value, has had one   *)
(* complete value, or has rejected an event.                               *)
(*                                                                         *)
(* A part may hold an error without having rejected anything: the handler  *)
(* of a class with no_duplicates notes a repeated key, accepts the key and *)
(* refuses the end of the object, and handlers of tuples, pointers and     *)
(* optionals answer HasError() with what is inside them.  ErrorProtocol is *)
(* all a composite assumes of its part, and what it shows to be one.       *)
(***************************************************************************)
EXTENDS JsonSource

VARIABLE noted    (* the part in the middle of a value holds an error      *)

Statuses == {"fresh", "busy", "complete", "failed"}

Handlers == [fed : Seq(Kinds), status : Statuses]

(* A new handler, and a handler after PrepareForReuse().                   *)
Fresh == [fed |-> <<>>, status |-> "fresh"]

(* The handler is given event e and returns ok.  An accepted event in the  *)
(* middle of a value may also leave an error noted.                        *)
Feed(h, e, ok) ==
  [fed    |-> After(h.fed, e),
   status |-> IF ~ok THEN "failed"
              ELSE IF After(h.fed, e) = <<>> THEN "complete" ELSE "busy"]

HasError(h) == h.status = "failed" \/ (h.status = "busy" /\ noted)

(* A key has been read and accepted.                                       *)
AtKey == keyed' /\ phase' = "reading"

(* HasError() before and after a step to a status: a rejection leaves an   *)
(* error.  In the middle of a value one can appear at an accepted key, and *)
(* it stays.  A value that ends without a rejection had none.              *)
ErrorProtocol(before, after, status) ==
  CASE status = "failed" -> after
    [] status = "busy"   -> (before => after) /\ (after => before \/ AtKey)
    [] OTHER             -> ~before /\ ~after

(* A composite as the part of another: the status its own value gives it.  *)
AsPart ==
  CASE phase = "waiting"    -> "fresh"
    [] phase = "done"       -> "complete"
    [] phase = "terminated" -> "failed"
    [] OTHER                -> "busy"
=============================================================================
