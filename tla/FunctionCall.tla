---------------------------- MODULE FunctionCall ----------------------------
(***************************************************************************)
(* A function as its author sees it: a body that is written, and then      *)
(* called, so that its events happen in the order the source gives them.   *)
(* The code that ControlFlow builds is held against this.                  *)
(***************************************************************************)
EXTENDS FunctionBody

VARIABLES body, running, last

Init == body = <<>> /\ running = FALSE /\ last = Start

\* The function is being written: nothing is performed.
Write ==
  /\ ~running
  /\ body' \in Seq(Token)
  /\ UNCHANGED <<running, last>>

Call ==
  /\ ~running
  /\ running' = TRUE
  /\ UNCHANGED <<body, last>>

Perform ==
  /\ running
  /\ ~Returned(body, last)
  /\ LET i == After(body, last)
     IN \E yes \in Outcomes(body, i) : last' = Performed(last, i, yes)
  /\ UNCHANGED <<body, running>>

Next == Write \/ Call \/ Perform

Safety == Init /\ [][Next]_<<body, running, last>>

\* A call that has begun goes on until it returns.
Progress == WF_<<body, running, last>>(Perform)

Spec == Safety /\ Progress
=============================================================================
