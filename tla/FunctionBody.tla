---------------------------- MODULE FunctionBody ----------------------------
(***************************************************************************)
(* What the body of a Tabitha function means: the statements in the order  *)
(* of the source, and the order in which a call performs their effects.    *)
(*                                                                         *)
(* A body is a sequence of tokens, as in the source text.  A token that    *)
(* opens or continues a statement carries in "to" the position of the      *)
(* token that continues or ends it; the "end" of a loop carries the        *)
(* position of the loop, every other "end" 0.  "reads" is the position of  *)
(* the declaration whose storage the token's expressions read, or 0.       *)
(***************************************************************************)
EXTENDS Naturals, Sequences

Conditions == {"if", "loop", "twig"}

Kinds == Conditions \cup {"do", "let", "ret", "block", "branch", "otherwise", "end"}

Token == [kind : Kinds, to : Nat, reads : Nat]

\* A step of a call that can be observed: the effect of a simple statement, the
\* evaluation of a condition with its outcome, the return.  "turn" tells an event
\* from the next one when a loop repeats itself.
Event == [at : Nat, yes : BOOLEAN, turn : 0 .. 1]

Start == [at |-> 0, yes |-> TRUE, turn |-> 0]

\* Where control that arrives at a position performs its next event.  A twig or an
\* "otherwise" reached from the block before it ends the branch.
Reach(b) ==
  LET reach[i \in 1 .. Len(b) + 1] ==
        IF i > Len(b) THEN i
        ELSE IF b[i].kind \in {"do", "let", "ret", "if", "loop"} THEN i
        ELSE IF b[i].kind = "block" THEN reach[i + 1]
        ELSE IF b[i].kind = "branch"
             THEN IF b[i].to > Len(b) \/ b[b[i].to].kind = "twig" THEN b[i].to
                  ELSE reach[b[i].to + 1]
        ELSE IF b[i].kind # "end" THEN reach[b[i].to]
        ELSE IF b[i].to # 0 THEN b[i].to
        ELSE reach[i + 1]
  IN reach

\* The event after an event.  When a condition fails, the statement goes on with its
\* next twig, its "otherwise" or with what follows its end.
After(b, e) ==
  IF e.at = 0 \/ b[e.at].kind \notin Conditions \/ e.yes THEN Reach(b)[e.at + 1]
  ELSE IF b[b[e.at].to].kind = "twig" THEN b[e.at].to
  ELSE Reach(b)[b[e.at].to + 1]

Outcomes(b, i) == IF i <= Len(b) /\ b[i].kind \in Conditions THEN BOOLEAN ELSE {TRUE}

Returned(b, e) == e.at # 0 /\ (e.at > Len(b) \/ b[e.at].kind = "ret")

Performed(e, i, yes) == [at |-> i, yes |-> yes, turn |-> 1 - e.turn]
=============================================================================
