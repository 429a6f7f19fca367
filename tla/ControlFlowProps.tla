-------------------------- MODULE ControlFlowProps --------------------------
(***************************************************************************)
(* What the blocks built for a function and a call of it have to satisfy.  *)
(***************************************************************************)
EXTENDS ControlFlow

\* The parts of the model hold what they are meant to hold, and every reference from one
\* block to another is to a block of the function (build.cpp 484-563 and 1552-1685).
TypeOK ==
  /\ body \in Seq(Token)
  /\ open \in Seq(Frame)
  /\ blocks \in Seq(Seq(Instruction))
  /\ insert \in DOMAIN blocks
  /\ phase \in {"build", "built", "crashed", "run", "returned"}
  /\ running \in BOOLEAN
  /\ last \in Event
  /\ pc \in [block : DOMAIN blocks, index : Nat]
  /\ stack \in Seq(Nat)
  /\ saved \in [0 .. MaxTokens -> Nat]
  /\ \A b \in DOMAIN blocks : \A i \in DOMAIN blocks[b] :
       {blocks[b][i].yes, blocks[b][i].no} \subseteq 0 .. Len(blocks)

\* Whatever the body, each block of a finished function ends with a terminator: also the
\* blocks behind the twigs of a branch, behind an "otherwise" and behind loops, which the
\* builder leaves open until the statement is complete (build.cpp 546-563, 1552-1685).
BlocksTerminated ==
  phase \in {"built", "run", "returned"} => \A b \in DOMAIN blocks : Terminated(blocks[b])

\* Nothing is built for the braces of a nested block.
Brace(b, i) ==
  b[i].kind = "block" \/ (b[i].kind = "end" /\ \E j \in 1 .. i : b[j].kind = "block" /\ b[j].to = i)

\* Neither does a statement follow a return in its block, nor does a loop end with one.
Tidy(b) ==
  \A i, k \in DOMAIN b :
    (b[i].kind = "ret" /\ i < k /\ ~Brace(b, k) /\ \A j \in i + 1 .. k - 1 : Brace(b, j)) =>
      (b[k].kind \in {"twig", "otherwise", "end"} /\ b[k].to \notin 1 .. k - 1)

\* The blocks of a function are what LLVM's verifier asks for exactly when no statement
\* follows a return in its block and no loop ends with one: building such a function
\* appends instructions behind a terminator (build.cpp 264-266, 1573, 1663-1676).
VerifiedWhenTidy ==
  phase \in {"built", "run", "returned"} =>
    ((\A b \in DOMAIN blocks : WellFormed(blocks[b])) <=> Tidy(body))

\* What statements and conditions read is on the stack: the frame, and the elements of
\* every declaration that is in scope where they are read.  Only the expression of a
\* return is evaluated after the stack was given back (build.cpp 259-265, 270-280).
ReadsLiveStorage ==
  (phase = "run" /\ Instr.op = "eval" /\ body[Instr.at].kind # "ret") =>
    {0, body[Instr.at].reads} \subseteq {stack[i] : i \in DOMAIN stack}

\* However often a loop runs, a declaration has at most one piece of storage on the stack,
\* so that the stack of a call is bounded by its source (build.cpp 1663-1675).
OneStorePerDeclaration ==
  \A i, j \in DOMAIN stack : stack[i] = stack[j] => i = j

\* On every way out of the function, the stack is as it was before the call
\* (build.cpp 259-263 and 548-555).
StackGivenBack == phase = "returned" => stack = <<>>

\* The built code performs the events of the source in their order: the bodies of
\* conditionals, twigs and loops whose conditions hold, at most one block of a branch, a
\* loop again until its condition fails, and nothing after a return (build.cpp 251-396 and
\* 1552-1685).
Source == INSTANCE FunctionCall
ImplementsSource == Source!Safety

\* The built code never goes on for ever without performing the next event: the jumps that
\* only lead from block to block come to an end (build.cpp 1552-1685).
KeepsPerforming == Source!Progress
=============================================================================
