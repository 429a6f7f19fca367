---------------------------- MODULE ControlFlow -----------------------------
(***************************************************************************)
(* How buildTabithaFunction, buildBlock, buildConditional, buildBranch and *)
(* buildLoop turn the body of a function into LLVM basic blocks, and a     *)
(* call of the function that was built.                                    *)
(*                                                                         *)
(* The body is chosen token by token as the builder comes to it.  "open"   *)
(* is the chain of calls of the C++ functions: one frame for every         *)
(* statement whose blocks are being built, with the basic blocks that the  *)
(* C++ function holds in its local variables.  The statements that only    *)
(* emit instructions into the current block are one token, "do"; the       *)
(* expressions they evaluate are one "eval" instruction.                   *)
(***************************************************************************)
EXTENDS FunctionBody

CONSTANT MaxTokens      \* bound on the length of a body

ASSUME MaxTokensAssumption == MaxTokens \in Nat

VARIABLES
  body,      \* the tokens written so far
  running,   \* the function has been called
  last,      \* the last event of the call
  open,      \* the statements being built, innermost last
  blocks,    \* the basic blocks of the function, in the order of their creation
  insert,    \* the block of the builder's insert point
  phase,     \* building, built, run, or ended by a crash of the compiler
  pc,        \* the next instruction of the call
  stack,     \* the storage on the call's stack: 0 is the frame, i the elements of declaration i
  saved      \* what "llvm.stacksave" returned: 0 for the function, i for loop i

built == <<body, open, blocks, insert>>
called == <<running, last, pc, stack, saved>>
vars == <<built, phase, called>>

Terminators == {"br", "condbr", "ret"}

Instruction ==
  [op : Terminators \cup {"eval", "alloca", "save", "restore"}, at : Nat, yes : Nat, no : Nat]

Plain(op, at) == [op |-> op, at |-> at, yes |-> 0, no |-> 0]
Br(b) == [op |-> "br", at |-> 0, yes |-> b, no |-> 0]
CondBr_swapped(at, b, c) == [op |-> "condbr", at |-> at, yes |-> c, no |-> b]
CondBr(at, b, c) == [op |-> "condbr", at |-> at, yes |-> b, no |-> c]

\* The stack goes back to where it was when the function was entered.
GiveBack_none == <<>>
GiveBack == <<Plain("restore", 0)>>

\* A statement whose blocks are being built: "at" is its last token so far, "eval" the
\* block that evaluates its condition, "start" the block that the condition guards, "dones"
\* the blocks in which the finished twigs of a branch ended.  A frame of kind "branch" is
\* a branch between two of its twigs.
Frame ==
  [kind : {"if", "loop", "block", "branch", "twig", "otherwise"},
   at : Nat, eval : Nat, start : Nat, dones : SUBSET Nat]

\* getTerminator(): the last instruction of the block is a terminator.
Terminated(code) == code # <<>> /\ code[Len(code)].op \in Terminators

New(bs) == Append(bs, <<>>)
Emit(bs, b, code) == [bs EXCEPT ![b] = @ \o code]
EmitIfOpen_always(bs, b, code) == Emit(bs, b, code)
EmitIfOpen(bs, b, code) == IF Terminated(bs[b]) THEN bs ELSE Emit(bs, b, code)

Here == Len(body) + 1
Top == open[Len(open)]
Below == SubSeq(open, 1, Len(open) - 1)

Written(kind, to, reads) == Append(body, [kind |-> kind, to |-> to, reads |-> reads])

\* The token continues or ends the statement on top.
Linked(kind, to) == [Written(kind, to, 0) EXCEPT ![Top.at].to = Here]

\* The declarations that are in scope: every block around them is still open.
Visible ==
  {d \in DOMAIN body : body[d].kind = "let"
     /\ ~ \E j \in 1 .. d - 1 : body[j].kind \notin {"branch", "end"} /\ body[j].to > d}

Room == Len(body) + Len(open) < MaxTokens

InBlock == phase = "build" /\ (open # <<>> => Top.kind # "branch")
Between == phase = "build" /\ open # <<>> /\ Top.kind = "branch"
InBlockOf(kind) == phase = "build" /\ open # <<>> /\ Top.kind = kind

Opened(kind, eval, start) ==
  [kind |-> kind, at |-> Here, eval |-> eval, start |-> start, dones |-> {}]
-----------------------------------------------------------------------------
\* buildTabithaFunction up to the body: the block that saves the stack and allocates the
\* arguments and the variables of all blocks, and the entry block.
Init ==
  /\ body = <<>>
  /\ open = <<>>
  /\ blocks = << <<Plain("save", 0), Plain("alloca", 0), Br(2)>>, <<>> >>
  /\ insert = 2
  /\ phase = "build"
  /\ running = FALSE
  /\ last = Start
  /\ pc = [block |-> 1, index |-> 1]
  /\ stack = <<>>
  /\ saved = [i \in 0 .. MaxTokens |-> 0]

BuildSimple ==
  /\ InBlock /\ Room
  /\ \E d \in Visible \cup {0} : body' = Written("do", 0, d)
  /\ blocks' = Emit(blocks, insert, <<Plain("eval", Here)>>)
  /\ UNCHANGED <<open, insert, phase, called>>

\* A declaration of a vector or a table allocates its elements where it stands.
BuildDeclaration ==
  /\ InBlock /\ Room
  /\ body' = Written("let", 0, 0)
  /\ blocks' = Emit(blocks, insert, <<Plain("alloca", Here), Plain("eval", Here)>>)
  /\ UNCHANGED <<open, insert, phase, called>>

BuildReturn ==
  /\ InBlock /\ Room
  /\ \E d \in Visible \cup {0} : body' = Written("ret", 0, d)
  /\ blocks' = Emit(blocks, insert, GiveBack \o <<Plain("eval", Here), Plain("ret", Here)>>)
  /\ UNCHANGED <<open, insert, phase, called>>

\* A return without an expression: buildExpression follows a null pointer.
BuildBareReturn ==
  /\ InBlock /\ Room
  /\ phase' = "crashed"
  /\ UNCHANGED <<built, called>>

OpenBlock ==
  /\ InBlock /\ Room
  /\ body' = Written("block", 0, 0)
  /\ open' = Append(open, Opened("block", 0, 0))
  /\ UNCHANGED <<blocks, insert, phase, called>>

CloseBlock ==
  /\ InBlockOf("block")
  /\ body' = Linked("end", 0)
  /\ open' = Below
  /\ UNCHANGED <<blocks, insert, phase, called>>

OpenConditional ==
  /\ InBlock /\ Room
  /\ LET eval == Len(blocks) + 1
         start == Len(blocks) + 2
     IN /\ blocks' = New(Emit(New(Emit(blocks, insert, <<Br(eval)>>)), eval, <<Plain("eval", Here)>>))
        /\ insert' = start
        /\ open' = Append(open, Opened("if", eval, start))
  /\ body' = Written("if", 0, 0)
  /\ UNCHANGED <<phase, called>>

CloseConditional ==
  /\ InBlockOf("if")
  /\ LET end == Len(blocks) + 1
         closed == EmitIfOpen(New(blocks), insert, <<Br(end)>>)
     IN /\ blocks' = Emit(closed, Top.eval, <<CondBr(Top.at, Top.start, end)>>)
        /\ insert' = end
  /\ body' = Linked("end", 0)
  /\ open' = Below
  /\ UNCHANGED <<phase, called>>

OpenBranch ==
  /\ InBlock /\ Room
  /\ body' = Written("branch", 0, 0)
  /\ open' = Append(open, Opened("branch", 0, 0))
  /\ UNCHANGED <<blocks, insert, phase, called>>

\* The condition is evaluated in the current block.
OpenTwig ==
  /\ Between /\ Room
  /\ LET start == Len(blocks) + 1
     IN /\ blocks' = Emit(New(blocks), insert, <<Plain("eval", Here)>>)
        /\ insert' = start
        /\ open' = Append(Below, [Opened("twig", insert, start) EXCEPT !.dones = Top.dones])
  /\ body' = Linked("twig", 0)
  /\ UNCHANGED <<phase, called>>

\* The twig is done; the branch goes on in the block for a condition that failed.
CloseTwig ==
  /\ InBlockOf("twig")
  /\ LET end == Len(blocks) + 1
     IN /\ blocks' = Emit(New(blocks), Top.eval, <<CondBr(Top.at, Top.start, end)>>)
        /\ insert' = end
  /\ open' = Append(Below, [Top EXCEPT !.kind = "branch", !.dones = @ \cup {insert}])
  /\ UNCHANGED <<body, phase, called>>

OpenOtherwise ==
  /\ Between /\ Room
  /\ LET start == Len(blocks) + 1
     IN /\ blocks' = Emit(New(blocks), insert, <<Br(start)>>)
        /\ insert' = start
        /\ open' = Append(Below, [Opened("otherwise", 0, 0) EXCEPT !.dones = Top.dones])
  /\ body' = Linked("otherwise", 0)
  /\ UNCHANGED <<phase, called>>

Joined_ahead(bs, dones, from) ==
  LET joins(b) == b = from \/ (b \in dones /\ ~Terminated(bs[b]))
  IN New([b \in DOMAIN bs |-> IF joins(b) THEN bs[b] \o <<Br(Len(bs) + 2)>> ELSE bs[b]])

Joined_fromOnly(bs, dones, from) == New(Emit(bs, from, <<Br(Len(bs) + 1)>>))

\* Every block in dones that has no terminator, and the block "from", go to branch_end.
Joined(bs, dones, from) ==
  LET end == Len(bs) + 1
      joins(b) == b = from \/ (b \in dones /\ ~Terminated(bs[b]))
  IN New([b \in DOMAIN bs |-> IF joins(b) THEN bs[b] \o <<Br(end)>> ELSE bs[b]])

CloseBranch ==
  /\ Between
  /\ blocks' = Joined(blocks, Top.dones, insert)
  /\ insert' = Len(blocks) + 1
  /\ body' = Linked("end", 0)
  /\ open' = Below
  /\ UNCHANGED <<phase, called>>

\* The branch with an "otherwise" also gets an otherwise_end, which nothing reaches.
CloseOtherwise ==
  /\ InBlockOf("otherwise")
  /\ blocks' = Joined(New(blocks), Top.dones \cup {insert}, Len(blocks) + 1)
  /\ insert' = Len(blocks) + 2
  /\ body' = Linked("end", 0)
  /\ open' = Below
  /\ UNCHANGED <<phase, called>>

OpenLoop ==
  /\ InBlock /\ Room
  /\ LET eval == Len(blocks) + 1
         start == Len(blocks) + 2
         evaluated == Emit(New(Emit(blocks, insert, <<Br(eval)>>)), eval, <<Plain("eval", Here)>>)
     IN /\ blocks' = Emit(New(evaluated), start, <<Plain("save", Here)>>)
        /\ insert' = start
        /\ open' = Append(open, Opened("loop", eval, start))
  /\ body' = Written("loop", 0, 0)
  /\ UNCHANGED <<phase, called>>

\* The stack goes back to where it was when this round of the loop on top began.
RestoreRound_saves == <<Plain("save", Top.at)>>
RestoreRound_all == <<Plain("restore", 0)>>
RestoreRound == <<Plain("restore", Top.at)>>

CloseLoop ==
  /\ InBlockOf("loop")
  /\ LET restored == New(Emit(blocks, insert, RestoreRound))
         again == Len(blocks) + 1
         after == Len(blocks) + 2
         closed == EmitIfOpen(restored, insert, <<Br(again)>>)
     IN /\ blocks' = Emit(New(Emit(closed, again, <<Br(Top.eval)>>)), Top.eval,
                          <<CondBr(Top.at, Top.start, after)>>)
        /\ insert' = after
  /\ body' = Linked("end", Top.at)
  /\ open' = Below
  /\ UNCHANGED <<phase, called>>

\* The end of buildTabithaFunction: a body that does not return gets a return.
FinishFunction ==
  /\ phase = "build" /\ open = <<>>
  /\ blocks' = EmitIfOpen(blocks, insert, GiveBack \o <<Plain("ret", Here)>>)
  /\ phase' = "built"
  /\ UNCHANGED <<body, open, insert, called>>
-----------------------------------------------------------------------------
\* What verifyModule asks of a block: one terminator, at its end.  writeSlab calls it and
\* goes on whatever it answers; what LLVM makes of other blocks is not modelled, so that
\* only functions that it accepts are called.
WellFormed(code) ==
  Terminated(code) /\ \A i \in 1 .. Len(code) - 1 : code[i].op \notin Terminators

CallFunction ==
  /\ phase = "built"
  /\ \A b \in DOMAIN blocks : WellFormed(blocks[b])
  /\ phase' = "run"
  /\ running' = TRUE
  /\ UNCHANGED <<built, last, pc, stack, saved>>

Instr == blocks[pc.block][pc.index]
Running(op) == phase = "run" /\ Instr.op = op
Jump(b) == pc' = [block |-> b, index |-> 1]
Step == pc' = [pc EXCEPT !.index = @ + 1]

\* An expression is evaluated.  The one of a return has no effect of its own.
Evaluate ==
  /\ Running("eval")
  /\ IF body[Instr.at].kind = "ret" THEN last' = last
     ELSE \E yes \in Outcomes(body, Instr.at) : last' = Performed(last, Instr.at, yes)
  /\ Step
  /\ UNCHANGED <<built, phase, running, stack, saved>>

Allocate ==
  /\ Running("alloca")
  /\ stack' = Append(stack, Instr.at)
  /\ Step
  /\ UNCHANGED <<built, phase, running, last, saved>>

SaveStack ==
  /\ Running("save")
  /\ saved' = [saved EXCEPT ![Instr.at] = Len(stack)]
  /\ Step
  /\ UNCHANGED <<built, phase, running, last, stack>>

RestoreStack ==
  /\ Running("restore")
  /\ stack' = SubSeq(stack, 1, saved[Instr.at])
  /\ Step
  /\ UNCHANGED <<built, phase, running, last, saved>>

Branch ==
  /\ Running("br")
  /\ Jump(Instr.yes)
  /\ UNCHANGED <<built, phase, running, last, stack, saved>>

BranchIf ==
  /\ Running("condbr")
  /\ Jump(IF last.yes THEN Instr.yes ELSE Instr.no)
  /\ UNCHANGED <<built, phase, running, last, stack, saved>>

Return ==
  /\ Running("ret")
  /\ last' = Performed(last, Instr.at, TRUE)
  /\ phase' = "returned"
  /\ UNCHANGED <<built, running, pc, stack, saved>>
-----------------------------------------------------------------------------
Build ==
  \/ BuildSimple \/ BuildDeclaration \/ BuildReturn \/ BuildBareReturn
  \/ OpenBlock \/ CloseBlock \/ OpenConditional \/ CloseConditional
  \/ OpenBranch \/ OpenTwig \/ CloseTwig \/ OpenOtherwise \/ CloseOtherwise \/ CloseBranch
  \/ OpenLoop \/ CloseLoop \/ FinishFunction

Run ==
  \/ Evaluate \/ Allocate \/ SaveStack \/ RestoreStack \/ Branch \/ BranchIf \/ Return

Next == Build \/ CallFunction \/ Run

\* The builder and the called function go on as long as they can.
Spec == Init /\ [][Next]_vars /\ WF_vars(Next)
=============================================================================
