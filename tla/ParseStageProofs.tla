-------------------------- MODULE ParseStageProofs --------------------------
(***************************************************************************)
(* What success of the parse stage means, for any definitions, slabs and   *)
(* programs.                                                               *)
(*                                                                         *)
(* SuccessIsSound speaks of the end of the stage.  The invariant behind it *)
(* follows each parser: as long as nothing failed, the items before the    *)
(* one at which a parser is are resolved, and the functions that they call *)
(* are parsed (Before).  What parseBundle has visited is resolved in full, *)
(* or its parser is the outermost on the stack (Done).                     *)
(*                                                                         *)
(* That failures and crashes have a cause in the program is the second     *)
(* half: the parsers on the stack are a path from a visited name to the    *)
(* innermost one (Nested), so that where an item names what is not known   *)
(* yet, or the stack is too deep, the path is the cause.                   *)
(***************************************************************************)
EXTENDS ParseStageProps, SequenceTheorems, FiniteSetTheorems,
        WellFoundedInduction, TLAPS

Parsers == [name : Names, at : Nat \ {0}]

Before(d, n) ==
  \A i \in DOMAIN Body(d) :
    i < n => /\ Resolved(d, i)
             /\ Body(d)[i].kind \in Calls => Body(d)[i].of \in parsed

\* A parser waits for that of an alias only at an item that names the alias.
Waiting(parser) ==
  /\ parser.at \in DOMAIN Body(parser.name)
  /\ Resolved(parser.name, parser.at)
  /\ Body(parser.name)[parser.at].kind \notin Calls

Callers(s) ==
  \A k \in DOMAIN s :
    k > 1 /\ Class[s[k].name] = "alias" => Waiting(s[k - 1])

Claims(s) == \A k \in DOMAIN s : Before(s[k].name, s[k].at)

Complete(d) == \A i \in DOMAIN Body(d) :
  /\ Resolved(d, i)
  /\ Body(d)[i].kind \in Calls => Body(d)[i].of \in parsed

Done ==
  status # "fail" =>
    /\ Claims(stack)
    /\ \A d \in parsed : Complete(d)
    /\ phase \in {"running", "returned"} =>
         \A d \in program.present :
           d < next => Complete(d) \/ (stack # << >> /\ stack[1].name = d)

Ends ==
  /\ phase = "returned" => stack = << >> /\ next = Len(Class) + 1
  /\ status = "success" => phase = "returned"

IInv == TypeOK /\ Callers(stack) /\ Done /\ Ends

-----------------------------------------------------------------------------
(***************************************************************************)
(* The program and the innermost parser.                                   *)
(***************************************************************************)
LEMMA NamesAreNumbers ==
  /\ Len(Class) \in Nat
  /\ Names = 1 .. Len(Class)
BY ClassAssumption DEF Names

\* The items of a definition are typed.
LEMMA BodyIsTyped ==
  ASSUME program \in Programs, NEW d \in Names
  PROVE  /\ Body(d) \in Seq(Items)
         /\ Len(Body(d)) \in Nat
         /\ DOMAIN Body(d) = 1 .. Len(Body(d))
         /\ \A i \in DOMAIN Body(d) : Body(d)[i] \in Items
<1>1. program \in [present : SUBSET Names, attached : SUBSET (Nat \X Nat),
                   body : [Names -> Seq(Items)]]
  BY ProgramsAssumption
<1>2. Body(d) \in Seq(Items)
  BY <1>1 DEF Body
<1> QED BY <1>2

LEMMA PresentAreNames ==
  ASSUME program \in Programs
  PROVE  program.present \subseteq Names
<1>1. program \in [present : SUBSET Names, attached : SUBSET (Nat \X Nat),
                   body : [Names -> Seq(Items)]]
  BY ProgramsAssumption
<1> QED BY <1>1

LEMMA ParserIsTyped ==
  ASSUME TypeOK, stack # << >>
  PROVE  /\ Len(stack) \in Nat \ {0}
         /\ DOMAIN stack = 1 .. Len(stack)
         /\ Len(stack) \in DOMAIN stack
         /\ Parser \in Parsers
         /\ stack[Len(stack)] = Parser
         /\ Me \in program.present
         /\ Me \in Names
         /\ Parser.at \in Nat \ {0}
         /\ Parser.at <= Len(Body(Me)) + 1
<1>1. stack \in Seq(Parsers)
  BY DEF TypeOK, Parsers
<1>2. /\ Len(stack) \in Nat \ {0}
      /\ DOMAIN stack = 1 .. Len(stack)
      /\ Len(stack) \in DOMAIN stack
  BY <1>1
<1>3. stack[Len(stack)] \in Parsers
  BY <1>1, <1>2, ElementOfSeq
<1>4. stack[Len(stack)].name \in program.present
      /\ stack[Len(stack)].at <= Len(Body(stack[Len(stack)].name)) + 1
  BY <1>2 DEF TypeOK
<1> QED BY <1>2, <1>3, <1>4 DEF Parser, Me, Parsers

LEMMA ItemIsTyped ==
  ASSUME TypeOK, NEW kinds, AtItem(kinds)
  PROVE  /\ stack # << >>
         /\ phase = "running"
         /\ Parser.at \in DOMAIN Body(Me)
         /\ Parser.at + 1 \in 1 .. Len(Body(Me)) + 1
         /\ Item \in Items
         /\ Item.of \in Names
         /\ Item = Body(Me)[Parser.at]
<1>1. stack # << >> /\ phase = "running" /\ Parser.at <= Len(Body(Me))
  BY DEF AtItem
<1>2. Me \in Names /\ Parser.at \in Nat \ {0} /\ program \in Programs
  BY <1>1, ParserIsTyped DEF TypeOK
<1>3. /\ DOMAIN Body(Me) = 1 .. Len(Body(Me))
      /\ Len(Body(Me)) \in Nat
      /\ \A i \in DOMAIN Body(Me) : Body(Me)[i] \in Items
  BY <1>2, BodyIsTyped
<1>4. Parser.at \in DOMAIN Body(Me) /\ Parser.at + 1 \in 1 .. Len(Body(Me)) + 1
  BY <1>1, <1>2, <1>3
<1>5. Item \in Items
  BY <1>3, <1>4 DEF Item
<1> QED BY <1>1, <1>4, <1>5 DEF Item, Items

-----------------------------------------------------------------------------
(***************************************************************************)
(* What happens to the stack.                                              *)
(***************************************************************************)
StackOK(s) ==
  /\ s \in Seq(Parsers)
  /\ \A k \in DOMAIN s :
       /\ s[k].name \in program.present
       /\ s[k].at <= Len(Body(s[k].name)) + 1

Moved(s, p, n) == [s EXCEPT ![p].at = n]

\* The parser at place p of a stack moves to item n.
LEMMA MoveIsTyped ==
  ASSUME program \in Programs, NEW s, StackOK(s), NEW p \in DOMAIN s,
         NEW n \in 1 .. Len(Body(s[p].name)) + 1
  PROVE  /\ StackOK(Moved(s, p, n))
         /\ DOMAIN Moved(s, p, n) = DOMAIN s
         /\ Len(Moved(s, p, n)) = Len(s)
         /\ \A k \in DOMAIN s : k # p => Moved(s, p, n)[k] = s[k]
         /\ Moved(s, p, n)[p].name = s[p].name
         /\ Moved(s, p, n)[p].at = n
         /\ \A k \in DOMAIN s : Moved(s, p, n)[k].name = s[k].name
<1>1. /\ s \in Seq(Parsers)
      /\ DOMAIN s = 1 .. Len(s)
      /\ Len(s) \in Nat
      /\ s[p] \in Parsers
      /\ s[p].name \in program.present
  BY ElementOfSeq DEF StackOK
<1>2. s[p].name \in Names /\ n \in Nat \ {0} /\ n <= Len(Body(s[p].name)) + 1
  BY <1>1, BodyIsTyped DEF Parsers
<1> DEFINE t == Moved(s, p, n)
           moved == [s[p] EXCEPT !.at = n]
<1>3. moved \in Parsers /\ moved.name = s[p].name /\ moved.at = n
  BY <1>1, <1>2 DEF Parsers
<1>4. t = [s EXCEPT ![p] = moved]
  BY DEF Moved
<1> HIDE DEF moved, t
<1>5. t \in Seq(Parsers)
  BY <1>1, <1>3, <1>4, ExceptSeq
<1>6. /\ DOMAIN t = DOMAIN s
      /\ \A k \in DOMAIN s : k # p => t[k] = s[k]
      /\ t[p] = moved
  BY <1>1, <1>4
<1>7. Len(t) = Len(s)
  BY <1>1, <1>5, <1>6
<1>8. StackOK(t)
  BY <1>1, <1>2, <1>3, <1>5, <1>6 DEF StackOK
<1> QED BY <1>3, <1>6, <1>7, <1>8 DEF t

\* A parser is added.
LEMMA PushIsTyped ==
  ASSUME program \in Programs, NEW s, StackOK(s), NEW d \in program.present,
         NEW t, t = Append(s, [name |-> d, at |-> 1])
  PROVE  /\ StackOK(t)
         /\ Len(t) = Len(s) + 1
         /\ Len(s) \in Nat
         /\ DOMAIN s = 1 .. Len(s)
         /\ DOMAIN t = 1 .. Len(s) + 1
         /\ \A k \in DOMAIN s : t[k] = s[k]
         /\ t[Len(s) + 1].name = d
         /\ t[Len(s) + 1].at = 1
<1>1. d \in Names
  BY PresentAreNames
<1>2. [name |-> d, at |-> 1] \in Parsers
  BY <1>1 DEF Parsers
<1>3. s \in Seq(Parsers) /\ Len(s) \in Nat /\ DOMAIN s = 1 .. Len(s)
  BY DEF StackOK
<1>4. /\ t \in Seq(Parsers)
      /\ Len(t) = Len(s) + 1
      /\ DOMAIN t = 1 .. Len(s) + 1
      /\ \A k \in 1 .. Len(s) : t[k] = s[k]
      /\ t[Len(s) + 1] = [name |-> d, at |-> 1]
  BY <1>2, <1>3, AppendProperties
<1>5. 1 <= Len(Body(d)) + 1
  BY <1>1, BodyIsTyped
<1>6. StackOK(t)
  BY <1>3, <1>4, <1>5 DEF StackOK
<1> QED BY <1>3, <1>4, <1>6

\* The innermost parser is dropped.
LEMMA OuterIsTyped ==
  ASSUME StackOK(stack), stack # << >>
  PROVE  /\ StackOK(Outer)
         /\ Len(stack) \in Nat \ {0}
         /\ Len(Outer) = Len(stack) - 1
         /\ DOMAIN Outer = 1 .. Len(stack) - 1
         /\ DOMAIN stack = 1 .. Len(stack)
         /\ \A k \in DOMAIN Outer : Outer[k] = stack[k]
<1>1. /\ stack \in Seq(Parsers)
      /\ Len(stack) \in Nat \ {0}
      /\ DOMAIN stack = 1 .. Len(stack)
  BY DEF StackOK
<1>2. /\ Outer \in Seq(Parsers)
      /\ Len(Outer) = Len(stack) - 1
      /\ \A k \in 1 .. Len(stack) - 1 : Outer[k] = stack[k]
  BY <1>1, SubSeqProperties DEF Outer
<1>3. DOMAIN Outer = 1 .. Len(stack) - 1
  BY <1>1, <1>2
<1>4. StackOK(Outer)
  BY <1>1, <1>2, <1>3 DEF StackOK
<1> QED BY <1>1, <1>2, <1>3, <1>4

LEMMA StackIsTyped == TypeOK => StackOK(stack) /\ program \in Programs
BY DEF TypeOK, StackOK, Parsers

-----------------------------------------------------------------------------
(***************************************************************************)
(* The stack after a step.                                                 *)
(***************************************************************************)
\* The outermost parser is the same, if there is one in both stacks.
SameBottom(s, t) ==
  s # << >> => t # << >> /\ t[1].name = s[1].name

\* The innermost parser of a stack goes on to its next item.
LEMMA AdvanceKeeps ==
  ASSUME program \in Programs, NEW s, StackOK(s), s # << >>,
         NEW d, d = s[Len(s)].name,
         NEW n, n = s[Len(s)].at, n \in DOMAIN Body(d)
  PROVE  /\ StackOK(Moved(s, Len(s), n + 1))
         /\ SameBottom(s, Moved(s, Len(s), n + 1))
         /\ Callers(s) => Callers(Moved(s, Len(s), n + 1))
         /\ (/\ Claims(s)
             /\ Resolved(d, n)
             /\ Body(d)[n].kind \in Calls => Body(d)[n].of \in parsed)
            => Claims(Moved(s, Len(s), n + 1))
<1> DEFINE p == Len(s)
           m == n + 1
           t == Moved(s, p, m)
<1>1. /\ p \in Nat \ {0}
      /\ DOMAIN s = 1 .. p
      /\ p \in DOMAIN s
      /\ s[p] \in Parsers
  BY ElementOfSeq DEF StackOK
<1>2. d \in Names /\ n \in Nat
  BY <1>1 DEF Parsers
<1>3. DOMAIN Body(d) = 1 .. Len(Body(d)) /\ Len(Body(d)) \in Nat
  BY <1>2, BodyIsTyped
<1>4. m \in 1 .. Len(Body(s[p].name)) + 1
  BY <1>2, <1>3
<1> HIDE DEF p, m
<1>5. /\ StackOK(t)
      /\ DOMAIN t = DOMAIN s
      /\ Len(t) = Len(s)
      /\ \A k \in DOMAIN s : k # p => t[k] = s[k]
      /\ t[p].name = s[p].name
      /\ t[p].at = m
      /\ \A k \in DOMAIN s : t[k].name = s[k].name
  BY <1>1, <1>4, MoveIsTyped
<1> HIDE DEF t
<1>6. SameBottom(s, t)
  BY <1>1, <1>5 DEF SameBottom
<1>7. ASSUME Callers(s) PROVE Callers(t)
  <2>1. \A k \in DOMAIN s : k > 1 => k - 1 # p /\ k - 1 \in DOMAIN s
    BY <1>1
  <2> QED BY <1>5, <1>7, <2>1 DEF Callers
<1>8. ASSUME Claims(s), Resolved(d, n),
             Body(d)[n].kind \in Calls => Body(d)[n].of \in parsed
      PROVE  Claims(t)
  <2>1. Before(d, n)
    BY <1>1, <1>8 DEF Claims, p
  <2>2. \A i \in DOMAIN Body(d) : i < m => i < n \/ i = n
    BY <1>2, <1>3 DEF m
  <2>3. Before(d, m)
    BY <1>8, <2>1, <2>2 DEF Before
  <2>4. d = s[p].name
    BY DEF p
  <2> QED BY <1>5, <1>8, <2>3, <2>4 DEF Claims
<1> QED BY <1>5, <1>6, <1>7, <1>8 DEF t, m, p

LEMMA GoOnKeeps ==
  ASSUME TypeOK, NEW kinds, AtItem(kinds), GoOn
  PROVE  /\ StackOK(stack')
         /\ SameBottom(stack, stack')
         /\ Callers(stack) => Callers(stack')
         /\ (/\ Claims(stack)
             /\ Resolved(Me, Parser.at)
             /\ Item.kind \in Calls => Item.of \in parsed)
            => Claims(stack')
<1>1. /\ stack # << >>
      /\ Parser.at \in DOMAIN Body(Me)
      /\ Item = Body(Me)[Parser.at]
  BY ItemIsTyped
<1>2. StackOK(stack) /\ program \in Programs
  BY StackIsTyped
<1>3. Me = stack[Len(stack)].name /\ Parser.at = stack[Len(stack)].at
  BY DEF Me, Parser
<1>4. stack' = Moved(stack, Len(stack), Parser.at + 1)
  BY <1>3, ParserIsTyped, <1>1 DEF GoOn, Moved
<1> QED BY <1>1, <1>2, <1>3, <1>4, AdvanceKeeps

LEMMA GiveUpKeeps ==
  ASSUME TypeOK, stack # << >>, GiveUp
  PROVE  /\ StackOK(stack')
         /\ Callers(stack) => Callers(stack')
<1>1. /\ Len(stack) \in DOMAIN stack
      /\ Len(stack) \in Nat
      /\ DOMAIN stack = 1 .. Len(stack)
      /\ stack[Len(stack)].name = Me
      /\ Me \in Names
  BY ParserIsTyped DEF Me
<1>2. StackOK(stack) /\ program \in Programs
  BY StackIsTyped
<1>3. Len(Body(Me)) + 1 \in 1 .. Len(Body(Me)) + 1
  BY <1>1, <1>2, BodyIsTyped
<1> DEFINE n == Len(Body(Me)) + 1
           t == Moved(stack, Len(stack), n)
<1>4. n \in 1 .. Len(Body(stack[Len(stack)].name)) + 1
  BY <1>1, <1>3
<1>5. stack' = t
  BY DEF GiveUp, Moved
<1> HIDE DEF n
<1>6. /\ StackOK(t)
      /\ DOMAIN t = DOMAIN stack
      /\ \A k \in DOMAIN stack : k # Len(stack) => t[k] = stack[k]
      /\ \A k \in DOMAIN stack : t[k].name = stack[k].name
  BY <1>1, <1>2, <1>4, MoveIsTyped
<1> HIDE DEF t
<1>7. ASSUME Callers(stack) PROVE Callers(t)
  <2>1. \A k \in DOMAIN stack : k > 1 => k - 1 # Len(stack) /\ k - 1 \in DOMAIN stack
    BY <1>1
  <2> QED BY <1>6, <1>7, <2>1 DEF Callers
<1> QED BY <1>5, <1>6, <1>7

LEMMA EnterKeeps ==
  ASSUME TypeOK, NEW d \in program.present, Enter(d), phase = "running"
  PROVE  /\ StackOK(stack')
         /\ phase' \in {"running", "overflow"}
         /\ SameBottom(stack, stack')
         /\ Claims(stack) => Claims(stack')
         /\ (/\ Callers(stack)
             /\ stack = << >> \/ Class[d] # "alias" \/ Waiting(Parser))
            => Callers(stack')
         /\ stack = << >> /\ phase' = "running" => stack' # << >> /\ stack'[1].name = d
<1>1. StackOK(stack) /\ program \in Programs /\ d \in Names
  BY StackIsTyped, PresentAreNames
<1>2. CASE Len(stack) < MaxDepth
  <2>1. stack' = Append(stack, [name |-> d, at |-> 1]) /\ phase' = phase
    BY <1>2 DEF Enter
  <2> DEFINE t == Append(stack, [name |-> d, at |-> 1])
  <2>t. /\ StackOK(t)
        /\ Len(t) = Len(stack) + 1
        /\ Len(stack) \in Nat
        /\ DOMAIN stack = 1 .. Len(stack)
        /\ DOMAIN t = 1 .. Len(stack) + 1
        /\ \A k \in DOMAIN stack : t[k] = stack[k]
        /\ t[Len(stack) + 1].name = d
        /\ t[Len(stack) + 1].at = 1
    BY <1>1, PushIsTyped
  <2> HIDE DEF t
  <2>2. /\ StackOK(stack')
        /\ Len(stack') = Len(stack) + 1
        /\ Len(stack) \in Nat
        /\ DOMAIN stack = 1 .. Len(stack)
        /\ DOMAIN stack' = 1 .. Len(stack) + 1
        /\ \A k \in DOMAIN stack : stack'[k] = stack[k]
        /\ stack'[Len(stack) + 1].name = d
        /\ stack'[Len(stack) + 1].at = 1
    BY <2>1, <2>t DEF t
  <2>3. Before(d, 1)
    BY <1>1, BodyIsTyped DEF Before
  <2>4. stack' # << >>
    BY <2>2
  <2>5. stack # << >> => Len(stack) # 0
    BY <1>1 DEF StackOK
  <2>6. SameBottom(stack, stack')
    BY <2>2, <2>4, <2>5 DEF SameBottom
  <2>7. Claims(stack) => Claims(stack')
    BY <2>2, <2>3 DEF Claims
  <2>8. stack = << >> => stack'[1].name = d
    BY <2>2
  <2>9. ASSUME Callers(stack), stack = << >> \/ Class[d] # "alias" \/ Waiting(Parser)
        PROVE  Callers(stack')
    <3> SUFFICES ASSUME NEW k \in DOMAIN stack', k > 1, Class[stack'[k].name] = "alias"
                 PROVE  Waiting(stack'[k - 1])
      BY DEF Callers
    <3>1. CASE k \in DOMAIN stack
      <4>1. k - 1 \in DOMAIN stack
        BY <2>2, <3>1
      <4> QED BY <2>2, <2>9, <3>1, <4>1 DEF Callers
    <3>2. CASE k = Len(stack) + 1
      <4>1. k - 1 = Len(stack) /\ k - 1 \in DOMAIN stack /\ stack # << >>
        BY <2>2, <3>2
      <4>2. Class[d] = "alias"
        BY <2>2, <3>2
      <4> QED BY <2>2, <2>9, <4>1, <4>2 DEF Parser
    <3> QED BY <2>2, <3>1, <3>2
  <2> QED BY <2>1, <2>2, <2>4, <2>6, <2>7, <2>8, <2>9
<1>3. CASE ~(Len(stack) < MaxDepth)
  <2>1. stack' = stack /\ phase' = "overflow"
    BY <1>3 DEF Enter, Crash
  <2> QED BY <1>1, <2>1 DEF SameBottom, Claims
<1> QED BY <1>2, <1>3

-----------------------------------------------------------------------------
(***************************************************************************)
(* From the parts of a step to the invariant.                              *)
(***************************************************************************)
LEMMA ClaimsKept ==
  ASSUME program' = program, parsed \subseteq parsed'
  PROVE  /\ Claims(stack') => Claims(stack)'
         /\ Callers(stack') => Callers(stack)'
         /\ \A d : Complete(d) => Complete(d)'
<1>1. \A d, i : Resolved(d, i)' <=> Resolved(d, i)
  BY DEF Resolved, Found, Attached, Body
<1>2. \A d, n : Before(d, n) => Before(d, n)'
  BY <1>1 DEF Before, Body
<1>3. \A f : Waiting(f) => Waiting(f)'
  BY <1>1 DEF Waiting, Body
<1> QED BY <1>1, <1>2, <1>3 DEF Claims, Callers, Complete, Body

LEMMA TypesKept ==
  ASSUME program \in Programs, program' = program, StackOK(stack'),
         next' \in 1 .. Len(Class) + 1, parsed' \subseteq Names,
         nulls' \subseteq Names, hollow' \subseteq Names \X Nat,
         status' \in {"none", "fail", "success"}, phase' \in Phases
  PROVE  TypeOK'
BY DEF TypeOK, StackOK, Body, Parsers

\* A step of a parser that does not finish a definition.
LEMMA StepKeeps ==
  ASSUME IInv, phase = "running",
         program' = program, next' = next, parsed' = parsed,
         StackOK(stack'), Callers(stack'),
         nulls' \subseteq Names, hollow' \subseteq Names \X Nat,
         status' = status \/ status' = "fail",
         phase' \in Phases \ {"returned"},
         /\ status' # "fail" /\ Claims(stack)
         => Claims(stack') /\ SameBottom(stack, stack')
  PROVE  IInv'
<1>1. TypeOK /\ Done /\ Ends /\ program \in Programs
  BY DEF IInv, TypeOK
<1>2. status' \in {"none", "fail"}
  BY <1>1 DEF TypeOK, Ends
<1>3. TypeOK'
  BY <1>1, <1>2, TypesKept DEF TypeOK
<1>4. Callers(stack)'
  BY ClaimsKept
<1>5. Done'
  <2> SUFFICES ASSUME status' # "fail" PROVE Done'
    BY DEF Done
  <2>1. status # "fail" /\ status' = status
    OBVIOUS
  <2>2. /\ Claims(stack)
        /\ \A d \in parsed : Complete(d)
        /\ \A d \in program.present :
             d < next => Complete(d) \/ (stack # << >> /\ stack[1].name = d)
    BY <1>1, <2>1 DEF Done
  <2>3. Claims(stack') /\ SameBottom(stack, stack')
    BY <2>1, <2>2
  <2>4. Claims(stack)' /\ \A d : Complete(d) => Complete(d)'
    BY <2>3, ClaimsKept
  <2>5. \A d \in program'.present :
          d < next' => Complete(d)' \/ (stack' # << >> /\ stack'[1].name = d)
    BY <2>2, <2>3, <2>4 DEF SameBottom
  <2> QED BY <2>2, <2>4, <2>5 DEF Done
<1>6. Ends'
  BY <1>2 DEF Ends
<1> QED BY <1>3, <1>4, <1>5, <1>6 DEF IInv

\* A crash leaves the stack as it is.
LEMMA CrashKeeps ==
  ASSUME IInv, stack' = stack
  PROVE  /\ StackOK(stack') /\ Callers(stack')
         /\ Claims(stack) => Claims(stack')
         /\ SameBottom(stack, stack')
BY StackIsTyped DEF IInv, SameBottom

LEMMA KnownAreMembers ==
  ASSUME TypeOK, NEW d \in Names
  PROVE  KnownMembers(d) \in 0 .. Len(Body(d))
<1>1. Len(Body(d)) \in Nat
  BY BodyIsTyped DEF TypeOK
<1>2. ASSUME stack # << >>, stack[1].name = d
      PROVE  stack[1].at - 1 \in 0 .. Len(Body(d))
  <2>1. 1 \in DOMAIN stack /\ stack \in Seq(Parsers)
    BY <1>2 DEF TypeOK, Parsers
  <2>2. stack[1] \in Parsers
    BY <2>1, ElementOfSeq
  <2>3. stack[1].at \in Nat \ {0} /\ stack[1].at <= Len(Body(d)) + 1
    BY <1>2, <2>1, <2>2 DEF TypeOK, Parsers
  <2> QED BY <1>1, <2>3
<1> QED BY <1>1, <1>2 DEF KnownMembers

-----------------------------------------------------------------------------
LEMMA InitEstablishes == Init => IInv
<1> SUFFICES ASSUME Init PROVE IInv
  OBVIOUS
<1>1. stack = << >> /\ DOMAIN stack = {}
  BY DEF Init
<1>2. TypeOK
  BY <1>1, NamesAreNumbers DEF Init, TypeOK, Phases
<1>3. Callers(stack) /\ Claims(stack)
  BY <1>1 DEF Callers, Claims
<1>4. program.present \subseteq 1 .. Len(Class)
  BY <1>2, PresentAreNames, NamesAreNumbers DEF TypeOK
<1>5. Done
  BY <1>3, <1>4, NamesAreNumbers DEF Done, Init
<1>6. Ends
  BY DEF Ends, Init
<1> QED BY <1>2, <1>3, <1>5, <1>6 DEF IInv

LEMMA TypeMissingKeeps == IInv /\ TypeMissing => IInv'
<1> SUFFICES ASSUME IInv, TypeMissing PROVE IInv'
  OBVIOUS
<1>1. TypeOK /\ Callers(stack) /\ AtItem({"type", "argument"}) /\ GoOn
  BY DEF IInv, TypeMissing
<1>2. /\ phase = "running" /\ stack # << >> /\ Item.of \in Names
  BY <1>1, ItemIsTyped
<1>3. Me \in Names /\ Parser.at \in Nat
  BY <1>1, <1>2, ParserIsTyped
<1>4. StackOK(stack') /\ Callers(stack')
  BY <1>1, GoOnKeeps
<1>5. nulls' \subseteq Names /\ hollow' \subseteq Names \X Nat
  BY <1>1, <1>2, <1>3 DEF TypeMissing, TypeOK
<1> QED BY <1>2, <1>4, <1>5, StepKeeps DEF TypeMissing, Fail, Phases

LEMMA TypeFoundKeeps == IInv /\ TypeFound => IInv'
<1> SUFFICES ASSUME IInv, TypeFound PROVE IInv'
  OBVIOUS
<1>1. TypeOK /\ Callers(stack) /\ AtItem({"type", "argument"})
      /\ Found(Me, Item.of)
  BY DEF IInv, TypeFound
<1>2. /\ phase = "running" /\ stack # << >>
      /\ Parser.at \in DOMAIN Body(Me)
      /\ Item = Body(Me)[Parser.at]
      /\ Item.kind \in {"type", "argument"}
  BY <1>1, ItemIsTyped DEF AtItem
<1>3. Resolved(Me, Parser.at) /\ Item.kind \notin Calls
  BY <1>1, <1>2 DEF Resolved, Calls
<1>4. Waiting(Parser)
  BY <1>2, <1>3 DEF Waiting, Me
<1>5. Item.of \in program.present
  BY <1>1 DEF Found
<1>6. /\ StackOK(stack') /\ Callers(stack') /\ phase' \in {"running", "overflow"}
      /\ Claims(stack) => Claims(stack')
      /\ SameBottom(stack, stack')
  <2>1. CASE Class[Item.of] = "alias"
    <3>1. Enter(Item.of)
      BY <2>1 DEF TypeFound
    <3> QED BY <1>1, <1>2, <1>4, <1>5, <3>1, EnterKeeps
  <2>2. CASE Class[Item.of] # "alias"
    <3>1. GoOn /\ phase' = phase
      BY <2>2 DEF TypeFound
    <3> QED BY <1>1, <1>2, <1>3, <3>1, GoOnKeeps
  <2> QED BY <2>1, <2>2
<1> QED BY <1>1, <1>2, <1>6, StepKeeps DEF TypeFound, Phases, TypeOK

LEMMA CaptureKeeps == IInv /\ Capture => IInv'
<1> SUFFICES ASSUME IInv, Capture PROVE IInv'
  OBVIOUS
<1>1. TypeOK /\ Callers(stack) /\ AtItem({"capture"}) /\ GoOn
  BY DEF IInv, Capture
<1>2. /\ phase = "running"
      /\ Item = Body(Me)[Parser.at]
      /\ Item.kind = "capture"
  BY <1>1, ItemIsTyped DEF AtItem
<1>3. Found(Me, Item.of) => Resolved(Me, Parser.at) /\ Item.kind \notin Calls
  BY <1>2 DEF Resolved, Calls
<1>4. status' # "fail" => Found(Me, Item.of)
  BY DEF Capture
<1>5. /\ StackOK(stack') /\ Callers(stack') /\ SameBottom(stack, stack')
      /\ status' # "fail" /\ Claims(stack) => Claims(stack')
  BY <1>1, <1>3, <1>4, GoOnKeeps
<1> QED BY <1>1, <1>2, <1>5, StepKeeps DEF Capture, Phases, TypeOK

\* An assignment to a known member is resolved.
LEMMA KnownIsResolved ==
  ASSUME TypeOK, AtItem({"member"}), Found(Me, Item.of),
         Class[Item.of] = "context" => Captured(Item.of),
         Item.index \in 1 .. KnownMembers(Item.of)
  PROVE  Resolved(Me, Parser.at) /\ Item.kind \notin Calls
<1>1. /\ stack # << >>
      /\ Item = Body(Me)[Parser.at]
      /\ Item.of \in Names
      /\ Item.kind = "member"
  BY ItemIsTyped DEF AtItem
<1>2. /\ Len(Body(Item.of)) \in Nat
      /\ KnownMembers(Item.of) \in 0 .. Len(Body(Item.of))
  BY <1>1, KnownAreMembers, BodyIsTyped DEF TypeOK
<1>3. Item.index \in 1 .. Len(Body(Item.of))
  BY <1>2
<1>4. Class[Item.of] = "context" =>
        \E j \in 1 .. Parser.at - 1 :
          Body(Me)[j].kind = "capture" /\ Body(Me)[j].of = Item.of
  BY DEF Captured
<1> QED BY <1>1, <1>3, <1>4 DEF Resolved, Calls

LEMMA AssignToStoreKeeps == IInv /\ AssignToStore => IInv'
<1> SUFFICES ASSUME IInv, AssignToStore PROVE IInv'
  OBVIOUS
<1>1. TypeOK /\ Callers(stack) /\ AtItem({"member"})
      /\ UNCHANGED <<program, next, parsed, nulls, hollow>>
  BY DEF IInv, AssignToStore
<1>2. phase = "running" /\ stack # << >>
  BY <1>1, ItemIsTyped
<1> DEFINE known ==
      /\ Found(Me, Item.of)
      /\ Class[Item.of] = "context" => Captured(Item.of)
      /\ Item.index \in 1 .. KnownMembers(Item.of)
<1>3. known => Resolved(Me, Parser.at) /\ Item.kind \notin Calls
  BY <1>1, KnownIsResolved
<1>4. \/ Fail /\ GiveUp /\ UNCHANGED phase
      \/ Crash("null pointer") /\ UNCHANGED status
      \/ known /\ GoOn /\ UNCHANGED <<status, phase>>
  BY DEF AssignToStore
<1> HIDE DEF known
<1>5. CASE Fail /\ GiveUp /\ UNCHANGED phase
  <2>1. StackOK(stack') /\ Callers(stack')
    BY <1>1, <1>2, <1>5, GiveUpKeeps
  <2> QED BY <1>1, <1>2, <1>5, <2>1, StepKeeps DEF Fail, Phases, TypeOK
<1>6. CASE Crash("null pointer") /\ UNCHANGED status
  <2>1. stack' = stack /\ phase' = "null pointer"
    BY <1>6 DEF Crash
  <2> QED BY <1>1, <1>2, <1>6, <2>1, CrashKeeps, StepKeeps DEF Phases, TypeOK
<1>7. CASE known /\ GoOn /\ UNCHANGED <<status, phase>>
  <2>1. /\ StackOK(stack') /\ Callers(stack') /\ SameBottom(stack, stack')
        /\ Claims(stack) => Claims(stack')
    BY <1>1, <1>3, <1>7, GoOnKeeps
  <2> QED BY <1>1, <1>2, <1>7, <2>1, StepKeeps DEF Phases, TypeOK
<1> QED BY <1>4, <1>5, <1>6, <1>7

LEMMA AssignToCollectionKeeps == IInv /\ AssignToCollection => IInv'
<1> SUFFICES ASSUME IInv, AssignToCollection PROVE IInv'
  OBVIOUS
<1>1. TypeOK /\ Callers(stack) /\ AtItem({"member"})
      /\ UNCHANGED <<program, next, parsed, nulls, hollow>>
      /\ Class[Item.of] # "context"
  BY DEF IInv, AssignToCollection
<1>2. phase = "running" /\ stack # << >>
  BY <1>1, ItemIsTyped
<1> DEFINE known == Found(Me, Item.of) /\ Item.index \in 1 .. KnownMembers(Item.of)
<1>3. known => Resolved(Me, Parser.at) /\ Item.kind \notin Calls
  BY <1>1, KnownIsResolved
<1>4. \/ Crash("null pointer") /\ (Fail \/ UNCHANGED status)
      \/ Fail /\ GiveUp /\ UNCHANGED phase
      \/ known /\ GoOn /\ UNCHANGED <<status, phase>>
  BY DEF AssignToCollection
<1> HIDE DEF known
<1>5. CASE Fail /\ GiveUp /\ UNCHANGED phase
  <2>1. StackOK(stack') /\ Callers(stack')
    BY <1>1, <1>2, <1>5, GiveUpKeeps
  <2> QED BY <1>1, <1>2, <1>5, <2>1, StepKeeps DEF Fail, Phases, TypeOK
<1>6. CASE Crash("null pointer") /\ (Fail \/ UNCHANGED status)
  <2>1. stack' = stack /\ phase' = "null pointer"
    BY <1>6 DEF Crash
  <2> QED BY <1>1, <1>2, <1>6, <2>1, CrashKeeps, StepKeeps DEF Fail, Phases, TypeOK
<1>7. CASE known /\ GoOn /\ UNCHANGED <<status, phase>>
  <2>1. /\ StackOK(stack') /\ Callers(stack') /\ SameBottom(stack, stack')
        /\ Claims(stack) => Claims(stack')
    BY <1>1, <1>3, <1>7, GoOnKeeps
  <2> QED BY <1>1, <1>2, <1>7, <2>1, StepKeeps DEF Phases, TypeOK
<1> QED BY <1>4, <1>5, <1>6, <1>7

LEMMA CallUnattachedKeeps == IInv /\ CallUnattached => IInv'
<1> SUFFICES ASSUME IInv, CallUnattached PROVE IInv'
  OBVIOUS
<1>1. TypeOK /\ AtItem(Calls)
  BY DEF IInv, CallUnattached
<1>2. phase = "running"
  BY <1>1, ItemIsTyped
<1>3. stack' = stack /\ phase' = "uncaught exception"
  BY DEF CallUnattached, Crash
<1> QED BY <1>1, <1>2, <1>3, CrashKeeps, StepKeeps DEF CallUnattached, Phases, TypeOK

\* A call is never of an alias.
LEMMA CalleeIsFunction ==
  ASSUME TypeOK, AtItem(Calls)
  PROVE  Class[Item.of] # "alias"
<1>1. /\ Me \in Names
      /\ Parser.at \in DOMAIN Body(Me)
      /\ Item = Body(Me)[Parser.at]
      /\ Item.kind \in Calls
  BY ItemIsTyped, ParserIsTyped DEF AtItem
<1>2. Class[Item.of] \in Targets(Item.kind)
  BY <1>1, ItemsAssumption DEF TypeOK, Body
<1> QED BY <1>1, <1>2 DEF Targets, Calls

LEMMA ParseCalleeKeeps == IInv /\ ParseCallee => IInv'
<1> SUFFICES ASSUME IInv, ParseCallee PROVE IInv'
  OBVIOUS
<1>1. TypeOK /\ Callers(stack) /\ AtItem(Calls) /\ Enter(Item.of)
      /\ Item.of \in program.present
  BY DEF IInv, ParseCallee, Found
<1>2. phase = "running" /\ Class[Item.of] # "alias"
  BY <1>1, ItemIsTyped, CalleeIsFunction
<1>3. /\ StackOK(stack') /\ Callers(stack') /\ phase' \in {"running", "overflow"}
      /\ Claims(stack) => Claims(stack')
      /\ SameBottom(stack, stack')
  BY <1>1, <1>2, EnterKeeps
<1> QED BY <1>1, <1>2, <1>3, StepKeeps DEF ParseCallee, Phases, TypeOK

LEMMA CallFailsKeeps == IInv /\ CallFails => IInv'
<1> SUFFICES ASSUME IInv, CallFails PROVE IInv'
  OBVIOUS
<1>1. TypeOK /\ Callers(stack) /\ AtItem(Calls) /\ Fail
      /\ UNCHANGED <<program, next, parsed, nulls, hollow>>
  BY DEF IInv, CallFails
<1>2. phase = "running" /\ stack # << >>
  BY <1>1, ItemIsTyped
<1>3. /\ StackOK(stack') /\ Callers(stack')
      /\ phase' \in {"running", "null pointer"}
  <2>1. \/ GiveUp /\ UNCHANGED phase
        \/ GoOn /\ UNCHANGED phase
        \/ Crash("null pointer")
    BY DEF CallFails
  <2>2. CASE GiveUp /\ UNCHANGED phase
    BY <1>1, <1>2, <2>2, GiveUpKeeps
  <2>3. CASE GoOn /\ UNCHANGED phase
    BY <1>1, <1>2, <2>3, GoOnKeeps
  <2>4. CASE Crash("null pointer")
    BY <2>4, CrashKeeps DEF Crash
  <2> QED BY <2>1, <2>2, <2>3, <2>4
<1> QED BY <1>1, <1>2, <1>3, StepKeeps DEF Fail, Phases, TypeOK

LEMMA CallParsedKeeps == IInv /\ CallParsed => IInv'
<1> SUFFICES ASSUME IInv, CallParsed PROVE IInv'
  OBVIOUS
<1>1. TypeOK /\ Callers(stack) /\ AtItem(Calls)
      /\ Found(Me, Item.of) /\ Item.of \in parsed /\ Item.fits
      /\ UNCHANGED <<program, next, parsed, nulls, hollow, status>>
  BY DEF IInv, CallParsed
<1>2. /\ phase = "running" /\ stack # << >>
      /\ Item = Body(Me)[Parser.at] /\ Item.kind \in Calls
  BY <1>1, ItemIsTyped DEF AtItem
<1>3. Resolved(Me, Parser.at)
  BY <1>1, <1>2 DEF Resolved, Calls
<1>4. /\ StackOK(stack') /\ Callers(stack')
      /\ phase' \in {"running", "null pointer"}
      /\ Claims(stack) => Claims(stack')
      /\ SameBottom(stack, stack')
  <2>1. (GoOn /\ UNCHANGED phase) \/ Crash("null pointer")
    BY DEF CallParsed
  <2>2. CASE GoOn /\ UNCHANGED phase
    BY <1>1, <1>2, <1>3, <2>2, GoOnKeeps
  <2>3. CASE Crash("null pointer")
    BY <2>3, CrashKeeps DEF Crash
  <2> QED BY <2>1, <2>2, <2>3
<1> QED BY <1>1, <1>2, <1>4, StepKeeps DEF Phases, TypeOK

\* What a parser at its end has claimed is its whole definition.
LEMMA EndIsComplete ==
  ASSUME TypeOK, AtEnd, Claims(stack)
  PROVE  Complete(Me)
<1>1. /\ stack # << >> /\ Parser.at > Len(Body(Me))
  BY DEF AtEnd
<1>2. /\ Len(stack) \in DOMAIN stack /\ Me \in Names /\ Parser.at \in Nat
      /\ stack[Len(stack)] = Parser /\ Me = Parser.name
  BY <1>1, ParserIsTyped DEF Me
<1>3. Before(Me, Parser.at)
  BY <1>2 DEF Claims
<1>4. \A i \in DOMAIN Body(Me) : i < Parser.at
  BY <1>1, <1>2, BodyIsTyped DEF TypeOK
<1> QED BY <1>3, <1>4 DEF Before, Complete

LEMMA OuterKeeps ==
  ASSUME TypeOK, stack # << >>
  PROVE  /\ StackOK(Outer)
         /\ Callers(stack) => Callers(Outer)
         /\ Claims(stack) => Claims(Outer)
         /\ Len(stack) > 1 => SameBottom(stack, Outer)
         /\ Len(stack) = 1 => stack[1].name = Me
<1>1. /\ StackOK(Outer)
      /\ Len(stack) \in Nat \ {0}
      /\ Len(Outer) = Len(stack) - 1
      /\ DOMAIN Outer = 1 .. Len(stack) - 1
      /\ DOMAIN stack = 1 .. Len(stack)
      /\ \A k \in DOMAIN Outer : Outer[k] = stack[k]
  BY OuterIsTyped, StackIsTyped
<1>2. Callers(stack) => Callers(Outer)
  <2>1. \A k \in DOMAIN Outer : k \in DOMAIN stack /\ (k > 1 => k - 1 \in DOMAIN Outer)
    BY <1>1
  <2> QED BY <1>1, <2>1 DEF Callers
<1>3. Claims(stack) => Claims(Outer)
  BY <1>1 DEF Claims
<1>4. Len(stack) > 1 => SameBottom(stack, Outer)
  BY <1>1 DEF SameBottom
<1>5. Len(stack) = 1 => stack[1].name = Me
  BY DEF Me, Parser
<1> QED BY <1>1, <1>2, <1>3, <1>4, <1>5

LEMMA FinishDefinitionKeeps == IInv /\ FinishDefinition => IInv'
<1> SUFFICES ASSUME IInv, FinishDefinition PROVE IInv'
  OBVIOUS
<1>1. /\ TypeOK /\ Callers(stack) /\ Done /\ Ends /\ AtEnd
      /\ stack # << >> /\ phase = "running" /\ program \in Programs
  BY DEF IInv, FinishDefinition, AtEnd, TypeOK
<1>2. /\ Me \in Names /\ Me \in program.present
      /\ Len(stack) \in Nat \ {0}
  BY <1>1, ParserIsTyped
<1>3. /\ StackOK(stack') /\ Callers(stack')
      /\ Claims(stack) => Claims(stack')
      /\ Len(stack) > 1 => SameBottom(stack, stack')
      /\ Len(stack) = 1 => stack[1].name = Me
  BY <1>1, OuterKeeps DEF FinishDefinition
<1>4. /\ program' = program /\ next' = next /\ status' = status
      /\ phase' = phase /\ nulls' = nulls /\ hollow' = hollow
      /\ parsed \subseteq parsed' /\ parsed' \subseteq parsed \cup {Me}
  BY DEF FinishDefinition
<1>5. TypeOK'
  BY <1>1, <1>2, <1>3, <1>4, TypesKept DEF TypeOK
<1>6. Callers(stack)' /\ Ends'
  BY <1>1, <1>3, <1>4, ClaimsKept DEF Ends
<1>7. Done'
  <2> SUFFICES ASSUME status # "fail" PROVE Done'
    BY <1>4 DEF Done
  <2>1. /\ Claims(stack)
        /\ \A d \in parsed : Complete(d)
        /\ \A d \in program.present :
             d < next => Complete(d) \/ (stack # << >> /\ stack[1].name = d)
    BY <1>1 DEF Done
  <2>2. Complete(Me)
    BY <1>1, <2>1, EndIsComplete
  <2>3. Claims(stack)' /\ \A d : Complete(d) => Complete(d)'
    BY <1>3, <1>4, <2>1, ClaimsKept
  <2>4. \A d \in parsed' : Complete(d)'
    BY <1>4, <2>1, <2>2, <2>3
  <2>5. ASSUME NEW d \in program.present, d < next
        PROVE  Complete(d)' \/ (stack' # << >> /\ stack'[1].name = d)
    <3>1. Complete(d) \/ stack[1].name = d
      BY <2>1, <2>5
    <3>2. CASE Complete(d)
      BY <2>3, <3>2
    <3>3. CASE stack[1].name = d /\ Len(stack) = 1
      BY <1>3, <2>2, <2>3, <3>3
    <3>4. CASE stack[1].name = d /\ Len(stack) > 1
      BY <1>1, <1>3, <3>4 DEF SameBottom
    <3>5. Len(stack) = 1 \/ Len(stack) > 1
      BY <1>2
    <3> QED BY <3>1, <3>2, <3>3, <3>4, <3>5
  <2> QED BY <1>4, <2>3, <2>4, <2>5 DEF Done
<1> QED BY <1>5, <1>6, <1>7 DEF IInv

LEMMA FinishAliasKeeps == IInv /\ FinishAlias => IInv'
<1> SUFFICES ASSUME IInv, FinishAlias PROVE IInv'
  OBVIOUS
<1> DEFINE n == Len(stack)
           caller == stack[n - 1]
<1>1. /\ TypeOK /\ Callers(stack) /\ program \in Programs
      /\ stack # << >> /\ phase = "running"
      /\ Class[Me] = "alias" /\ n > 1
      /\ stack' = [Outer EXCEPT ![n - 1].at = @ + 1]
      /\ UNCHANGED <<program, next, parsed, nulls, status, phase>>
      /\ hollow' \subseteq hollow \cup {<<caller.name, caller.at>>}
  BY DEF IInv, FinishAlias, AtEnd, TypeOK
<1>2. /\ n \in Nat /\ n \in DOMAIN stack /\ n - 1 \in DOMAIN stack
      /\ stack[n] = Parser /\ Me = Parser.name
  BY <1>1, ParserIsTyped DEF Me
<1>3. Waiting(caller)
  BY <1>1, <1>2 DEF Callers
<1>4. /\ StackOK(Outer) /\ Callers(Outer) /\ SameBottom(stack, Outer)
      /\ Claims(stack) => Claims(Outer)
      /\ Len(Outer) = n - 1
      /\ n - 1 \in DOMAIN Outer
      /\ Outer[n - 1] = caller
      /\ Outer # << >>
  <2>1. /\ Len(Outer) = n - 1
        /\ DOMAIN Outer = 1 .. n - 1
        /\ \A k \in DOMAIN Outer : Outer[k] = stack[k]
    BY <1>1, OuterIsTyped, StackIsTyped
  <2>2. n - 1 \in DOMAIN Outer
    BY <1>1, <1>2, <2>1
  <2>3. Outer # << >>
    BY <1>1, <1>2, <2>1
  <2> QED BY <1>1, <2>1, <2>2, <2>3, OuterKeeps
<1>5. caller \in Parsers
  <2>1. stack \in Seq(Parsers)
    BY <1>1 DEF TypeOK, Parsers
  <2> QED BY <1>2, <2>1, ElementOfSeq
<1>6. stack' = Moved(Outer, Len(Outer), caller.at + 1)
  BY <1>1, <1>4 DEF Moved
<1>7. /\ caller.at \in DOMAIN Body(caller.name)
      /\ Resolved(caller.name, caller.at)
      /\ Body(caller.name)[caller.at].kind \notin Calls
  BY <1>3 DEF Waiting
<1>8. /\ caller.name = Outer[Len(Outer)].name
      /\ caller.at = Outer[Len(Outer)].at
  BY <1>4
<1>9. caller.name \in Names /\ caller.at \in Nat
  BY <1>5 DEF Parsers
<1>10. hollow' \subseteq Names \X Nat
  BY <1>1, <1>9 DEF TypeOK
<1> DEFINE d == caller.name
           i == caller.at
           o == Outer
<1>b. /\ StackOK(o) /\ o # << >>
      /\ d = o[Len(o)].name
      /\ i = o[Len(o)].at
      /\ i \in DOMAIN Body(d)
      /\ Resolved(d, i)
      /\ Body(d)[i].kind \notin Calls
      /\ stack' = Moved(o, Len(o), i + 1)
      /\ program \in Programs
  BY <1>1, <1>4, <1>6, <1>7, <1>8
<1> HIDE DEF caller, n, d, i, o
<1>c. /\ StackOK(stack') /\ SameBottom(o, stack')
      /\ Callers(o) => Callers(stack')
      /\ Claims(o) => Claims(stack')
  BY <1>b, AdvanceKeeps
<1>11. /\ StackOK(stack') /\ Callers(stack') /\ SameBottom(Outer, stack')
       /\ Claims(Outer) => Claims(stack')
  BY <1>4, <1>c DEF o
<1>12. SameBottom(stack, stack')
  BY <1>4, <1>11 DEF SameBottom
<1>13. nulls' \subseteq Names /\ phase' \in Phases \ {"returned"}
  BY <1>1 DEF TypeOK, Phases
<1> QED BY <1>1, <1>4, <1>10, <1>11, <1>12, <1>13, StepKeeps

LEMMA VisitNameKeeps == IInv /\ VisitName => IInv'
<1> SUFFICES ASSUME IInv, VisitName PROVE IInv'
  OBVIOUS
<1>1. /\ TypeOK /\ Callers(stack) /\ Done /\ Ends /\ program \in Programs
      /\ phase = "running" /\ stack = << >> /\ next \in Names
      /\ next' = next + 1
      /\ UNCHANGED <<program, parsed, nulls, hollow, status>>
  BY DEF IInv, VisitName, TypeOK
<1>2. next \in Nat /\ next' \in 1 .. Len(Class) + 1
  BY <1>1, NamesAreNumbers
<1>3. program.present \subseteq Nat
  BY <1>1, PresentAreNames, NamesAreNumbers
<1>4. \/ Crash("null pointer") /\ next \in nulls
      \/ Enter(next) /\ next \in program.present
      \/ UNCHANGED <<stack, phase>> /\ next \notin program.present \ parsed
  BY DEF VisitName
<1>5. /\ StackOK(stack') /\ Callers(stack')
      /\ phase' \in {"running", "null pointer", "overflow"}
      /\ Claims(stack) => Claims(stack')
  <2>1. CASE Crash("null pointer")
    BY <2>1, CrashKeeps DEF Crash
  <2>2. CASE Enter(next) /\ next \in program.present
    BY <1>1, <2>2, EnterKeeps
  <2>3. CASE UNCHANGED <<stack, phase>>
    BY <1>1, <2>3, CrashKeeps
  <2> QED BY <1>4, <2>1, <2>2, <2>3
<1>6. TypeOK'
  BY <1>1, <1>2, <1>5, TypesKept DEF TypeOK, Phases
<1>7. Callers(stack)' /\ Ends'
  BY <1>1, <1>5, ClaimsKept DEF Ends
<1>8. Done'
  <2> SUFFICES ASSUME status # "fail" PROVE Done'
    BY <1>1 DEF Done
  <2>1. /\ Claims(stack)
        /\ \A d \in parsed : Complete(d)
        /\ \A d \in program.present : d < next => Complete(d)
    BY <1>1 DEF Done
  <2>2. Claims(stack)' /\ \A d : Complete(d) => Complete(d)'
    BY <1>1, <1>5, <2>1, ClaimsKept
  <2>3. ASSUME phase' = "running", NEW d \in program.present, d < next'
        PROVE  Complete(d)' \/ (stack' # << >> /\ stack'[1].name = d)
    <3>1. d < next \/ d = next
      BY <1>1, <1>2, <1>3, <2>3
    <3>2. CASE d < next
      BY <2>1, <2>2, <3>2
    <3>3. CASE d = next
      <4>1. Enter(next) \/ next \in parsed
        BY <1>4, <2>3, <3>3 DEF Crash
      <4>2. CASE Enter(next)
        BY <1>1, <2>3, <3>3, <4>2, EnterKeeps
      <4>3. CASE next \in parsed
        BY <2>1, <2>2, <3>3, <4>3
      <4> QED BY <4>1, <4>2, <4>3
    <3> QED BY <3>1, <3>2, <3>3
  <2>4. phase' \in {"running", "returned"} => phase' = "running"
    BY <1>5
  <2> QED BY <1>1, <2>1, <2>2, <2>3, <2>4 DEF Done
<1> QED BY <1>6, <1>7, <1>8 DEF IInv

LEMMA ReturnBundleKeeps == IInv /\ ReturnBundle => IInv'
<1> SUFFICES ASSUME IInv, ReturnBundle PROVE IInv'
  OBVIOUS
<1>1. /\ TypeOK /\ Callers(stack) /\ Done /\ Ends /\ program \in Programs
      /\ phase = "running" /\ stack = << >> /\ next \notin Names
      /\ phase' = "returned"
      /\ status' = IF status = "none" THEN "success" ELSE status
      /\ UNCHANGED <<program, next, stack, parsed, nulls, hollow>>
  BY DEF IInv, ReturnBundle, TypeOK
<1>2. StackOK(stack') /\ Callers(stack') /\ (Claims(stack) => Claims(stack'))
  BY <1>1, CrashKeeps
<1>3. TypeOK'
  BY <1>1, <1>2, TypesKept DEF TypeOK, Phases
<1>4. Callers(stack)'
  BY <1>1, <1>2, ClaimsKept
<1>5. Done'
  <2>1. (Claims(stack') => Claims(stack)') /\ \A d : Complete(d) => Complete(d)'
    BY <1>1, ClaimsKept
  <2>2. status' # "fail" => status # "fail"
    BY <1>1
  <2> QED BY <1>1, <1>2, <2>1, <2>2 DEF Done
<1>6. next = Len(Class) + 1
  BY <1>1, NamesAreNumbers DEF TypeOK
<1>7. Ends'
  BY <1>1, <1>6 DEF Ends
<1> QED BY <1>3, <1>4, <1>5, <1>7 DEF IInv

-----------------------------------------------------------------------------
LEMMA InvariantHolds == Spec => []IInv
<1>1. Init => IInv
  BY InitEstablishes
<1>2. IInv /\ [Next]_vars => IInv'
  <2> SUFFICES ASSUME IInv, [Next]_vars PROVE IInv'
    OBVIOUS
  <2>1. CASE UNCHANGED vars
    <3>1. UNCHANGED <<program, next, stack, parsed, nulls, hollow, status, phase>>
      BY <2>1 DEF vars
    <3>2. TypeOK /\ Callers(stack) /\ Done /\ Ends
      BY DEF IInv
    <3>3. TypeOK'
      BY <3>1, <3>2 DEF TypeOK, Body
    <3>4. Ends'
      BY <3>1, <3>2 DEF Ends
    <3>5. /\ Callers(stack)'
          /\ Claims(stack) => Claims(stack)'
          /\ \A d : Complete(d) => Complete(d)'
      BY <3>1, <3>2, ClaimsKept
    <3>6. Done'
      BY <3>1, <3>2, <3>5 DEF Done
    <3> QED BY <3>3, <3>4, <3>5, <3>6 DEF IInv
  <2>2. CASE Next
    BY <2>2, VisitNameKeeps, ReturnBundleKeeps, TypeMissingKeeps, TypeFoundKeeps,
       CaptureKeeps, AssignToStoreKeeps, AssignToCollectionKeeps,
       CallUnattachedKeeps, ParseCalleeKeeps, CallFailsKeeps, CallParsedKeeps,
       FinishDefinitionKeeps, FinishAliasKeeps DEF Next
  <2> QED BY <2>1, <2>2
<1> QED BY <1>1, <1>2, PTL DEF Spec

\* The variables keep their types, and every parser is within its definition.
THEOREM TypeCorrect == Spec => []TypeOK
<1>1. IInv => TypeOK
  BY DEF IInv
<1> QED BY <1>1, InvariantHolds, PTL

\* Success means that every reference is resolved, whatever the number and
\* the order of the definitions, however deep their parsers nest.
THEOREM SuccessIsAlwaysSound == Spec => []SuccessIsSound
<1>1. IInv => SuccessIsSound
  <2> SUFFICES ASSUME IInv, phase = "returned", status = "success" PROVE Sound
    BY DEF SuccessIsSound
  <2>1. /\ stack = << >> /\ next = Len(Class) + 1
        /\ program.present \subseteq 1 .. Len(Class)
    BY PresentAreNames, NamesAreNumbers DEF IInv, Ends, TypeOK
  <2>2. \A d \in program.present : d < next => Complete(d)
    BY <2>1 DEF IInv, Done
  <2>3. \A d \in program.present : Complete(d)
    BY <2>1, <2>2, NamesAreNumbers
  <2> QED BY <2>3 DEF Sound, AllResolved, Complete
<1> QED BY <1>1, InvariantHolds, PTL

\* As long as nothing failed, parsed functions call parsed functions.
THEOREM CalleesAreFirst == Spec => []CalleesFirst
<1>1. IInv => CalleesFirst
  BY DEF IInv, Done, CalleesFirst, Complete
<1> QED BY <1>1, InvariantHolds, PTL

-----------------------------------------------------------------------------
(***************************************************************************)
(* What the parser of a definition enters.                                 *)
(***************************************************************************)
LEMMA LeastNumber ==
  ASSUME NEW S, S \subseteq Nat, S # {}
  PROVE  \E n \in S : \A m \in S : n <= m
<1>1. PICK n \in S : \A m \in S : ~(<<m, n>> \in OpToRel(<, Nat))
  BY NatLessThanWellFounded, WFMin
<1>2. ASSUME NEW m \in S PROVE n <= m
  <2>1. <<m, n>> \in Nat \X Nat
    OBVIOUS
  <2>2. <<m, n>> \in OpToRel(<, Nat) <=> m < n
    BY <2>1 DEF OpToRel
  <2>3. ~(m < n)
    BY <1>1, <2>2, Zenon
  <2>4. m \in Nat /\ n \in Nat
    OBVIOUS
  <2> QED BY <2>3, <2>4
<1> QED BY <1>2

LEMMA CountedTo ==
  ASSUME NEW n \in Nat
  PROVE  IsFiniteSet(1 .. n) /\ Cardinality(1 .. n) = n
<1>1. 1 \in Int /\ n \in Int
  OBVIOUS
<1>2. IsFiniteSet(1 .. n) /\ Cardinality(1 .. n) = IF 1 > n THEN 0 ELSE n - 1 + 1
  BY <1>1, FS_Interval
<1>3. (IF 1 > n THEN 0 ELSE n - 1 + 1) = n
  OBVIOUS
<1> QED BY <1>2, <1>3

Step(S) == S \cup {f \in Names : \E e \in S : Leads(e, f)}

\* The first n steps from d.
Steps(w, d, n) ==
  w = [k \in 0 .. n |-> IF k = 0 THEN {d} ELSE Step(w[k - 1])]

LEMMA StepsExist ==
  ASSUME NEW d, NEW n \in Nat
  PROVE  \E w : Steps(w, d, n)
<1> DEFINE Not == {k \in Nat : ~ \E w : Steps(w, d, k)}
<1>1. CASE Not = {}
  BY <1>1
<1>2. CASE Not # {}
  <2>1. PICK k \in Not : \A j \in Not : k <= j
    BY <1>2, LeastNumber
  <2>2. k # 0
    <3>1. Steps([j \in 0 .. 0 |-> {d}], d, 0)
      BY DEF Steps
    <3> QED BY <3>1
  <2>3. k \in Nat /\ k - 1 \in Nat /\ k - 1 \notin Not
    BY <2>1, <2>2
  <2>4. PICK v : Steps(v, d, k - 1)
    BY <2>3
  <2> DEFINE w == [j \in 0 .. k |-> IF j = k THEN Step(v[k - 1]) ELSE v[j]]
  <2>5. \A j \in 0 .. k : w[j] = IF j = 0 THEN {d} ELSE Step(w[j - 1])
    <3> SUFFICES ASSUME NEW j \in 0 .. k
                 PROVE  w[j] = IF j = 0 THEN {d} ELSE Step(w[j - 1])
      OBVIOUS
    <3>1. CASE j = k
      <4>1. k - 1 \in 0 .. k /\ k - 1 # k /\ k \in 0 .. k
        BY <2>2, <2>3
      <4> QED BY <3>1, <2>2, <4>1
    <3>2. CASE j # k
      <4>1. j \in 0 .. k - 1 /\ (j # 0 => j - 1 \in 0 .. k /\ j - 1 # k)
        BY <3>2, <2>3
      <4>2. v[j] = IF j = 0 THEN {d} ELSE Step(v[j - 1])
        BY <2>4, <4>1 DEF Steps
      <4> QED BY <3>2, <4>1, <4>2
    <3> QED BY <3>1, <3>2
  <2>6. w = [j \in 0 .. k |-> w[j]]
    OBVIOUS
  <2> HIDE DEF w
  <2>7. Steps(w, d, k)
    BY <2>5, <2>6 DEF Steps
  <2> QED BY <2>1, <2>7
<1> QED BY <1>1, <1>2

LEMMA ReachedInSteps ==
  ASSUME NEW d
  PROVE  \E w : Steps(w, d, Len(Class)) /\ Reached(d) = w[Len(Class)]
<1> DEFINE w == CHOOSE v : v =
             [n \in 0 .. Len(Class) |->
                IF n = 0 THEN {d}
                ELSE v[n - 1] \cup
                     {f \in Names : \E e \in v[n - 1] : Leads(e, f)}]
<1>1. Reached(d) = w[Len(Class)]
  BY DEF Reached
<1>2. \E v : Steps(v, d, Len(Class))
  BY StepsExist, NamesAreNumbers
<1>3. w = [n \in 0 .. Len(Class) |->
            IF n = 0 THEN {d}
            ELSE w[n - 1] \cup
                 {f \in Names : \E e \in w[n - 1] : Leads(e, f)}]
  BY <1>2 DEF Steps, Step
<1> HIDE DEF w
<1>4. Steps(w, d, Len(Class))
  BY <1>3 DEF Steps, Step
<1> QED BY <1>1, <1>4

\* A set of names from which no parser leads to another name.
Closed(S) == \A e \in S : \A f \in Names : Leads(e, f) => f \in S

\* After as many steps as there are names nothing is left to be reached: each
\* step before that added a name.
LEMMA ReachedIsClosed ==
  ASSUME NEW d \in Names
  PROVE  /\ d \in Reached(d)
         /\ Reached(d) \subseteq Names
         /\ Closed(Reached(d))
<1> DEFINE N == Len(Class)
<1>1. N \in Nat /\ Names = 1 .. N
  BY NamesAreNumbers
<1>2. IsFiniteSet(Names) /\ Cardinality(Names) = N
  BY <1>1, CountedTo
<1>3. PICK w : Steps(w, d, N) /\ Reached(d) = w[N]
  BY ReachedInSteps
<1> HIDE DEF N
<1>4. /\ w[0] = {d}
      /\ \A k \in 1 .. N : w[k] = Step(w[k - 1])
  <2>1. 0 \in 0 .. N /\ \A k \in 1 .. N : k \in 0 .. N /\ k # 0
    BY <1>1
  <2>2. \A k \in 0 .. N : w[k] = IF k = 0 THEN {d} ELSE Step(w[k - 1])
    BY <1>3 DEF Steps
  <2> QED BY <2>1, <2>2
<1> DEFINE Good(k) == /\ d \in w[k]
                      /\ w[k] \subseteq Names
                      /\ Closed(w[k]) \/ Cardinality(w[k]) >= k + 1
           Bad == {k \in 0 .. N : ~Good(k)}
<1>5. Bad = {}
  <2> SUFFICES ASSUME Bad # {} PROVE FALSE
    OBVIOUS
  <2>1. Bad \subseteq Nat
    BY <1>1
  <2>2. PICK k \in Bad : \A j \in Bad : k <= j
    BY <2>1, LeastNumber
  <2>3. k # 0
    <3>1. Cardinality({d}) = 1
      BY FS_Singleton
    <3>2. Good(0)
      BY <3>1, <1>4
    <3> QED BY <3>2, <2>2
  <2>4. k \in 1 .. N /\ k - 1 \in 0 .. N /\ k - 1 \notin Bad
    BY <2>2, <2>3, <1>1
  <2> DEFINE before == w[k - 1]
             after == w[k]
  <2>5. /\ d \in before
        /\ before \subseteq Names
        /\ Closed(before) \/ Cardinality(before) >= k
    BY <2>4
  <2>6. after = Step(before)
    BY <2>4, <1>4
  <2> HIDE DEF before, after
  <2>7. d \in after /\ after \subseteq Names /\ before \subseteq after
    BY <2>5, <2>6 DEF Step
  <2>8. CASE Closed(before)
    <3>1. after = before
      BY <2>6, <2>8 DEF Step, Closed
    <3>2. Good(k)
      BY <3>1, <2>7, <2>8 DEF after, before
    <3> QED BY <3>2, <2>2
  <2>9. CASE ~Closed(before)
    <3>1. after # before
      BY <2>6, <2>9 DEF Step, Closed
    <3>2. IsFiniteSet(after) /\ IsFiniteSet(before)
      BY <2>5, <2>7, <1>2, FS_Subset
    <3>3. /\ Cardinality(before) <= Cardinality(after)
          /\ Cardinality(before) # Cardinality(after)
      BY <3>1, <3>2, <2>7, FS_Subset
    <3>4. Cardinality(before) \in Nat /\ Cardinality(after) \in Nat
      BY <3>2, FS_CardinalityType
    <3>5. Cardinality(before) >= k
      BY <2>5, <2>9
    <3>6. Cardinality(after) >= k + 1
      BY <3>3, <3>4, <3>5, <2>4
    <3>7. Good(k)
      BY <3>6, <2>7 DEF after
    <3> QED BY <3>7, <2>2
  <2> QED BY <2>8, <2>9
<1>6. Good(N)
  BY <1>5, <1>1
<1>7. ~(Cardinality(w[N]) >= N + 1)
  <2>1. Cardinality(w[N]) <= Cardinality(Names) /\ IsFiniteSet(w[N])
    BY <1>2, <1>6, FS_Subset
  <2>2. Cardinality(w[N]) \in Nat
    BY <2>1, FS_CardinalityType
  <2> QED BY <2>1, <2>2, <1>1, <1>2
<1> QED BY <1>3, <1>6, <1>7

-----------------------------------------------------------------------------
(***************************************************************************)
(* What can go wrong only for a cause.  Reachable is Reached without its   *)
(* steps: whatever contains d and all that its members lead to contains e. *)
(***************************************************************************)
Reachable(d, e) == \A S \in SUBSET Names : d \in S /\ Closed(S) => e \in S

Loops == \E d, e \in Names : Leads(d, e) /\ Reachable(e, d)

Early(d, e) ==
  /\ d \in program.present
  /\ Reachable(d, e)
  /\ \E i \in DOMAIN Body(e) :
       Body(e)[i].kind = "member" /\ Body(e)[i].of >= d

TooEarly == \E d, e \in Names : Early(d, e)

LEMMA ReachableIsReached ==
  ASSUME NEW d \in Names, NEW e, Reachable(d, e)
  PROVE  e \in Reached(d)
BY ReachedIsClosed DEF Reachable

LEMMA CausesAreReal ==
  /\ Loops => Recursive
  /\ TooEarly => UsedEarly
BY ReachableIsReached DEF Loops, Recursive, TooEarly, Early, UsedEarly

LEMMA ReachableFurther ==
  ASSUME NEW d, NEW e, NEW f \in Names, Reachable(d, e), Leads(e, f)
  PROVE  Reachable(d, f)
BY DEF Reachable, Closed

LEMMA ReachableAtOnce == ASSUME NEW d PROVE Reachable(d, d)
BY DEF Reachable

LEMMA CausesKept ==
  ASSUME program' = program
  PROVE  /\ Sound' <=> Sound
         /\ Loops' <=> Loops
         /\ TooEarly' <=> TooEarly
         /\ \A d, e : Leads(d, e)' <=> Leads(d, e)
         /\ \A d, e : Reachable(d, e)' <=> Reachable(d, e)
<1>1. \A d, i : Resolved(d, i)' <=> Resolved(d, i)
  BY DEF Resolved, Found, Attached, Body
<1>2. Sound' <=> Sound
  BY <1>1 DEF Sound, AllResolved, Body
<1>3. \A d, e : Leads(d, e)' <=> Leads(d, e)
  BY DEF Leads, Body
<1>4. \A S : Closed(S)' <=> Closed(S)
  BY <1>3 DEF Closed
<1>5. \A d, e : Reachable(d, e)' <=> Reachable(d, e)
  BY <1>4 DEF Reachable
<1>6. Loops' <=> Loops
  BY <1>3, <1>5 DEF Loops
<1>7. \A d, e : Early(d, e)' <=> Early(d, e)
  BY <1>5 DEF Early, Body
<1>8. TooEarly' <=> TooEarly
  BY <1>7 DEF TooEarly
<1> QED BY <1>2, <1>3, <1>5, <1>6, <1>8

\* Every parser on the stack leads to the one that it waits for, and reaches
\* all above it.
Nested(s) ==
  /\ \A k \in DOMAIN s : k > 1 => Leads(s[k - 1].name, s[k].name)
  /\ \A j, k \in DOMAIN s : j <= k => Reachable(s[j].name, s[k].name)

\* The outermost parser is of a name that parseBundle has come to.
Visited(s) == s # << >> => s[1].name < next

Roomy == MaxDepth \in Nat /\ MaxDepth >= Len(Class)

Causes ==
  /\ nulls # {} => ~Sound
  /\ hollow # {} => ~Sound
  /\ phase \in {"null pointer", "uncaught exception"} => ~Sound
  /\ phase = "overflow" /\ Roomy => Loops
  /\ status = "fail" => ~Sound \/ TooEarly

CInv == Nested(stack) /\ Visited(stack) /\ Causes

\* The names of a part of a stack, whatever the items.
Shorter(s, t) ==
  /\ DOMAIN t \subseteq DOMAIN s
  /\ \A k \in DOMAIN t : t[k].name = s[k].name
  /\ \A k \in DOMAIN t : k > 1 => k - 1 \in DOMAIN t
  /\ t # << >> => s # << >> /\ 1 \in DOMAIN t

LEMMA ShorterKeeps ==
  ASSUME NEW s, NEW t, Shorter(s, t)
  PROVE  /\ Nested(s) => Nested(t)
         /\ Visited(s) => Visited(t)
BY DEF Shorter, Nested, Visited

LEMMA MovedIsShorter ==
  ASSUME NEW s \in Seq(Parsers), NEW p \in DOMAIN s, NEW n
  PROVE  Shorter(s, Moved(s, p, n))
<1> DEFINE t == Moved(s, p, n)
<1>1. s[p] \in Parsers /\ DOMAIN s = 1 .. Len(s) /\ Len(s) \in Nat
  BY ElementOfSeq
<1>2. t = [s EXCEPT ![p] = [s[p] EXCEPT !.at = n]]
  BY DEF Moved
<1>3. [s[p] EXCEPT !.at = n].name = s[p].name
  BY <1>1 DEF Parsers
<1>4. DOMAIN t = DOMAIN s /\ \A k \in DOMAIN t : t[k].name = s[k].name
  BY <1>2, <1>3
<1> HIDE DEF t
<1>5. \A k \in DOMAIN t : k > 1 => k - 1 \in DOMAIN t
  BY <1>1, <1>4
<1>6. s # << >> /\ 1 \in DOMAIN t
  BY <1>1, <1>4
<1>7. Shorter(s, t)
  BY <1>4, <1>5, <1>6 DEF Shorter
<1> QED BY <1>7 DEF t

LEMMA KeptIsShorter ==
  ASSUME TypeOK, NEW kinds, AtItem(kinds), GoOn \/ GiveUp \/ UNCHANGED stack
  PROVE  Shorter(stack, stack')
<1>1. /\ stack \in Seq(Parsers) /\ Len(stack) \in DOMAIN stack
      /\ DOMAIN stack = 1 .. Len(stack) /\ Len(stack) \in Nat \ {0}
      /\ stack # << >>
  BY ItemIsTyped, ParserIsTyped DEF TypeOK, Parsers
<1>2. CASE GoOn
  <2>1. PICK n : stack' = Moved(stack, Len(stack), n)
    BY <1>2 DEF GoOn, Moved
  <2> QED BY <1>1, <2>1, MovedIsShorter
<1>3. CASE GiveUp
  <2>1. PICK n : stack' = Moved(stack, Len(stack), n)
    BY <1>3 DEF GiveUp, Moved
  <2> QED BY <1>1, <2>1, MovedIsShorter
<1>4. CASE UNCHANGED stack
  BY <1>1, <1>4 DEF Shorter
<1> QED BY <1>2, <1>3, <1>4

\* A stack with more parsers than there are names holds one of them twice.
LEMMA DeepIsLooping ==
  ASSUME NEW s \in Seq(Parsers), Nested(s), Len(s) > Len(Class)
  PROVE  Loops
<1>1. /\ Len(s) \in Nat /\ DOMAIN s = 1 .. Len(s)
      /\ \A k \in DOMAIN s : s[k] \in Parsers
  BY ElementOfSeq
<1>2. \A k \in DOMAIN s : s[k].name \in Names
  BY <1>1 DEF Parsers
<1> DEFINE f == [k \in 1 .. Len(s) |-> s[k].name]
<1>3. f \in [1 .. Len(s) -> Names]
  BY <1>1, <1>2
<1>4. /\ IsFiniteSet(1 .. Len(s)) /\ Cardinality(1 .. Len(s)) = Len(s)
      /\ IsFiniteSet(Names) /\ Cardinality(Names) = Len(Class)
  BY <1>1, NamesAreNumbers, CountedTo
<1> HIDE DEF f
<1>5. PICK x, y \in 1 .. Len(s) : x # y /\ f[x] = f[y]
  BY <1>1, <1>3, <1>4, NamesAreNumbers, FS_PigeonHole
<1>6. \A j, k \in 1 .. Len(s) : j < k /\ f[j] = f[k] => Loops
  <2> SUFFICES ASSUME NEW j \in 1 .. Len(s), NEW k \in 1 .. Len(s),
                      j < k, f[j] = f[k]
               PROVE  Loops
    OBVIOUS
  <2>1. /\ j \in DOMAIN s /\ k \in DOMAIN s /\ j + 1 \in DOMAIN s
        /\ j + 1 > 1 /\ j + 1 <= k /\ j + 1 - 1 = j
    BY <1>1
  <2>2. Leads(s[j].name, s[j + 1].name) /\ Reachable(s[j + 1].name, s[k].name)
    BY <2>1 DEF Nested
  <2>3. s[j].name = s[k].name
    BY DEF f
  <2> QED BY <1>2, <2>1, <2>2, <2>3 DEF Loops
<1>7. x < y \/ y < x
  BY <1>5
<1> QED BY <1>5, <1>6, <1>7

LEMMA EnterKeepsCauses ==
  ASSUME TypeOK, phase = "running", NEW d \in program.present, Enter(d),
         Nested(stack), stack # << >> => Leads(Me, d)
  PROVE  /\ Nested(stack')
         /\ stack # << >> /\ Visited(stack) /\ UNCHANGED next => Visited(stack)'
         /\ stack = << >> /\ phase' = "running" => stack'[1].name = d
         /\ phase' \in {"running", "overflow"}
         /\ phase' = "overflow" => stack' = stack /\ (Roomy => Loops)
<1>1. StackOK(stack) /\ program \in Programs /\ d \in Names
  BY StackIsTyped, PresentAreNames
<1> DEFINE t == Append(stack, [name |-> d, at |-> 1])
<1>2. /\ StackOK(t)
      /\ Len(t) = Len(stack) + 1
      /\ Len(stack) \in Nat
      /\ DOMAIN stack = 1 .. Len(stack)
      /\ DOMAIN t = 1 .. Len(stack) + 1
      /\ \A k \in DOMAIN stack : t[k] = stack[k]
      /\ t[Len(stack) + 1].name = d
      /\ t[Len(stack) + 1].at = 1
  BY <1>1, PushIsTyped
<1>3. Enter(d) => \/ Len(stack) < MaxDepth /\ stack' = t /\ phase' = phase
                  \/ ~(Len(stack) < MaxDepth) /\ stack' = stack /\ phase' = "overflow"
  BY DEF Enter, Crash
<1> HIDE DEF t
<1>4. stack # << >> => Len(stack) \in DOMAIN stack /\ Me = stack[Len(stack)].name
  BY <1>2, ParserIsTyped DEF Me
<1>5. Nested(t)
  <2>1. \A k \in DOMAIN t : k > 1 => Leads(t[k - 1].name, t[k].name)
    <3> SUFFICES ASSUME NEW k \in DOMAIN t, k > 1
                 PROVE  Leads(t[k - 1].name, t[k].name)
      OBVIOUS
    <3>1. CASE k \in DOMAIN stack
      <4>1. k - 1 \in DOMAIN stack
        BY <1>2, <3>1
      <4> QED BY <1>2, <3>1, <4>1 DEF Nested
    <3>2. CASE k = Len(stack) + 1
      <4>1. k - 1 = Len(stack) /\ k - 1 \in DOMAIN stack /\ stack # << >>
        BY <1>2, <3>2
      <4> QED BY <1>2, <1>4, <3>2, <4>1
    <3> QED BY <1>2, <3>1, <3>2
  <2>2. \A j \in DOMAIN stack : Reachable(stack[j].name, d)
    <3> SUFFICES ASSUME NEW j \in DOMAIN stack PROVE Reachable(stack[j].name, d)
      OBVIOUS
    <3>1. stack # << >> /\ j <= Len(stack)
      BY <1>2
    <3>2. Reachable(stack[j].name, Me) /\ Leads(Me, d)
      BY <3>1, <1>4 DEF Nested
    <3> QED BY <3>2, <1>1, ReachableFurther
  <2>3. ASSUME NEW j \in DOMAIN t, NEW k \in DOMAIN t, j <= k
        PROVE  Reachable(t[j].name, t[k].name)
    <3>1. CASE k \in DOMAIN stack
      <4>1. j \in DOMAIN stack
        BY <1>2, <2>3, <3>1
      <4> QED BY <1>2, <2>3, <3>1, <4>1 DEF Nested
    <3>2. CASE k = Len(stack) + 1
      <4>1. CASE j = k
        BY <4>1, ReachableAtOnce
      <4>2. CASE j \in DOMAIN stack
        BY <1>2, <2>2, <3>2, <4>2
      <4> QED BY <1>2, <2>3, <3>2, <4>1, <4>2
    <3> QED BY <1>2, <3>1, <3>2
  <2> QED BY <2>1, <2>3 DEF Nested
<1>6. ASSUME ~(Len(stack) < MaxDepth), Roomy PROVE Loops
  <2>1. Len(t) > Len(Class)
    BY <1>2, <1>6, NamesAreNumbers DEF Roomy
  <2>2. t \in Seq(Parsers)
    BY <1>2 DEF StackOK
  <2> QED BY <2>1, <2>2, <1>5, DeepIsLooping
<1>7. CASE stack' = t /\ phase' = phase
  <2>1. stack # << >> => 1 \in DOMAIN stack
    BY <1>2, <1>4
  <2>2. stack = << >> => Len(stack) = 0 /\ t[1].name = d
    BY <1>2
  <2>3. stack # << >> => t[1] = stack[1]
    BY <1>2, <2>1
  <2> QED BY <1>5, <1>7, <2>2, <2>3 DEF Visited
<1>8. CASE ~(Len(stack) < MaxDepth) /\ stack' = stack /\ phase' = "overflow"
  BY <1>6, <1>8 DEF Visited
<1> QED BY <1>3, <1>7, <1>8

-----------------------------------------------------------------------------
(***************************************************************************)
(* Every step has its cause.                                               *)
(***************************************************************************)
LEMMA CausesStep ==
  ASSUME CInv, program' = program, Nested(stack'), Visited(stack)',
         nulls' # {} => nulls # {} \/ ~Sound,
         hollow' # {} => hollow # {} \/ ~Sound,
         phase' \in {"null pointer", "uncaught exception"} => ~Sound,
         phase' = "overflow" /\ Roomy => Loops,
         status' = "fail" => status = "fail" \/ ~Sound \/ TooEarly
  PROVE  CInv'
<1>1. Nested(stack)'
  BY CausesKept DEF Nested
<1>2. Causes'
  BY CausesKept DEF CInv, Causes, Roomy
<1> QED BY <1>1, <1>2 DEF CInv

LEMMA InnermostIsReached ==
  ASSUME TypeOK, Nested(stack), stack # << >>
  PROVE  /\ stack[1].name \in Names /\ stack[1].name \in program.present
         /\ Me \in Names /\ Me \in program.present
         /\ Reachable(stack[1].name, Me)
<1>1. /\ Len(stack) \in Nat \ {0} /\ Len(stack) \in DOMAIN stack
      /\ DOMAIN stack = 1 .. Len(stack) /\ stack[Len(stack)] = Parser
  BY ParserIsTyped
<1>2. 1 \in DOMAIN stack /\ 1 <= Len(stack)
  BY <1>1
<1>3. \A k \in DOMAIN stack : stack[k].name \in program.present
  BY DEF TypeOK
<1>4. Reachable(stack[1].name, stack[Len(stack)].name)
  BY <1>1, <1>2 DEF Nested
<1> QED BY <1>1, <1>2, <1>3, <1>4, PresentAreNames DEF TypeOK, Me

\* An item that is not resolved is an error in the program.
LEMMA UnresolvedIsUnsound ==
  ASSUME TypeOK, NEW kinds, AtItem(kinds), ~Resolved(Me, Parser.at)
  PROVE  ~Sound
<1>1. stack # << >> /\ Parser.at \in DOMAIN Body(Me)
  BY ItemIsTyped
<1>2. Len(stack) \in DOMAIN stack /\ stack[Len(stack)] = Parser
  BY <1>1, ParserIsTyped
<1>3. Me \in program.present
  BY <1>2 DEF TypeOK, Me
<1> QED BY <1>1, <1>3 DEF Sound, AllResolved

LEMMA ItemLeads ==
  ASSUME TypeOK, NEW kinds, AtItem(kinds), Found(Me, Item.of),
         Item.kind \in Calls \/ Class[Item.of] = "alias"
  PROVE  Leads(Me, Item.of)
<1>1. stack # << >> /\ Parser.at \in DOMAIN Body(Me) /\ Item = Body(Me)[Parser.at]
  BY ItemIsTyped
<1>2. Len(stack) \in DOMAIN stack /\ stack[Len(stack)] = Parser
  BY <1>1, ParserIsTyped
<1>3. Me \in program.present
  BY <1>2 DEF TypeOK, Me
<1> QED BY <1>1, <1>3 DEF Leads, Found

\* A member that is not known yet is no member, or parseBundle has not come
\* behind its definition.
LEMMA UnknownHasCause ==
  ASSUME TypeOK, Nested(stack), Visited(stack), AtItem({"member"}),
         Item.index \notin 1 .. KnownMembers(Item.of)
  PROVE  ~Sound \/ TooEarly
<1>1. /\ stack # << >> /\ Parser.at \in DOMAIN Body(Me)
      /\ Item = Body(Me)[Parser.at] /\ Item.of \in Names /\ Item \in Items
  BY ItemIsTyped
<1>2. Item.kind = "member"
  BY DEF AtItem
<1> DEFINE d == stack[1].name
<1>3. /\ d \in Names /\ d \in program.present /\ Me \in Names
      /\ Reachable(d, Me) /\ d < next
  BY <1>1, InnermostIsReached DEF Visited
<1>4. d \in Nat /\ Item.of \in Nat /\ next \in Nat
  BY <1>1, <1>3, NamesAreNumbers DEF TypeOK
<1>5. CASE Item.of >= d
  <2>1. Early(d, Me)
    BY <1>1, <1>2, <1>3, <1>5 DEF Early
  <2> QED BY <1>3, <2>1 DEF TooEarly
<1>6. CASE ~(Item.of >= d)
  <2>1. Item.of < next /\ Item.of # d
    BY <1>3, <1>4, <1>6
  <2>2. KnownMembers(Item.of) = Len(Body(Item.of))
    BY <2>1 DEF KnownMembers
  <2>3. ~Resolved(Me, Parser.at)
    BY <1>1, <1>2, <2>2 DEF Resolved
  <2> QED BY <2>3, UnresolvedIsUnsound
<1> QED BY <1>5, <1>6

LEMMA InitHasNoCause == Init => CInv
<1> SUFFICES ASSUME Init PROVE CInv
  OBVIOUS
<1>1. stack = << >> /\ DOMAIN stack = {}
  BY DEF Init
<1>2. Nested(stack) /\ Visited(stack)
  BY <1>1 DEF Nested, Visited
<1> QED BY <1>2 DEF Init, CInv, Causes

LEMMA VisitNameHasCause == TypeOK /\ CInv /\ VisitName => CInv'
<1> SUFFICES ASSUME TypeOK, CInv, VisitName PROVE CInv'
  OBVIOUS
<1>1. /\ phase = "running" /\ stack = << >> /\ next \in Names /\ next' = next + 1
      /\ UNCHANGED <<program, parsed, nulls, hollow, status>>
      /\ Nested(stack) /\ Causes
  BY DEF VisitName, CInv
<1>2. DOMAIN stack = {} /\ next \in Nat /\ stack = << >>
  BY <1>1, NamesAreNumbers
<1>3. CASE next \in nulls
  <2>1. stack' = stack /\ phase' = "null pointer" /\ ~Sound
    BY <1>1, <1>3 DEF VisitName, Crash, Causes
  <2>2. Visited(stack)'
    BY <1>1, <2>1 DEF Visited
  <2> QED BY <1>1, <2>1, <2>2, CausesStep
<1>4. CASE next \notin nulls /\ next \in program.present \ parsed
  <2>1. Enter(next) /\ next \in program.present
    BY <1>4 DEF VisitName
  <2>2. /\ Nested(stack')
        /\ phase' = "running" => stack'[1].name = next
        /\ phase' \in {"running", "overflow"}
        /\ phase' = "overflow" => stack' = stack /\ (Roomy => Loops)
    BY <1>1, <2>1, EnterKeepsCauses
  <2>3. Visited(stack)'
    BY <1>1, <1>2, <2>2 DEF Visited
  <2>4. phase' \notin {"null pointer", "uncaught exception"}
    BY <2>2
  <2> QED BY <1>1, <2>2, <2>3, <2>4, CausesStep
<1>5. CASE next \notin nulls /\ next \notin program.present \ parsed
  <2>1. stack' = stack /\ phase' = phase
    BY <1>5 DEF VisitName
  <2>2. Visited(stack)'
    BY <1>1, <2>1 DEF Visited
  <2> QED BY <1>1, <2>1, <2>2, CausesStep DEF Causes
<1> QED BY <1>3, <1>4, <1>5

LEMMA ReturnBundleHasCause == TypeOK /\ CInv /\ ReturnBundle => CInv'
<1> SUFFICES ASSUME TypeOK, CInv, ReturnBundle PROVE CInv'
  OBVIOUS
<1>1. /\ UNCHANGED <<program, next, stack, parsed, nulls, hollow>>
      /\ phase' = "returned"
      /\ status' = "fail" => status = "fail"
      /\ Nested(stack) /\ Visited(stack)
  BY DEF ReturnBundle, CInv
<1>2. Nested(stack') /\ Visited(stack)'
  BY <1>1 DEF Visited
<1> QED BY <1>1, <1>2, CausesStep

\* A step of a parser that enters no other.
LEMMA StepHasCause ==
  ASSUME TypeOK, CInv, Shorter(stack, stack'), UNCHANGED <<program, next>>,
         nulls' # nulls => ~Sound,
         hollow' # hollow => hollow # {} \/ ~Sound,
         phase' # phase => phase' # "overflow" /\ ~Sound,
         status' # status => ~Sound \/ TooEarly
  PROVE  CInv'
<1>1. Nested(stack) /\ Visited(stack) /\ Causes
  BY DEF CInv
<1>2. Nested(stack')
  BY <1>1, ShorterKeeps
<1>3. Visited(stack)'
  BY <1>1 DEF Shorter, Visited
<1>4. nulls' # {} => nulls # {} \/ ~Sound
  OBVIOUS
<1>5. hollow' # {} => hollow # {} \/ ~Sound
  OBVIOUS
<1>6. phase' \in {"null pointer", "uncaught exception"} => ~Sound
  BY <1>1 DEF Causes
<1>7. phase' = "overflow" /\ Roomy => Loops
  BY <1>1 DEF Causes
<1>8. status' = "fail" => status = "fail" \/ ~Sound \/ TooEarly
  OBVIOUS
<1> QED BY <1>2, <1>3, <1>4, <1>5, <1>6, <1>7, <1>8, CausesStep

LEMMA TypeMissingHasCause == TypeOK /\ CInv /\ TypeMissing => CInv'
<1> SUFFICES ASSUME TypeOK, CInv, TypeMissing PROVE CInv'
  OBVIOUS
<1>1. /\ AtItem({"type", "argument"}) /\ ~Found(Me, Item.of) /\ GoOn
      /\ UNCHANGED <<program, next, parsed, phase>>
  BY DEF TypeMissing
<1>2. Item = Body(Me)[Parser.at]
  BY <1>1, ItemIsTyped
<1>3. ~Sound
  BY <1>1, <1>2, UnresolvedIsUnsound DEF Resolved
<1>4. Shorter(stack, stack')
  BY <1>1, KeptIsShorter
<1> QED BY <1>1, <1>3, <1>4, StepHasCause

LEMMA TypeFoundHasCause == TypeOK /\ CInv /\ TypeFound => CInv'
<1> SUFFICES ASSUME TypeOK, CInv, TypeFound PROVE CInv'
  OBVIOUS
<1>1. /\ AtItem({"type", "argument"}) /\ Found(Me, Item.of)
      /\ UNCHANGED <<program, next, parsed, nulls, hollow, status>>
      /\ phase = "running" /\ stack # << >>
      /\ Nested(stack) /\ Visited(stack) /\ Causes
  BY DEF TypeFound, AtItem, CInv
<1>2. CASE Class[Item.of] = "alias"
  <2>1. Enter(Item.of) /\ Leads(Me, Item.of) /\ Item.of \in program.present
    BY <1>1, <1>2, ItemLeads DEF TypeFound, Found
  <2>2. /\ Nested(stack')
        /\ Visited(stack)'
        /\ phase' \in {"running", "overflow"}
        /\ phase' = "overflow" /\ Roomy => Loops
    BY <1>1, <2>1, EnterKeepsCauses
  <2>3. phase' \notin {"null pointer", "uncaught exception"}
    BY <2>2
  <2> QED BY <1>1, <2>2, <2>3, CausesStep
<1>3. CASE Class[Item.of] # "alias"
  <2>1. GoOn /\ UNCHANGED phase
    BY <1>3 DEF TypeFound
  <2>2. Shorter(stack, stack')
    BY <1>1, <2>1, KeptIsShorter
  <2> QED BY <1>1, <2>1, <2>2, StepHasCause
<1> QED BY <1>2, <1>3

LEMMA CaptureHasCause == TypeOK /\ CInv /\ Capture => CInv'
<1> SUFFICES ASSUME TypeOK, CInv, Capture PROVE CInv'
  OBVIOUS
<1>1. /\ AtItem({"capture"}) /\ GoOn
      /\ status' # status => ~Found(Me, Item.of)
      /\ UNCHANGED <<program, next, parsed, nulls, hollow, phase>>
  BY DEF Capture
<1>2. Item = Body(Me)[Parser.at]
  BY <1>1, ItemIsTyped
<1>3. status' # status => ~Sound
  BY <1>1, <1>2, UnresolvedIsUnsound DEF Resolved
<1>4. Shorter(stack, stack')
  BY <1>1, KeptIsShorter
<1> QED BY <1>1, <1>3, <1>4, StepHasCause

LEMMA AssignToStoreHasCause == TypeOK /\ CInv /\ AssignToStore => CInv'
<1> SUFFICES ASSUME TypeOK, CInv, AssignToStore PROVE CInv'
  OBVIOUS
<1> DEFINE captured == Class[Item.of] = "context" => Captured(Item.of)
           known == Item.index \in 1 .. KnownMembers(Item.of)
<1>1. /\ AtItem({"member"})
      /\ UNCHANGED <<program, next, parsed, nulls, hollow>>
      /\ Nested(stack) /\ Visited(stack) /\ Causes
      /\ \/ /\ ~(Found(Me, Item.of) /\ captured /\ known)
            /\ status' = "fail" /\ GiveUp /\ UNCHANGED phase
         \/ /\ hollow # {} /\ phase' = "null pointer" /\ UNCHANGED <<stack, status>>
         \/ GoOn /\ UNCHANGED <<status, phase>>
  BY DEF AssignToStore, CInv, Fail, Crash
<1>2. Item = Body(Me)[Parser.at] /\ Item.kind = "member"
  BY <1>1, ItemIsTyped DEF AtItem
<1>3. hollow # {} => ~Sound
  BY <1>1 DEF Causes
<1>4. ~Found(Me, Item.of) => ~Sound
  BY <1>1, <1>2, UnresolvedIsUnsound DEF Resolved
<1>5. Found(Me, Item.of) /\ ~captured => ~Sound
  <2> SUFFICES ASSUME Found(Me, Item.of), ~captured PROVE ~Sound
    OBVIOUS
  <2>1. ~Resolved(Me, Parser.at)
    BY <1>2 DEF Resolved, Captured
  <2> QED BY <1>1, <2>1, UnresolvedIsUnsound
<1>6. ~known => ~Sound \/ TooEarly
  BY <1>1, UnknownHasCause
<1> HIDE DEF captured, known
<1>7. Shorter(stack, stack')
  BY <1>1, KeptIsShorter
<1>8. phase' # phase => phase' # "overflow" /\ ~Sound
  BY <1>1, <1>3
<1>9. status' # status => ~Sound \/ TooEarly
  BY <1>1, <1>4, <1>5, <1>6
<1> QED BY <1>1, <1>7, <1>8, <1>9, StepHasCause

LEMMA AssignToCollectionHasCause == TypeOK /\ CInv /\ AssignToCollection => CInv'
<1> SUFFICES ASSUME TypeOK, CInv, AssignToCollection PROVE CInv'
  OBVIOUS
<1> DEFINE known == Item.index \in 1 .. KnownMembers(Item.of)
<1>1. /\ AtItem({"member"})
      /\ UNCHANGED <<program, next, parsed, nulls, hollow>>
      /\ Nested(stack) /\ Visited(stack) /\ Causes
      /\ \/ /\ ~Found(Me, Item.of)
            /\ phase' = "null pointer" /\ UNCHANGED stack
         \/ ~known /\ GiveUp /\ UNCHANGED phase
         \/ /\ hollow # {} /\ phase' = "null pointer" /\ UNCHANGED <<stack, status>>
         \/ GoOn /\ UNCHANGED <<status, phase>>
  BY DEF AssignToCollection, CInv, Fail, Crash
<1>2. Item = Body(Me)[Parser.at]
  BY <1>1, ItemIsTyped
<1>3. hollow # {} => ~Sound
  BY <1>1 DEF Causes
<1>4. ~Found(Me, Item.of) => ~Sound
  BY <1>1, <1>2, UnresolvedIsUnsound DEF Resolved
<1>5. ~known => ~Sound \/ TooEarly
  BY <1>1, UnknownHasCause
<1> HIDE DEF known
<1>6. Shorter(stack, stack')
  BY <1>1, KeptIsShorter
<1>7. phase' # phase => phase' # "overflow" /\ ~Sound
  BY <1>1, <1>3, <1>4
<1>8. status' # status => ~Sound \/ TooEarly
  BY <1>1, <1>4, <1>5
<1> QED BY <1>1, <1>6, <1>7, <1>8, StepHasCause

LEMMA CallUnattachedHasCause == TypeOK /\ CInv /\ CallUnattached => CInv'
<1> SUFFICES ASSUME TypeOK, CInv, CallUnattached PROVE CInv'
  OBVIOUS
<1>1. /\ AtItem(Calls) /\ ~Attached(Me, Item.of)
      /\ phase' = "uncaught exception"
      /\ UNCHANGED <<program, next, stack, parsed, nulls, hollow, status>>
  BY DEF CallUnattached, Crash
<1>2. Item = Body(Me)[Parser.at]
  BY <1>1, ItemIsTyped
<1>3. ~Sound
  BY <1>1, <1>2, UnresolvedIsUnsound DEF Resolved, Found
<1>4. Shorter(stack, stack')
  BY <1>1, KeptIsShorter
<1> QED BY <1>1, <1>3, <1>4, StepHasCause

LEMMA ParseCalleeHasCause == TypeOK /\ CInv /\ ParseCallee => CInv'
<1> SUFFICES ASSUME TypeOK, CInv, ParseCallee PROVE CInv'
  OBVIOUS
<1>1. /\ AtItem(Calls) /\ Found(Me, Item.of) /\ Enter(Item.of)
      /\ UNCHANGED <<program, next, parsed, nulls, hollow, status>>
      /\ phase = "running" /\ stack # << >> /\ Item.kind \in Calls
      /\ Nested(stack) /\ Visited(stack) /\ Causes
  BY DEF ParseCallee, AtItem, CInv
<1>2. Leads(Me, Item.of) /\ Item.of \in program.present
  BY <1>1, ItemLeads DEF Found
<1>3. /\ Nested(stack')
      /\ Visited(stack)'
      /\ phase' \in {"running", "overflow"}
      /\ phase' = "overflow" /\ Roomy => Loops
  BY <1>1, <1>2, EnterKeepsCauses
<1>4. phase' \notin {"null pointer", "uncaught exception"}
  BY <1>3
<1> QED BY <1>1, <1>3, <1>4, CausesStep

LEMMA CallFailsHasCause == TypeOK /\ CInv /\ CallFails => CInv'
<1> SUFFICES ASSUME TypeOK, CInv, CallFails PROVE CInv'
  OBVIOUS
<1>1. /\ AtItem(Calls) /\ Item.kind \in Calls
      /\ Item.of \notin program.present \/ ~Item.fits
      /\ UNCHANGED <<program, next, parsed, nulls, hollow>>
      /\ GoOn \/ GiveUp \/ UNCHANGED stack
      /\ phase' # phase => phase' = "null pointer"
  BY DEF CallFails, AtItem, Crash
<1>2. Item = Body(Me)[Parser.at]
  BY <1>1, ItemIsTyped
<1>3. ~Sound
  BY <1>1, <1>2, UnresolvedIsUnsound DEF Resolved, Found
<1>4. Shorter(stack, stack')
  BY <1>1, KeptIsShorter
<1> QED BY <1>1, <1>3, <1>4, StepHasCause

LEMMA CallParsedHasCause == TypeOK /\ CInv /\ CallParsed => CInv'
<1> SUFFICES ASSUME TypeOK, CInv, CallParsed PROVE CInv'
  OBVIOUS
<1>1. /\ AtItem(Calls)
      /\ UNCHANGED <<program, next, parsed, nulls, hollow, status>>
      /\ \/ hollow # {} /\ phase' = "null pointer" /\ UNCHANGED stack
         \/ GoOn /\ UNCHANGED phase
      /\ Causes
  BY DEF CallParsed, CInv, Crash, HollowArgument
<1>2. hollow # {} => ~Sound
  BY <1>1 DEF Causes
<1>3. Shorter(stack, stack')
  BY <1>1, KeptIsShorter
<1>4. phase' # phase => phase' # "overflow" /\ ~Sound
  BY <1>1, <1>2
<1> QED BY <1>1, <1>3, <1>4, StepHasCause

LEMMA OuterIsShorter ==
  ASSUME TypeOK, stack # << >>
  PROVE  Shorter(stack, Outer)
<1>1. /\ Len(stack) \in Nat \ {0} /\ DOMAIN Outer = 1 .. Len(stack) - 1
      /\ DOMAIN stack = 1 .. Len(stack) /\ StackOK(Outer)
      /\ \A k \in DOMAIN Outer : Outer[k] = stack[k]
  BY StackIsTyped, OuterIsTyped
<1>2. Outer # << >> => 1 \in DOMAIN Outer
  BY <1>1 DEF StackOK
<1> QED BY <1>1, <1>2 DEF Shorter

LEMMA FinishDefinitionHasCause == TypeOK /\ CInv /\ FinishDefinition => CInv'
<1> SUFFICES ASSUME TypeOK, CInv, FinishDefinition PROVE CInv'
  OBVIOUS
<1>1. /\ stack # << >> /\ stack' = Outer
      /\ UNCHANGED <<program, next, nulls, hollow, status, phase>>
  BY DEF FinishDefinition, AtEnd
<1>2. Shorter(stack, stack')
  BY <1>1, OuterIsShorter
<1> QED BY <1>1, <1>2, StepHasCause

LEMMA FinishAliasHasCause == TypeOK /\ CInv /\ FinishAlias => CInv'
<1> SUFFICES ASSUME TypeOK, CInv, FinishAlias PROVE CInv'
  OBVIOUS
<1> DEFINE n == Len(stack) - 1
<1>1. /\ stack # << >> /\ Len(stack) > 1
      /\ hollow' # hollow => hollow # {}
      /\ UNCHANGED <<program, next, parsed, nulls, status, phase>>
  BY DEF FinishAlias, AtEnd
<1>2. \E at : stack' = Moved(Outer, n, at)
  <2>1. stack' = Moved(Outer, n, Outer[n].at + 1)
    BY DEF FinishAlias, Moved
  <2> QED BY <2>1
<1>3. PICK at : stack' = Moved(Outer, n, at)
  BY <1>2
<1>4. /\ Shorter(stack, Outer) /\ Outer \in Seq(Parsers)
      /\ n \in DOMAIN Outer
  BY <1>1, OuterIsShorter, StackIsTyped, OuterIsTyped DEF StackOK
<1>5. Shorter(Outer, stack')
  BY <1>3, <1>4, MovedIsShorter
<1>6. Shorter(stack, stack')
  BY <1>4, <1>5 DEF Shorter
<1> QED BY <1>1, <1>6, StepHasCause

LEMMA CausesHold == Spec => []CInv
<1>1. IInv => TypeOK
  BY DEF IInv
<1>2. TypeOK /\ CInv /\ [Next]_vars => CInv'
  <2> SUFFICES ASSUME TypeOK, CInv, [Next]_vars PROVE CInv'
    OBVIOUS
  <2>1. CASE UNCHANGED vars
    <3>1. UNCHANGED <<program, next, stack, nulls, hollow, status, phase>>
      BY <2>1 DEF vars
    <3>2. Nested(stack) /\ Visited(stack) /\ Causes
      BY DEF CInv
    <3>3. Nested(stack') /\ Visited(stack)'
      BY <3>1, <3>2 DEF Visited
    <3> QED BY <3>1, <3>2, <3>3, CausesStep DEF Causes
  <2>2. CASE Next
    BY <2>2, VisitNameHasCause, ReturnBundleHasCause, TypeMissingHasCause,
       TypeFoundHasCause, CaptureHasCause, AssignToStoreHasCause,
       AssignToCollectionHasCause, CallUnattachedHasCause, ParseCalleeHasCause,
       CallFailsHasCause, CallParsedHasCause, FinishDefinitionHasCause,
       FinishAliasHasCause DEF Next
  <2> QED BY <2>1, <2>2
<1> QED BY <1>1, <1>2, InitHasNoCause, InvariantHolds, PTL DEF Spec

\* The stage fails only for a program with an error in it, or for one in which
\* something that parseBundle visits uses a member of a definition that it has
\* not left behind.
THEOREM FailureAlwaysHasCause == Spec => []FailureHasCause
<1>1. CInv => FailureHasCause
  BY CausesAreReal DEF CInv, Causes, FailureHasCause
<1> QED BY <1>1, CausesHold, PTL

\* The compiler crashes only for a program with an error in it.  Where as many
\* nested parsers fit on its stack as there are names, only a recursive program
\* makes it run out of stack: each parser on the stack leads to the next, and
\* one more than there are names would be the second of some name.
THEOREM CrashAlwaysHasCause ==
  ASSUME MaxDepth \in Nat, MaxDepth >= Len(Class)
  PROVE  Spec => []CrashHasCause
<1>1. CInv => CrashHasCause
  BY CausesAreReal DEF CInv, Causes, CrashHasCause, Roomy
<1> QED BY <1>1, CausesHold, PTL
=============================================================================
