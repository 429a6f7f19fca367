----------------------------- MODULE ParseStage -----------------------------
(***************************************************************************)
(* The second stage of tabic, src/src/tabic/parse.cpp: parseBundle, the    *)
(* parsers of types, contexts, dumps and functions, and the statements in  *)
(* a function that refer to any of these.                                  *)
(*                                                                         *)
(* parseBundle visits the definitions one after the other.  A call parses  *)
(* its callee and a reference to an alias type parses the alias before it  *)
(* goes on, so the state is a stack of nested parsers.  A reference that   *)
(* cannot be resolved is reported in one of many ways: the status is set   *)
(* and parsing goes on with the next item, or it is set and the rest of    *)
(* the block is given up, or nobody catches the exception, or a null       *)
(* pointer is used.                                                        *)
(*                                                                         *)
(* A definition is a name that may be defined, with a sequence of items:   *)
(*                                                                         *)
(*   type      a type of a member, of a local variable, or behind an alias *)
(*   argument  a type in a function's list of arguments                    *)
(*   capture   a context in a function's list of captures                  *)
(*   member    a member of a local variable of collection type, of a       *)
(*             context or of a dump is assigned to                         *)
(*   call      a procedure call                                            *)
(*   init      a local variable is declared with a call as its initialiser *)
(*   value     a call in a return statement, or as the initialiser of a    *)
(*             member of a context or dump                                 *)
(***************************************************************************)
EXTENDS Naturals, Sequences

CONSTANTS
  Class,    \* Class[d] and Slab[d]: what the d-th definition is and where,
  Slab,     \* in the order in which parseBundle visits them
  Programs, \* the programs considered
  MaxDepth  \* the parsers that fit on the compiler's stack

Names == DOMAIN Class
StoreClasses == {"context", "dump"}
FunctionClasses == {"function", "external"}
Calls == {"call", "init", "value"}

Items == [kind : {"type", "argument", "capture", "member"} \cup Calls,
          of : Names,
          index : Nat,      \* the member, for a member
          fits : BOOLEAN]   \* the number of arguments is right, for a call

ASSUME ClassAssumption ==
  /\ Class \in Seq({"collection", "alias", "context", "dump", "function",
                    "external"})
  /\ Slab \in [Names -> Nat]
ASSUME ProgramsAssumption ==
  Programs \subseteq [present : SUBSET Names,
                      attached : SUBSET (Nat \X Nat),
                      body : [Names -> Seq(Items)]]

\* What the grammar and the parsers for an item's kind allow.
Kinds(class) ==
  IF class \in {"collection", "alias"} THEN {"type"}
  ELSE IF class \in {"context", "dump"} THEN {"type", "value"}
  ELSE IF class = "external" THEN {"argument"}
  ELSE {"type", "argument", "capture", "member"} \cup Calls

Targets(kind) ==
  IF kind \in {"type", "argument"} THEN {"collection", "alias"}
  ELSE IF kind = "capture" THEN {"context"}
  ELSE IF kind = "member" THEN {"collection", "context", "dump"}
  ELSE {"function", "external"}

ASSUME ItemsAssumption ==
  \A p \in Programs, d \in Names :
    /\ Class[d] = "alias" => Len(p.body[d]) = 1
    /\ \A i \in DOMAIN p.body[d] :
         /\ p.body[d][i].kind \in Kinds(Class[d])
         /\ Class[p.body[d][i].of] \in Targets(p.body[d][i].kind)

VARIABLES
  program,  \* what the create stage found: the names that are defined, which
            \* slabs are attached to which, and the items
  next,     \* the name at which parseBundle's loops are
  stack,    \* the nested parsers, the innermost last, each at an item
  parsed,   \* the functions whose parseStatus is complete
  nulls,    \* the names that a lookup has put into create.types
  hollow,   \* the items <<d, i>> whose type is a null pointer, or an alias
            \* of one
  status,   \* _parseStatus
  phase     \* "running" or "returned", or how the compiler crashed

vars == <<program, next, stack, parsed, nulls, hollow, status, phase>>

Init ==
  /\ program \in Programs
  /\ next = 1
  /\ stack = << >>
  /\ parsed = {}
  /\ nulls = {}
  /\ hollow = {}
  /\ status = "none"
  /\ phase = "running"

Body(d) == program.body[d]
Parser == stack[Len(stack)]
Me == Parser.name
Item == Body(Me)[Parser.at]

AtItem(kinds) ==
  /\ phase = "running"
  /\ stack # << >>
  /\ Parser.at <= Len(Body(Me))
  /\ Item.kind \in kinds

\* The slab of a name is the referring one or attached to it.
Attached(d, e) ==
  Slab[d] = Slab[e] \/ <<Slab[d], Slab[e]>> \in program.attached
Found(d, e) == Attached(d, e) /\ e \in program.present

(***************************************************************************)
(* What becomes of the innermost parser.                                   *)
(***************************************************************************)
GoOn_back == stack' = [stack EXCEPT ![Len(stack)].at = @ - 1]
GoOn == stack' = [stack EXCEPT ![Len(stack)].at = @ + 1]
GiveUp == stack' = [stack EXCEPT ![Len(stack)].at = Len(Body(Me)) + 1]

Fail == status' = "fail"

Crash(how) == phase' = how /\ UNCHANGED stack

Enter(d) ==
  IF Len(stack) < MaxDepth
  THEN stack' = Append(stack, [name |-> d, at |-> 1]) /\ UNCHANGED phase
  ELSE Crash("overflow")

(***************************************************************************)
(* parseBundle.  A name that is not defined has no entry in the maps,      *)
(* unless a lookup put a null pointer there, which parseType then uses.    *)
(***************************************************************************)
VisitName ==
  /\ phase = "running" /\ stack = << >> /\ next \in Names
  /\ next' = next + 1
  /\ IF next \in nulls THEN Crash("null pointer")
     ELSE IF next \in program.present \ parsed THEN Enter(next)
     ELSE UNCHANGED <<stack, phase>>
  /\ UNCHANGED <<program, parsed, nulls, hollow, status>>

ReturnBundle ==
  /\ phase = "running" /\ stack = << >> /\ next \notin Names
  /\ phase' = "returned"
  /\ status' = IF status = "none" THEN "success" ELSE status
  /\ UNCHANGED <<program, next, stack, parsed, nulls, hollow>>

(***************************************************************************)
(* getOrCreateType.  A lookup of a missing name inserts it.                *)
(***************************************************************************)
TypeMissing_quiet ==
  /\ AtItem({"type", "argument"})
  /\ ~Found(Me, Item.of)
  /\ nulls' = IF Attached(Me, Item.of) THEN nulls \cup {Item.of} ELSE nulls
  /\ hollow' = hollow \cup {<<Me, Parser.at>>}
  /\ GoOn
  /\ UNCHANGED <<program, next, parsed, status, phase>>

TypeMissing ==
  /\ AtItem({"type", "argument"})
  /\ ~Found(Me, Item.of)
  /\ nulls' = IF Attached(Me, Item.of) THEN nulls \cup {Item.of} ELSE nulls
  /\ hollow' = hollow \cup {<<Me, Parser.at>>}
  /\ Fail
  /\ GoOn
  /\ UNCHANGED <<program, next, parsed, phase>>

TypeFound_parseAll ==
  /\ AtItem({"type", "argument"})
  /\ Found(Me, Item.of)
  /\ Enter(Item.of)
  /\ UNCHANGED <<program, next, parsed, nulls, hollow, status>>

TypeFound ==
  /\ AtItem({"type", "argument"})
  /\ Found(Me, Item.of)
  /\ IF Class[Item.of] = "alias" THEN Enter(Item.of) ELSE GoOn /\ UNCHANGED phase
  /\ UNCHANGED <<program, next, parsed, nulls, hollow, status>>

(***************************************************************************)
(* parseContextRef in the list of captures, which may get a null pointer.  *)
(***************************************************************************)
Capture ==
  /\ AtItem({"capture"})
  /\ status' = IF Found(Me, Item.of) THEN status ELSE "fail"
  /\ GoOn
  /\ UNCHANGED <<program, next, parsed, nulls, hollow, phase>>

Captured(d) ==
  \E i \in 1 .. Parser.at - 1 :
    Body(Me)[i].kind = "capture" /\ Body(Me)[i].of = d /\ Found(Me, d)

(***************************************************************************)
(* The members known so far: all of what parseBundle has left behind, and  *)
(* those before the one at which it is.                                    *)
(***************************************************************************)
KnownMembers_oneShort(d) ==
  IF stack # << >> /\ stack[1].name = d THEN stack[1].at - 1
  ELSE IF d < next THEN Len(Body(d)) - 1
  ELSE 0

KnownMembers(d) ==
  IF stack # << >> /\ stack[1].name = d THEN stack[1].at - 1
  ELSE IF d < next THEN Len(Body(d))
  ELSE 0

\* parseAssignment to a member of a context or dump.
AssignToStore ==
  LET known ==
        /\ Found(Me, Item.of)
        /\ Class[Item.of] = "context" => Captured(Item.of)
        /\ Item.index \in 1 .. KnownMembers(Item.of)
  IN /\ AtItem({"member"})
     /\ Class[Item.of] \in StoreClasses
     /\ \/ ~known /\ Fail /\ GiveUp /\ UNCHANGED phase
        \/ /\ known /\ <<Item.of, Item.index>> \in hollow
           /\ Crash("null pointer")
           /\ UNCHANGED status
        \/ /\ known /\ <<Item.of, Item.index>> \notin hollow
           /\ GoOn
           /\ UNCHANGED <<status, phase>>
     /\ UNCHANGED <<program, next, parsed, nulls, hollow>>

\* parseStackedDeclaration of a variable of collection type, then
\* parseAssignment to a member of it.
AssignToCollection ==
  LET known == Item.index \in 1 .. KnownMembers(Item.of)
  IN /\ AtItem({"member"})
     /\ Class[Item.of] = "collection"
     /\ \/ ~Found(Me, Item.of) /\ Fail /\ Crash("null pointer")
        \/ /\ Found(Me, Item.of) /\ ~known
           /\ Fail /\ GiveUp
           /\ UNCHANGED phase
        \/ /\ Found(Me, Item.of) /\ known
           /\ <<Item.of, Item.index>> \in hollow
           /\ Crash("null pointer")
           /\ UNCHANGED status
        \/ /\ Found(Me, Item.of) /\ known
           /\ <<Item.of, Item.index>> \notin hollow
           /\ GoOn
           /\ UNCHANGED <<status, phase>>
     /\ UNCHANGED <<program, next, parsed, nulls, hollow>>

(***************************************************************************)
(* parseFunctionRef, parseProcedureCall and the function calls of          *)
(* parseSingletonExpression under parseExpression.                         *)
(***************************************************************************)
CallUnattached ==
  /\ AtItem(Calls)
  /\ ~Attached(Me, Item.of)
  /\ Crash("uncaught exception")
  /\ UNCHANGED <<program, next, parsed, nulls, hollow, status>>

ParseCallee_marked ==
  /\ AtItem(Calls)
  /\ Found(Me, Item.of)
  /\ Item.of \notin parsed
  /\ parsed' = parsed \cup {Item.of}
  /\ Enter(Item.of)
  /\ UNCHANGED <<program, next, nulls, hollow, status>>

ParseCallee ==
  /\ AtItem(Calls)
  /\ Found(Me, Item.of)
  /\ Item.of \notin parsed
  /\ Enter(Item.of)
  /\ UNCHANGED <<program, next, parsed, nulls, hollow, status>>

\* FunctionNotFound or CallIncorrectNumberOfArgs is caught.  A procedure call
\* is no statement then, a declaration uses the expression it did not get,
\* and the others do not care.
CallFails ==
  /\ AtItem(Calls)
  /\ Attached(Me, Item.of)
  /\ Item.of \notin program.present \/ (Item.of \in parsed /\ ~Item.fits)
  /\ Fail
  /\ \/ Item.kind = "call" /\ GiveUp /\ UNCHANGED phase
     \/ Item.kind = "value" /\ GoOn /\ UNCHANGED phase
     \/ Item.kind = "init" /\ Crash("null pointer")
  /\ UNCHANGED <<program, next, parsed, nulls, hollow>>

HollowArgument(d) ==
  \E i \in DOMAIN Body(d) :
    Body(d)[i].kind = "argument" /\ <<d, i>> \in hollow

CallParsed ==
  /\ AtItem(Calls)
  /\ Found(Me, Item.of)
  /\ Item.of \in parsed
  /\ Item.fits
  /\ IF HollowArgument(Item.of) THEN Crash("null pointer")
     ELSE GoOn /\ UNCHANGED phase
  /\ UNCHANGED <<program, next, parsed, nulls, hollow, status>>

(***************************************************************************)
(* The ends of the parsers.  The parser of an alias returns to the one     *)
(* that looked the alias up, if any, which goes on with its next item.     *)
(***************************************************************************)
AtEnd ==
  phase = "running" /\ stack # << >> /\ Parser.at > Len(Body(Me))

Outer == SubSeq(stack, 1, Len(stack) - 1)

FinishDefinition ==
  /\ AtEnd
  /\ Class[Me] # "alias" \/ Len(stack) = 1
  /\ parsed' = IF Class[Me] \in FunctionClasses THEN parsed \cup {Me} ELSE parsed
  /\ stack' = Outer
  /\ UNCHANGED <<program, next, nulls, hollow, status, phase>>

FinishAlias_repeats ==
  /\ AtEnd
  /\ Class[Me] = "alias" /\ Len(stack) > 1
  /\ stack' = Outer
  /\ UNCHANGED <<program, next, parsed, nulls, hollow, status, phase>>

FinishAlias ==
  LET caller == stack[Len(stack) - 1]
  IN /\ AtEnd
     /\ Class[Me] = "alias" /\ Len(stack) > 1
     /\ stack' = [Outer EXCEPT ![Len(stack) - 1].at = @ + 1]
     /\ hollow' = IF \E i \in DOMAIN Body(Me) : <<Me, i>> \in hollow
                  THEN hollow \cup {<<caller.name, caller.at>>}
                  ELSE hollow
     /\ UNCHANGED <<program, next, parsed, nulls, status, phase>>

Next ==
  \/ VisitName \/ ReturnBundle
  \/ TypeMissing \/ TypeFound
  \/ Capture \/ AssignToStore \/ AssignToCollection
  \/ CallUnattached \/ ParseCallee \/ CallFails \/ CallParsed
  \/ FinishDefinition \/ FinishAlias

\* One thread that only computes: it does not stop by itself.
Spec == Init /\ [][Next]_vars /\ WF_vars(Next)
=============================================================================
