------------------------- MODULE BinaryExpression -------------------------
(***************************************************************************)
(* A chain of binary operators on its way through the compiler.  The       *)
(* grammar is right-recursive, so parseBinaryExpression makes one node per *)
(* operator, whose left operand is a singleton and whose right operand is  *)
(* the rest of the chain, and checks the types of the two operands.        *)
(* buildExpression regroups the nodes in place, on the way down, and emits *)
(* the code on the way up.  Some expressions are built more than once: the *)
(* element count of a heaped vector is built where it is allocated and     *)
(* again where it is unheaped.                                             *)
(***************************************************************************)
EXTENDS Integers, Sequences

CONSTANTS Operators,     \* the values of enum BinaryOperator in use
          TermTypes,     \* the types of the operands in use
          MaxOperators,  \* bound: operators in the chain
          MaxBuilds      \* bound: times the expression is built

Arithmetic == 1 .. 4     \* BINARY_OP_SUB, PLUS, MUL, DIV
Comparisons == 5 .. 10   \* BINARY_OP_LT, GT, LTE, GTE, EQUALS, NOT_EQUAL
Equalities == 9 .. 10

Primitives == {"INT", "FLOAT", "CHAR", "TRUTH", "LONG", "SHORT", "SIZE", "DOUBLE"}

ASSUME OperatorsAssumption == Operators \subseteq Arithmetic \cup Comparisons
ASSUME TermTypesAssumption == TermTypes \subseteq Primitives
ASSUME BoundsAssumption == MaxOperators \in Nat \ {0} /\ MaxBuilds \in Nat \ {0}

VARIABLES
  chain,   \* the operators as they are written
  term,    \* the types of the operands: literals, variables, calls, brackets
  node,    \* the BinaryExpression of each operator, partly parsed at first
  stage,   \* "parse", "failed", "parsed" or "build"
  next,    \* while parsing: the operator whose node is made next
  todo,    \* while building: the calls of buildExpression still to finish
  builds   \* how often the building of the expression has begun

vars == <<chain, term, node, stage, next, todo, builds>>

(* A BinaryExpression is the number of the operator it was parsed from; the *)
(* k-th operand is -k.                                                      *)
Nodes == DOMAIN chain
IsBinary(e) == e > 0

TypeOf(e) == IF IsBinary(e) THEN node[e].type ELSE term[-e]

(* No code has been generated for the node. *)
Unbuilt == [lhs |-> 0, rhs |-> 0, op |-> 0, type |-> "NONE", ep |-> "EP_NONE", value |-> "UNSET"]

Init ==
  /\ \E n \in 1 .. MaxOperators :
        /\ chain \in [1 .. n -> Operators]
        /\ term \in [1 .. n + 1 -> TermTypes]
        /\ node = [x \in 1 .. n |-> Unbuilt]
        /\ next = n
  /\ stage = "parse" /\ todo = <<>> /\ builds = 0

-----------------------------------------------------------------------------
(* parseBinaryExpression *)

(* Slip: floats are given the integer instructions. *)
EquivalentPrimitive_noFloat(type) ==
  IF type \in {"INT", "FLOAT"} THEN "EP_INT" ELSE IF type = "CHAR" THEN "EP_CHAR" ELSE "EP_NONE"

EquivalentPrimitive(type) ==
  IF type = "INT" THEN "EP_INT"
  ELSE IF type = "FLOAT" THEN "EP_FLOAT"
  ELSE IF type = "CHAR" THEN "EP_CHAR" ELSE "EP_NONE"

(* The node of operator x with the rest of the chain on its right. *)
Parsed(x) ==
  [lhs |-> -x,
   rhs |-> IF x = Len(chain) THEN -(x + 1) ELSE x + 1,
   op |-> chain[x],
   type |-> IF chain[x] \in Comparisons THEN "TRUTH" ELSE term[x],
   ep |-> EquivalentPrimitive(term[x]),
   value |-> "UNSET"]

(* The right operand is parsed before the types are compared, so the nodes *)
(* are finished from the last to the first.                                *)
ParseNode ==
  /\ stage = "parse"
  /\ term[next] = TypeOf(Parsed(next).rhs)
  /\ node' = [node EXCEPT ![next] = Parsed(next)]
  /\ stage' = IF next = 1 THEN "parsed" ELSE "parse"
  /\ next' = next - 1
  /\ UNCHANGED <<chain, term, todo, builds>>

(* OperatorTypeMismatch is caught in parseExpression; main stops after a *)
(* parse stage with errors.                                              *)
ParseMismatch ==
  /\ stage = "parse"
  /\ term[next] # TypeOf(Parsed(next).rhs)
  /\ stage' = "failed"
  /\ UNCHANGED <<chain, term, node, next, todo, builds>>

-----------------------------------------------------------------------------
(* buildExpression *)

(* Slip: only arithmetic operators are regrouped. *)
MustRotate_arithmetic(x) ==
  LET y == node[x].rhs
  IN  IsBinary(y) /\ node[x].op > node[y].op /\ node[x].op \in Arithmetic

(* The operators are compared by their place in the enum. *)
MustRotate(x) ==
  LET y == node[x].rhs IN IsBinary(y) /\ node[x].op > node[y].op

(* Slip: a and b change places. *)
Rotate_swapped(x) ==
  LET y == node[x].rhs
  IN  [node EXCEPT ![x].lhs = y, ![x].rhs = node[y].rhs, ![x].op = node[y].op,
                   ![y].lhs = node[y].lhs, ![y].rhs = node[x].lhs, ![y].op = node[x].op]

(* a p (b q c) becomes (a p b) q c.  The two nodes keep their types. *)
Rotate(x) ==
  LET y == node[x].rhs
  IN  [node EXCEPT ![x].lhs = y, ![x].rhs = node[y].rhs, ![x].op = node[y].op,
                   ![y].lhs = node[x].lhs, ![y].rhs = node[y].lhs, ![y].op = node[x].op]

(* The code that is generated for an operator depends on its ep; for some *)
(* pairs none is.                                                         *)
HasCode(op, ep) ==
  \/ ep \in {"EP_INT", "EP_FLOAT"}
  \/ ep = "EP_CHAR" /\ op \in Equalities

(* The type of the value that was generated for e. *)
ValueType(e) == IF IsBinary(e) THEN node[e].value ELSE term[-e]

(* What LLVM accepts as the operands of an integer or a float instruction. *)
Accepts(ep, type) ==
  IF ep = "EP_FLOAT" THEN type \in {"FLOAT", "DOUBLE"}
  ELSE type \in {"INT", "CHAR", "TRUTH", "LONG", "SHORT", "SIZE"}

(* The type of the value of node x once its operands are built. *)
Generated(x) ==
  LET l == ValueType(node[x].lhs)
  IN  IF ~HasCode(node[x].op, node[x].ep) THEN node[x].value
      ELSE IF l # ValueType(node[x].rhs) \/ ~Accepts(node[x].ep, l) THEN "MALFORMED"
      ELSE IF node[x].op \in Comparisons THEN "TRUTH" ELSE l

(* Slip: an operand is built as if it were a binary expression. *)
Enter_anyClass(e) == <<[of |-> e, at |-> "enter"]>>

Enter(e) == IF IsBinary(e) THEN <<[of |-> e, at |-> "enter"]>> ELSE <<>>
Leave(e) == <<[of |-> e, at |-> "leave"]>>

StartBuild ==
  /\ stage \in {"parsed", "build"} /\ todo = <<>>
  /\ builds < MaxBuilds
  /\ stage' = "build"
  /\ todo' = Enter(1)
  /\ builds' = builds + 1
  /\ UNCHANGED <<chain, term, node, next>>

EnterNode ==
  /\ todo # <<>> /\ Head(todo).at = "enter"
  /\ LET x == Head(todo).of IN
        /\ node' = IF MustRotate(x) THEN Rotate(x) ELSE node
        /\ todo' = Enter(node'[x].lhs) \o Enter(node'[x].rhs) \o Leave(x) \o Tail(todo)
  /\ UNCHANGED <<chain, term, stage, next, builds>>

LeaveNode ==
  /\ todo # <<>> /\ Head(todo).at = "leave"
  /\ LET x == Head(todo).of IN node' = [node EXCEPT ![x].value = Generated(x)]
  /\ todo' = Tail(todo)
  /\ UNCHANGED <<chain, term, stage, next, builds>>

Next == ParseNode \/ ParseMismatch \/ StartBuild \/ EnterNode \/ LeaveNode

(* The compiler is one thread, which runs until it ends. *)
Spec == Init /\ [][Next]_vars /\ WF_vars(Next)
=============================================================================
