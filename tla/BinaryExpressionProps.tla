----------------------- MODULE BinaryExpressionProps -----------------------
(***************************************************************************)
(* What the grouping of a chain of operators must preserve and establish.  *)
(***************************************************************************)
EXTENDS BinaryExpression, SequencesExt

(* Types of the variables; the operands of a node are nodes or operands of *)
(* the chain once it is parsed, and an unparsed node is never on the stack. *)
TypeOK ==
  /\ chain \in Seq(Operators) /\ Len(chain) \in 1 .. MaxOperators
  /\ term \in Seq(TermTypes) /\ Len(term) = Len(chain) + 1
  /\ DOMAIN node = Nodes
  /\ stage \in {"parse", "failed", "parsed", "build"}
  /\ next \in 0 .. Len(chain) /\ builds \in 0 .. MaxBuilds
  /\ \A x \in Nodes : x <= next \/
        /\ node[x].op \in Operators
        /\ {node[x].lhs, node[x].rhs} \subseteq Nodes \cup {-k : k \in 1 .. Len(term)}
        /\ node[x].type \in TermTypes \cup {"TRUTH"}
        /\ node[x].value \in TermTypes \cup {"TRUTH", "UNSET", "MALFORMED"}
  /\ \A i \in DOMAIN todo : todo[i].of \in Nodes /\ todo[i].of > next

IsParsed == stage \in {"parsed", "build"}
IsBuilt == stage = "build" /\ todo = <<>>

(* The operands and the operators under e from left to right, following the *)
(* operands of a node at most d levels down; operators stand as 10 + op.    *)
InOrder[d \in 0 .. Len(chain)] ==
  [e \in Int |->
     IF ~IsBinary(e) THEN <<e>>
     ELSE IF d = 0 THEN <<>>
     ELSE InOrder[d - 1][node[e].lhs] \o <<10 + node[e].op>> \o InOrder[d - 1][node[e].rhs]]

Under(e) == InOrder[Len(chain)][e]

(* What the programmer wrote. *)
Written == [i \in 1 .. 2 * Len(chain) + 1 |->
              IF i % 2 = 1 THEN -((i + 1) \div 2) ELSE 10 + chain[i \div 2]]

(* At every moment of the building, also between two rotations, the tree    *)
(* under the root holds each operand and each operator once and in the order *)
(* in which they are written: the swaps of build.cpp 1407-1414 neither lose *)
(* nor share nor exchange a subtree.                                        *)
KeepsOrder == IsParsed => Under(1) = Written

(* No operator of the tree ranks above the operator of one of its operands. *)
Ordered ==
  \A x \in Nodes : \A e \in {node[x].lhs, node[x].rhs} :
    IsBinary(e) => node[x].op <= node[e].op

(* The node that holds the i-th operator of the chain. *)
Holder(i) == CHOOSE x \in Nodes : Last(Under(node[x].lhs)) = -i

Operands(e) == {k \in 1 .. Len(term) : \E j \in DOMAIN Under(e) : Under(e)[j] = -k}

(* What one build gets right of two neighbouring operators: the second is   *)
(* in the right operand of the first unless it ranks lower, and then the    *)
(* first is in the left operand of the second, provided that the operator   *)
(* before them does not rank above the first (its rotation makes the first  *)
(* the root of the rest, which is not compared again, build.cpp 1405-1424). *)
NeighboursGrouped ==
  IsBuilt /\ builds = 1 =>
    \A i \in 1 .. Len(chain) - 1 :
      IF chain[i] <= chain[i + 1] THEN i + 2 \in Operands(node[Holder(i)].rhs)
      ELSE \/ i > 1 /\ chain[i - 1] > chain[i]
           \/ i \in Operands(node[Holder(i + 1)].lhs)

(* All operands are Int or all are Float, and a comparison comes last. *)
PlainNumbers ==
  /\ \E t \in {"INT", "FLOAT"} : \A k \in DOMAIN term : term[k] = t
  /\ \A i \in 1 .. Len(chain) - 1 : chain[i] \in Arithmetic

(* The parser's type of an expression of plain numbers is the type of the   *)
(* code generated for it: the node types and the kinds of instruction that  *)
(* the parser stores (parse.cpp 691-783) survive the rotations.             *)
NumbersTyped ==
  IsBuilt /\ PlainNumbers => \A x \in Nodes : node[x].value = node[x].type

(* What the parser checks (parse.cpp 765-769): the operands of an operator  *)
(* have one type.                                                           *)
OperandsMatch == \A x \in Nodes : node[x].value # "MALFORMED"

(* Building an expression again regroups it further, since one build compares *)
(* each operator with the next one only once; but with n operators the       *)
(* grouping is in order, and final, after n - 1 builds.  So an element count *)
(* of two operators has one value where the vector is allocated and where it *)
(* is unheaped, and one of three may have two (build.cpp 1405-1424, 1951).   *)
BuildsSettle == IsBuilt /\ builds + 1 >= Len(chain) => Ordered
=============================================================================
