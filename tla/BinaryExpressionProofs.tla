---------------------- MODULE BinaryExpressionProofs ----------------------
(***************************************************************************)
(* For chains of any length, operators and operand types of any kind, and  *)
(* any number of builds: the types of the variables, that building an      *)
(* ordered expression does not regroup it, that the code of numbers has    *)
(* the types of the parser, that the tree reads as it is written, and how  *)
(* one build groups two neighbouring operators.                            *)
(***************************************************************************)
EXTENDS BinaryExpressionProps, SequenceTheorems, WellFoundedInduction, TLAPS

(* The operands of the chain, and what the fields of a parsed node hold. *)
Terms == {-k : k \in 1 .. Len(term)}
EPs == {"EP_NONE", "EP_INT", "EP_FLOAT", "EP_CHAR"}
NodeRecord == [lhs : Int, rhs : Int, op : Int, type : Primitives \cup {"NONE"}, ep : EPs,
               value : Primitives \cup {"UNSET", "MALFORMED"}]

ParsedOK(x) ==
  /\ node[x].op \in Operators
  /\ node[x].lhs \in Nodes \cup Terms
  /\ node[x].rhs \in Nodes \cup Terms
  /\ node[x].type \in TermTypes \cup {"TRUTH"}
  /\ node[x].value \in TermTypes \cup {"TRUTH", "UNSET", "MALFORMED"}

Call == [of : Nodes, at : {"enter", "leave"}]

(* TypeOK with what keeps it: the stages in terms of next and todo. *)
IInv ==
  /\ chain \in Seq(Operators) /\ Len(chain) \in 1 .. MaxOperators
  /\ term \in Seq(TermTypes) /\ Len(term) = Len(chain) + 1
  /\ node \in [Nodes -> NodeRecord]
  /\ stage \in {"parse", "failed", "parsed", "build"}
  /\ next \in 0 .. Len(chain) /\ builds \in 0 .. MaxBuilds
  /\ \A x \in Nodes : x > next => ParsedOK(x)
  /\ todo \in Seq(Call)
  /\ stage = "parse" => next > 0
  /\ stage \in {"parsed", "build"} => next = 0
  /\ stage # "build" => todo = <<>>

USE OperatorsAssumption, TermTypesAssumption, BoundsAssumption

LEMMA NodesAre == ASSUME chain \in Seq(Operators) PROVE Nodes = 1 .. Len(chain)
  BY DEF Nodes

LEMMA IntOperators == Operators \subseteq Int
  BY DEF Arithmetic, Comparisons

LEMMA InitIInv == Init => IInv
<1> SUFFICES ASSUME Init PROVE IInv
  OBVIOUS
<1>1. PICK n \in 1 .. MaxOperators :
        /\ chain \in [1 .. n -> Operators]
        /\ term \in [1 .. n + 1 -> TermTypes]
        /\ node = [x \in 1 .. n |-> Unbuilt]
        /\ next = n
  BY DEF Init
<1>2. chain \in Seq(Operators) /\ Len(chain) = n
  BY <1>1
<1>3. term \in Seq(TermTypes) /\ Len(term) = n + 1
  BY <1>1
<1>4. Nodes = 1 .. n
  BY <1>1 DEF Nodes
<1>5. Unbuilt \in NodeRecord
  BY DEF Unbuilt, NodeRecord, EPs, Primitives
<1> QED
  BY <1>1, <1>2, <1>3, <1>4, <1>5 DEF Init, IInv

(* The fields of a node that is parsed now. *)
LEMMA ParsedFields ==
  ASSUME IInv, NEW x \in Nodes
  PROVE  /\ Parsed(x) \in NodeRecord
         /\ Parsed(x).op \in Operators
         /\ Parsed(x).lhs \in Nodes \cup Terms
         /\ Parsed(x).rhs \in Nodes \cup Terms
         /\ Parsed(x).type \in TermTypes \cup {"TRUTH"}
         /\ Parsed(x).value = "UNSET"
<1>1. x \in 1 .. Len(chain) /\ chain[x] \in Operators /\ term[x] \in TermTypes
  BY NodesAre DEF IInv
<1>2. -x \in Terms /\ (x = Len(chain) => -(x + 1) \in Terms) /\ (x # Len(chain) => x + 1 \in Nodes)
  BY <1>1, NodesAre DEF IInv, Terms
<1>3. EquivalentPrimitive(term[x]) \in EPs
  BY DEF EquivalentPrimitive, EPs
<1>4. term[x] \in Primitives /\ "TRUTH" \in Primitives /\ chain[x] \in Int
  BY <1>1, IntOperators DEF Primitives
<1>5. Parsed(x) = [lhs |-> -x, rhs |-> IF x = Len(chain) THEN -(x + 1) ELSE x + 1, op |-> chain[x],
                   type |-> IF chain[x] \in Comparisons THEN "TRUTH" ELSE term[x],
                   ep |-> EquivalentPrimitive(term[x]), value |-> "UNSET"]
  BY DEF Parsed
<1>6. Parsed(x) \in NodeRecord
  BY <1>1, <1>3, <1>4, <1>5 DEF NodeRecord, IInv
<1> QED
  BY <1>1, <1>2, <1>5, <1>6

(* What the assignment to one field of one node changes. *)
LEMMA SetLhs ==
  ASSUME NEW N, NEW f \in [N -> NodeRecord], NEW x \in N, NEW v \in Int
  PROVE  /\ [f EXCEPT ![x].lhs = v] \in [N -> NodeRecord]
         /\ \A z \in N :
              LET g == [f EXCEPT ![x].lhs = v] IN
              /\ g[z].lhs = IF z = x THEN v ELSE f[z].lhs
              /\ g[z].rhs = f[z].rhs
              /\ g[z].op = f[z].op
              /\ g[z].type = f[z].type
              /\ g[z].ep = f[z].ep
              /\ g[z].value = f[z].value
  BY DEF NodeRecord

LEMMA SetRhs ==
  ASSUME NEW N, NEW f \in [N -> NodeRecord], NEW x \in N, NEW v \in Int
  PROVE  /\ [f EXCEPT ![x].rhs = v] \in [N -> NodeRecord]
         /\ \A z \in N :
              LET g == [f EXCEPT ![x].rhs = v] IN
              /\ g[z].rhs = IF z = x THEN v ELSE f[z].rhs
              /\ g[z].lhs = f[z].lhs
              /\ g[z].op = f[z].op
              /\ g[z].type = f[z].type
              /\ g[z].ep = f[z].ep
              /\ g[z].value = f[z].value
  BY DEF NodeRecord

LEMMA SetOp ==
  ASSUME NEW N, NEW f \in [N -> NodeRecord], NEW x \in N, NEW v \in Int
  PROVE  /\ [f EXCEPT ![x].op = v] \in [N -> NodeRecord]
         /\ \A z \in N :
              LET g == [f EXCEPT ![x].op = v] IN
              /\ g[z].op = IF z = x THEN v ELSE f[z].op
              /\ g[z].lhs = f[z].lhs
              /\ g[z].rhs = f[z].rhs
              /\ g[z].type = f[z].type
              /\ g[z].ep = f[z].ep
              /\ g[z].value = f[z].value
  BY DEF NodeRecord

LEMMA SetValue ==
  ASSUME NEW N, NEW f \in [N -> NodeRecord], NEW x \in N,
         NEW v \in Primitives \cup {"UNSET", "MALFORMED"}
  PROVE  /\ [f EXCEPT ![x].value = v] \in [N -> NodeRecord]
         /\ \A z \in N :
              LET g == [f EXCEPT ![x].value = v] IN
              /\ g[z].value = IF z = x THEN v ELSE f[z].value
              /\ g[z].lhs = f[z].lhs
              /\ g[z].rhs = f[z].rhs
              /\ g[z].op = f[z].op
              /\ g[z].type = f[z].type
              /\ g[z].ep = f[z].ep
<1>1. [f EXCEPT ![x].value = v] = [f EXCEPT ![x] = [f[x] EXCEPT !.value = v]]
  OBVIOUS
<1>2. [f[x] EXCEPT !.value = v] \in NodeRecord
  BY DEF NodeRecord
<1> QED BY <1>1, <1>2 DEF NodeRecord

(* Rotating keeps every node well formed; only the two nodes change, and not their types. *)
LEMMA RotatedFields ==
  ASSUME IInv, next = 0, NEW x \in Nodes, MustRotate(x)
  PROVE  /\ Rotate(x) \in [Nodes -> NodeRecord]
         /\ \A z \in Nodes :
              /\ Rotate(x)[z].op \in Operators
              /\ Rotate(x)[z].lhs \in Nodes \cup Terms
              /\ Rotate(x)[z].rhs \in Nodes \cup Terms
              /\ Rotate(x)[z].type = node[z].type
              /\ Rotate(x)[z].ep = node[z].ep
              /\ Rotate(x)[z].value = node[z].value
         /\ node[x].rhs \in Nodes
         /\ \A z \in Nodes :
              LET y == node[x].rhs IN
              /\ Rotate(x)[z].lhs = IF z = y THEN node[x].lhs ELSE IF z = x THEN y ELSE node[z].lhs
              /\ Rotate(x)[z].rhs =
                   IF z = y THEN node[y].lhs ELSE IF z = x THEN node[y].rhs ELSE node[z].rhs
              /\ Rotate(x)[z].op =
                   IF z = y THEN node[x].op ELSE IF z = x THEN node[y].op ELSE node[z].op
<1> DEFINE y == node[x].rhs
<1>1. Nodes = 1 .. Len(chain) /\ Len(chain) \in Nat
  BY NodesAre DEF IInv
<1>2. \A z \in Nodes : ParsedOK(z)
  BY <1>1 DEF IInv
<1>4. \A e \in Nodes \cup Terms : e \in Int
  BY <1>1 DEF Terms, IInv
<1>3. y \in Nodes
  <2>1. y \in Nodes \cup Terms /\ y > 0
    BY <1>2 DEF ParsedOK, MustRotate, IsBinary
  <2>2. \A t \in Terms : t < 0
    BY DEF Terms, IInv
  <2> QED
    BY <2>1, <2>2, <1>4
<1> DEFINE n1 == [node EXCEPT ![x].lhs = y]
           n2 == [n1 EXCEPT ![x].rhs = node[y].rhs]
           n3 == [n2 EXCEPT ![x].op = node[y].op]
           n4 == [n3 EXCEPT ![y].lhs = node[x].lhs]
           n5 == [n4 EXCEPT ![y].rhs = node[y].lhs]
           n6 == [n5 EXCEPT ![y].op = node[x].op]
<1>5. Rotate(x) = n6
  BY DEF Rotate
<1>6. node \in [Nodes -> NodeRecord]
  BY DEF IInv
<1>7. /\ y \in Int /\ node[y].rhs \in Int /\ node[y].op \in Int
      /\ node[x].lhs \in Int /\ node[y].lhs \in Int /\ node[x].op \in Int
  BY <1>3, <1>6 DEF NodeRecord
<1> HIDE DEF y
<1>11. n1 \in [Nodes -> NodeRecord] /\ \A z \in Nodes :
         /\ n1[z].lhs = (IF z = x THEN y ELSE node[z].lhs)
         /\ n1[z].rhs = node[z].rhs /\ n1[z].op = node[z].op
         /\ n1[z].type = node[z].type /\ n1[z].ep = node[z].ep
         /\ n1[z].value = node[z].value
  BY <1>6, <1>7, SetLhs
<1> HIDE DEF n1
<1>12. n2 \in [Nodes -> NodeRecord] /\ \A z \in Nodes :
         /\ n2[z].rhs = (IF z = x THEN node[y].rhs ELSE n1[z].rhs)
         /\ n2[z].lhs = n1[z].lhs /\ n2[z].op = n1[z].op
         /\ n2[z].type = n1[z].type /\ n2[z].ep = n1[z].ep
         /\ n2[z].value = n1[z].value
  BY <1>11, <1>7, SetRhs
<1> HIDE DEF n2
<1>13. n3 \in [Nodes -> NodeRecord] /\ \A z \in Nodes :
         /\ n3[z].op = (IF z = x THEN node[y].op ELSE n2[z].op)
         /\ n3[z].lhs = n2[z].lhs /\ n3[z].rhs = n2[z].rhs
         /\ n3[z].type = n2[z].type /\ n3[z].ep = n2[z].ep
         /\ n3[z].value = n2[z].value
  BY <1>12, <1>7, SetOp
<1> HIDE DEF n3
<1>14. n4 \in [Nodes -> NodeRecord] /\ \A z \in Nodes :
         /\ n4[z].lhs = (IF z = y THEN node[x].lhs ELSE n3[z].lhs)
         /\ n4[z].rhs = n3[z].rhs /\ n4[z].op = n3[z].op
         /\ n4[z].type = n3[z].type /\ n4[z].ep = n3[z].ep
         /\ n4[z].value = n3[z].value
  BY <1>3, <1>13, <1>7, SetLhs
<1> HIDE DEF n4
<1>15. n5 \in [Nodes -> NodeRecord] /\ \A z \in Nodes :
         /\ n5[z].rhs = (IF z = y THEN node[y].lhs ELSE n4[z].rhs)
         /\ n5[z].lhs = n4[z].lhs /\ n5[z].op = n4[z].op
         /\ n5[z].type = n4[z].type /\ n5[z].ep = n4[z].ep
         /\ n5[z].value = n4[z].value
  BY <1>3, <1>14, <1>7, SetRhs
<1> HIDE DEF n5
<1>16. n6 \in [Nodes -> NodeRecord] /\ \A z \in Nodes :
         /\ n6[z].op = (IF z = y THEN node[x].op ELSE n5[z].op)
         /\ n6[z].lhs = n5[z].lhs /\ n6[z].rhs = n5[z].rhs
         /\ n6[z].type = n5[z].type /\ n6[z].ep = n5[z].ep
         /\ n6[z].value = n5[z].value
  BY <1>3, <1>15, <1>7, SetOp
<1> HIDE DEF n6
<1>19. ParsedOK(x) /\ ParsedOK(y)
  BY <1>2, <1>3
<1>20. \A z \in Nodes :
         /\ n6[z].lhs = IF z = y THEN node[x].lhs ELSE IF z = x THEN y ELSE node[z].lhs
         /\ n6[z].rhs = IF z = y THEN node[y].lhs ELSE IF z = x THEN node[y].rhs ELSE node[z].rhs
         /\ n6[z].op = IF z = y THEN node[x].op ELSE IF z = x THEN node[y].op ELSE node[z].op
  BY <1>11, <1>12, <1>13, <1>14, <1>15, <1>16
<1>21. \A z \in Nodes : n6[z].op \in Operators
  BY <1>2, <1>19, <1>20 DEF ParsedOK
<1>22. \A z \in Nodes : n6[z].lhs \in Nodes \cup Terms
  BY <1>2, <1>3, <1>19, <1>20 DEF ParsedOK
<1>23. \A z \in Nodes : n6[z].rhs \in Nodes \cup Terms
  BY <1>2, <1>19, <1>20 DEF ParsedOK
<1>24. \A z \in Nodes : /\ n6[z].type = node[z].type /\ n6[z].ep = node[z].ep
                        /\ n6[z].value = node[z].value
  BY <1>11, <1>12, <1>13, <1>14, <1>15, <1>16
<1> QED
  BY <1>3, <1>5, <1>16, <1>21, <1>22, <1>23, <1>24, <1>20 DEF y

(* The type of the code of a node is that of one of its operands or a mark. *)
LEMMA GeneratedType ==
  ASSUME IInv, next = 0, NEW x \in Nodes
  PROVE  Generated(x) \in TermTypes \cup {"TRUTH", "UNSET", "MALFORMED"}
<1>1. \A z \in Nodes : ParsedOK(z)
  BY NodesAre DEF IInv
<1>2. ValueType(node[x].lhs) \in TermTypes \cup {"TRUTH", "UNSET", "MALFORMED"}
  <2>1. CASE node[x].lhs \in Nodes
    <3>1. node[x].lhs > 0
      BY <2>1, NodesAre DEF IInv
    <3> QED
      BY <1>1, <2>1, <3>1 DEF ParsedOK, ValueType, IsBinary
  <2>2. CASE node[x].lhs \in Terms
    <3>1. PICK k \in 1 .. Len(term) : node[x].lhs = -k
      BY <2>2 DEF Terms
    <3>2. ~(-k > 0) /\ -(-k) = k /\ term[k] \in TermTypes
      BY <3>1 DEF IInv
    <3> QED
      BY <3>1, <3>2 DEF ValueType, IsBinary
  <2> QED
    BY <1>1, <2>1, <2>2 DEF ParsedOK
<1> QED
  BY <1>1, <1>2 DEF Generated, ParsedOK

(* Entering a node or operand puts at most one call on the stack. *)
LEMMA EnterCalls ==
  ASSUME IInv, NEW e \in Nodes \cup Terms
  PROVE  Enter(e) \in Seq(Call)
<1>1. CASE e \in Nodes
  <2>1. [of |-> e, at |-> "enter"] \in Call
    BY <1>1 DEF Call
  <2> QED
    BY <2>1 DEF Enter
<1>2. CASE e \in Terms
  <2>1. ~IsBinary(e)
    BY <1>2 DEF Terms, IsBinary, IInv
  <2> QED
    BY <2>1 DEF Enter
<1> QED
  BY <1>1, <1>2

-----------------------------------------------------------------------------
(* What a whole parsed tree needs after a step that changes node only. *)
LEMMA ParsedOKKept ==
  ASSUME IInv, next = 0, UNCHANGED <<chain, term>>,
         node' \in [Nodes -> NodeRecord],
         \A z \in Nodes :
           /\ node'[z].op \in Operators
           /\ node'[z].lhs \in Nodes \cup Terms
           /\ node'[z].rhs \in Nodes \cup Terms
           /\ node'[z].type = node[z].type
           /\ node'[z].value \in TermTypes \cup {"TRUTH", "UNSET", "MALFORMED"}
  PROVE  \A z \in Nodes' : ParsedOK(z)'
<1>1. Nodes' = Nodes /\ Terms' = Terms
  BY DEF Nodes, Terms
<1>2. \A z \in Nodes : ParsedOK(z)
  BY NodesAre DEF IInv
<1> QED
  BY <1>1, <1>2 DEF ParsedOK

(* The call at the head of the stack, and the stage in which there is one. *)
LEMMA HeadCall ==
  ASSUME IInv, todo # <<>>
  PROVE  /\ Head(todo).of \in Nodes
         /\ Tail(todo) \in Seq(Call)
         /\ next = 0 /\ stage = "build"
<1>1. todo \in Seq(Call) /\ stage = "build" /\ next = 0
  BY DEF IInv
<1>2. Head(todo) \in Call /\ Tail(todo) \in Seq(Call)
  BY <1>1
<1> QED
  BY <1>1, <1>2 DEF Call

LEMMA StepIInv == IInv /\ [Next]_vars => IInv'
<1> SUFFICES ASSUME IInv, [Next]_vars PROVE IInv'
  OBVIOUS
<1>0. Nodes = 1 .. Len(chain) /\ Len(chain) \in Nat
  BY NodesAre DEF IInv
<1>1. CASE ParseNode
  <2>1. next \in Nodes /\ Nodes' = Nodes /\ Terms' = Terms
    <3>1. stage = "parse" /\ UNCHANGED <<chain, term>>
      BY <1>1 DEF ParseNode
    <3>2. next > 0 /\ next \in 0 .. Len(chain)
      BY <3>1 DEF IInv
    <3>3. next \in Nodes
      BY <1>0, <3>2
    <3> QED
      BY <3>1, <3>3 DEF Nodes, Terms
  <2>2. node' = [node EXCEPT ![next] = Parsed(next)] /\ Parsed(next) \in NodeRecord
    BY <1>1, <2>1, ParsedFields DEF ParseNode
  <2>3. node' \in [Nodes -> NodeRecord]
    BY <2>1, <2>2 DEF IInv
  <2>4. ASSUME NEW z \in Nodes, z > next - 1 PROVE ParsedOK(z)'
    <3>1. CASE z = next
      BY <2>1, <2>2, <3>1, ParsedFields DEF ParsedOK, IInv, ParseNode
    <3>2. CASE z > next
      BY <2>1, <2>2, <3>2 DEF ParsedOK, IInv, ParseNode
    <3> QED
      BY <1>0, <2>4, <3>1, <3>2 DEF IInv
  <2> QED
    BY <1>0, <1>1, <2>1, <2>3, <2>4 DEF ParseNode, IInv, Call
<1>2. CASE ParseMismatch
  BY <1>2 DEF ParseMismatch, IInv, ParsedOK, Nodes, Terms, Call
<1>3. CASE StartBuild
  <2>1. 1 \in Nodes
    BY <1>0 DEF IInv
  <2>2. todo' \in Seq(Call)
    BY <1>3, <2>1, EnterCalls DEF StartBuild
  <2>3. builds' \in 0 .. MaxBuilds
    BY <1>3 DEF StartBuild, IInv
  <2>4. Nodes' = Nodes /\ Terms' = Terms /\ Call' = Call
    BY <1>3 DEF StartBuild, Nodes, Terms, Call
  <2> QED
    BY <1>3, <2>2, <2>3, <2>4 DEF StartBuild, IInv, ParsedOK
<1>4. CASE EnterNode
  <2> DEFINE x == Head(todo).of
  <2>1. x \in Nodes /\ Tail(todo) \in Seq(Call) /\ next = 0 /\ stage = "build"
    BY <1>4, HeadCall DEF EnterNode
  <2>2. Nodes' = Nodes /\ Terms' = Terms /\ Call' = Call
    BY <1>4 DEF EnterNode, Nodes, Terms, Call
  <2>3. /\ node' = IF MustRotate(x) THEN Rotate(x) ELSE node
        /\ todo' = Enter(node'[x].lhs) \o Enter(node'[x].rhs) \o Leave(x) \o Tail(todo)
        /\ UNCHANGED <<chain, term, stage, next, builds>>
    BY <1>4 DEF EnterNode
  <2> HIDE DEF x
  <2>4. \A z \in Nodes : ParsedOK(z)
    BY <1>0, <2>1 DEF IInv
  <2>5. /\ node' \in [Nodes -> NodeRecord]
        /\ \A z \in Nodes :
             /\ node'[z].op \in Operators
             /\ node'[z].lhs \in Nodes \cup Terms
             /\ node'[z].rhs \in Nodes \cup Terms
             /\ node'[z].type = node[z].type
             /\ node'[z].value = node[z].value
    <3>1. CASE MustRotate(x)
      BY <2>1, <2>3, <3>1, RotatedFields
    <3>2. CASE ~MustRotate(x)
      BY <2>3, <2>4, <3>2 DEF ParsedOK, IInv
    <3> QED
      BY <3>1, <3>2
  <2>6. \A z \in Nodes' : ParsedOK(z)'
    BY <2>1, <2>3, <2>4, <2>5, ParsedOKKept DEF ParsedOK
  <2>7. Enter(node'[x].lhs) \in Seq(Call) /\ Enter(node'[x].rhs) \in Seq(Call)
    BY <2>1, <2>5, EnterCalls
  <2>8. Leave(x) \in Seq(Call)
    <3>1. [of |-> x, at |-> "leave"] \in Call
      BY <2>1 DEF Call
    <3> QED
      BY <3>1 DEF Leave
  <2>9. todo' \in Seq(Call)
    BY <2>1, <2>3, <2>7, <2>8
  <2> QED
    BY <2>1, <2>2, <2>3, <2>5, <2>6, <2>9 DEF IInv
<1>5. CASE LeaveNode
  <2> DEFINE x == Head(todo).of
  <2>1. x \in Nodes /\ Tail(todo) \in Seq(Call) /\ next = 0 /\ stage = "build"
    BY <1>5, HeadCall DEF LeaveNode
  <2>2. Nodes' = Nodes /\ Terms' = Terms /\ Call' = Call
    BY <1>5 DEF LeaveNode, Nodes, Terms, Call
  <2>3. /\ node' = [node EXCEPT ![x].value = Generated(x)]
        /\ todo' = Tail(todo)
        /\ UNCHANGED <<chain, term, stage, next, builds>>
    BY <1>5 DEF LeaveNode
  <2> HIDE DEF x
  <2>4. \A z \in Nodes : ParsedOK(z)
    BY <1>0, <2>1 DEF IInv
  <2>5. Generated(x) \in TermTypes \cup {"TRUTH", "UNSET", "MALFORMED"}
    BY <2>1, GeneratedType
  <2>6. Generated(x) \in Primitives \cup {"UNSET", "MALFORMED"}
    BY <2>5 DEF Primitives
  <2>7. /\ node' \in [Nodes -> NodeRecord]
        /\ \A z \in Nodes :
             /\ node'[z].op = node[z].op
             /\ node'[z].lhs = node[z].lhs
             /\ node'[z].rhs = node[z].rhs
             /\ node'[z].type = node[z].type
             /\ node'[z].value = IF z = x THEN Generated(x) ELSE node[z].value
    BY <2>1, <2>3, <2>6, SetValue DEF IInv
  <2>8. \A z \in Nodes' : ParsedOK(z)'
    BY <2>1, <2>3, <2>4, <2>5, <2>7, ParsedOKKept DEF ParsedOK
  <2> QED
    BY <2>1, <2>2, <2>3, <2>7, <2>8 DEF IInv
<1>6. CASE UNCHANGED vars
  BY <1>6 DEF vars, IInv, ParsedOK, Nodes, Terms, Call
<1> QED
  BY <1>1, <1>2, <1>3, <1>4, <1>5, <1>6 DEF Next

LEMMA IInvTypeOK == IInv => TypeOK
<1> SUFFICES ASSUME IInv PROVE TypeOK
  OBVIOUS
<1>1. Nodes = 1 .. Len(chain) /\ Len(chain) \in Nat
  BY NodesAre DEF IInv
<1>2. \A x \in Nodes : x <= next \/ ParsedOK(x)
  BY <1>1 DEF IInv
<1>3. ASSUME NEW i \in DOMAIN todo PROVE todo[i].of \in Nodes /\ todo[i].of > next
  <2>1. todo[i] \in Call /\ todo # <<>>
    BY <1>3 DEF IInv
  <2> QED
    BY <1>1, <2>1 DEF IInv, Call
<1> QED
  BY <1>1, <1>2, <1>3 DEF IInv, TypeOK, ParsedOK, Terms

LEMMA AlwaysIInv == Spec => []IInv
  BY InitIInv, StepIInv, PTL DEF Spec

(* Every variable has its type in every reachable state: in particular, the *)
(* rotations of buildExpression never leave a node without two operands.    *)
THEOREM TypeCorrect == Spec => []TypeOK
  BY AlwaysIInv, IInvTypeOK, PTL

----------------------------------------------------------------------------
(***************************************************************************)
(* For chains of any length over plain numbers, and any number of builds:  *)
(* the code has the types that the parser has given to the nodes.          *)
(*                                                                         *)
(* The first build is the one that matters.  While it lasts, the nodes     *)
(* from some z on are still the chain that the parser made, and each node  *)
(* before z has its code or a call on the stack, above the calls that wait *)
(* for it.  Later builds only exchange operands and operators among nodes  *)
(* that are all of one type.                                               *)
(***************************************************************************)

(* The operands are of type t, and a comparison comes last. *)
Numbers(t) ==
  /\ \A k \in DOMAIN term : term[k] = t
  /\ \A i \in 1 .. Len(chain) - 1 : chain[i] \in Arithmetic

(* The type of the whole expression, and of every node. *)
Result(t) == IF chain[Len(chain)] \in Comparisons THEN "TRUTH" ELSE t

Finished(t, x) == node[x].value = Result(t)

Uniform(t) ==
  \A x \in Nodes :
    /\ node[x].ep = EquivalentPrimitive(t) /\ node[x].type = Result(t)
    /\ node[x].op \in Comparisons <=> Result(t) = "TRUTH"
    /\ node[x].value \in {"UNSET", Result(t)}

(* From z on, the nodes are as they were parsed. *)
Chained(z) ==
  \A x \in Nodes : x >= z =>
    /\ node[x].lhs < 0
    /\ IF x = Len(chain) THEN node[x].rhs < 0 ELSE node[x].rhs = x + 1

OnStack(x, n) == \E i \in 1 .. n : todo[i].of = x

(* An operand is built or will be before the call on the operator goes on. *)
Awaits(t, i, x) ==
  \A e \in {node[x].lhs, node[x].rhs} : e > 0 => Finished(t, e) \/ OnStack(e, i - 1)

Calls(t, z) ==
  /\ \A x \in Nodes : x < z => Finished(t, x) \/ OnStack(x, Len(todo))
  /\ z <= Len(chain) => OnStack(z, Len(todo))
  /\ \A i \in 1 .. Len(todo) : todo[i].of <= z /\ (todo[i].of = z => todo[i].at = "enter")
  /\ \A i, j \in 1 .. Len(todo) : todo[i].of = z /\ todo[j].of = z => i = j
  /\ \A i \in 1 .. Len(todo) :
       /\ todo[i].at = "enter" /\ todo[i].of < z =>
            node[todo[i].of].lhs < 0 /\ node[todo[i].of].rhs < 0
       /\ todo[i].at = "leave" => Awaits(t, i, todo[i].of)

Tree(t) ==
  /\ Uniform(t)
  /\ IF builds = 1 /\ todo # <<>> THEN \E z \in 1 .. Len(chain) + 1 : Chained(z) /\ Calls(t, z)
     ELSE \A x \in Nodes : Finished(t, x)

(* The parser compares the type of each operand with that of the rest of the chain. *)
Compared == \A x \in Nodes : x > next /\ x < Len(chain) => Parsed(x + 1).type = term[x]

NInv ==
  /\ stage # "build" => \A x \in Nodes : x > next => node[x] = Parsed(x)
  /\ Compared
  /\ builds = 0 <=> stage # "build"
  /\ stage = "build" /\ Len(chain) = 1 => node[1].lhs < 0 /\ node[1].rhs < 0
  /\ \A t \in {"INT", "FLOAT"} : stage = "build" /\ Numbers(t) => Tree(t)

-----------------------------------------------------------------------------
(* Facts about the chain and its nodes. *)

LEMMA Shape ==
  ASSUME IInv
  PROVE  /\ Nodes = 1 .. Len(chain) /\ Len(chain) \in Nat \ {0} /\ 1 \in Nodes
         /\ DOMAIN term = 1 .. Len(chain) + 1
         /\ \A e \in Terms : e < 0 /\ e \in Int /\ -e \in DOMAIN term
<1>1. Nodes = 1 .. Len(chain) /\ Len(chain) \in Nat \ {0}
  BY NodesAre DEF IInv
<1>2. DOMAIN term = 1 .. Len(chain) + 1
  BY DEF IInv
<1>3. ASSUME NEW e \in Terms PROVE e < 0 /\ e \in Int /\ -e \in DOMAIN term
  <2>1. PICK k \in 1 .. Len(term) : e = -k
    BY DEF Terms
  <2> QED BY <1>1, <2>1 DEF IInv
<1> QED BY <1>1, <1>2, <1>3

LEMMA NodeShape ==
  ASSUME IInv, next = 0, NEW x \in Nodes
  PROVE  \A e \in {node[x].lhs, node[x].rhs} :
           /\ e \in Int /\ e # 0
           /\ e > 0 => e \in Nodes
           /\ ~(e > 0) => e \in Terms
<1>1. node[x].lhs \in Nodes \cup Terms /\ node[x].rhs \in Nodes \cup Terms
  BY Shape DEF IInv, ParsedOK
<1> QED BY <1>1, Shape

(* A comparison is the only operator of its chain. *)
LEMMA LongChains ==
  ASSUME IInv, Compared, next = 0, NEW t \in {"INT", "FLOAT"}, Numbers(t), Len(chain) > 1
  PROVE  Result(t) = t /\ \A x \in Nodes : chain[x] \in Arithmetic /\ chain[x] \notin Comparisons
<1> DEFINE n == Len(chain)
<1>1. n \in Nat /\ n - 1 \in Nodes /\ n \in Nodes /\ n - 1 > 0 /\ n - 1 < n /\ n - 1 \in DOMAIN term
  BY Shape
<1>2. Parsed(n).type = term[n - 1] /\ term[n - 1] = t
  <2>1. n - 1 + 1 = n
    BY <1>1
  <2> QED BY <1>1, <2>1 DEF Compared, Numbers
<1>3. chain[n] \notin Comparisons
  BY <1>2 DEF Parsed
<1>4. chain[n] \in Arithmetic \cup Comparisons
  BY <1>1, OperatorsAssumption DEF IInv
<1>5. Result(t) = t
  BY <1>3 DEF Result
<1>6. ASSUME NEW x \in Nodes PROVE chain[x] \in Arithmetic
  <2>1. CASE x = n
    BY <1>3, <1>4, <2>1
  <2>2. CASE x # n
    <3>1. x \in 1 .. n - 1
      BY <2>2, Shape
    <3> QED BY <3>1 DEF Numbers
  <2> QED BY <2>1, <2>2
<1>7. \A o \in Arithmetic : o \notin Comparisons
  BY DEF Arithmetic, Comparisons
<1> QED BY <1>5, <1>6, <1>7

LEMMA Results ==
  ASSUME NEW t \in {"INT", "FLOAT"}
  PROVE  Result(t) \in {t, "TRUTH"} /\ Result(t) # "UNSET" /\ Result(t) # "MALFORMED"
BY DEF Result

(* The code of a node whose operands have theirs. *)
LEMMA GeneratedResult ==
  ASSUME IInv, Compared, next = 0, stage = "build", NEW t \in {"INT", "FLOAT"}, Numbers(t),
         Uniform(t), Len(chain) = 1 => node[1].lhs < 0 /\ node[1].rhs < 0,
         NEW x \in Nodes,
         \A e \in {node[x].lhs, node[x].rhs} : e > 0 => Finished(t, e)
  PROVE  Generated(x) = Result(t)
<1>1. ASSUME NEW e \in {node[x].lhs, node[x].rhs} PROVE ValueType(e) = t
  <2>1. CASE e > 0
    <3>1. Len(chain) > 1
      <4>1. Len(chain) \in Nat /\ Len(chain) # 0 /\ x \in 1 .. Len(chain)
        BY Shape
      <4>2. e \in Int
        BY <1>1, NodeShape, Zenon
      <4>3. CASE Len(chain) = 1
        <5>1. x = 1
          BY <4>1, <4>3
        <5>2. node[1].lhs < 0 /\ node[1].rhs < 0
          BY <4>3
        <5>3. e < 0
          BY <1>1, <5>1, <5>2
        <5> QED BY <2>1, <4>2, <5>3
      <4>4. \A n \in Nat : n # 0 /\ n # 1 => n > 1
        OBVIOUS
      <4> QED BY <4>1, <4>3, <4>4, Zenon
    <3>2. Result(t) = t
      BY <3>1, LongChains
    <3> QED BY <1>1, <2>1, <3>2 DEF Finished, ValueType, IsBinary
  <2>2. CASE ~(e > 0)
    <3>1. -e \in DOMAIN term
      BY <1>1, <2>2, NodeShape, Shape
    <3> QED BY <2>2, <3>1 DEF ValueType, IsBinary, Numbers
  <2> QED BY <2>1, <2>2
<1>2. ValueType(node[x].lhs) = t /\ ValueType(node[x].rhs) = t
  BY <1>1
<1>3. node[x].ep = EquivalentPrimitive(t) /\ (node[x].op \in Comparisons <=> Result(t) = "TRUTH")
  BY DEF Uniform
<1>4. /\ EquivalentPrimitive(t) \in {"EP_INT", "EP_FLOAT"}
      /\ Accepts(EquivalentPrimitive(t), t) /\ t # "TRUTH"
  BY DEF EquivalentPrimitive, Accepts
<1>5. HasCode(node[x].op, node[x].ep) /\ Accepts(node[x].ep, t)
  BY <1>3, <1>4 DEF HasCode
<1>6. Generated(x) = IF node[x].op \in Comparisons THEN "TRUTH" ELSE t
  BY <1>2, <1>5 DEF Generated
<1> QED BY <1>3, <1>4, <1>6, Results

-----------------------------------------------------------------------------
(* Parsing, and the beginning of a build. *)

LEMMA InitNumbers == Init => NInv
<1> SUFFICES ASSUME Init PROVE NInv
  OBVIOUS
<1>1. PICK n \in 1 .. MaxOperators : chain \in [1 .. n -> Operators] /\ next = n
  BY DEF Init
<1>2. Nodes = 1 .. n /\ \A x \in Nodes : ~(x > next)
  BY <1>1 DEF Nodes
<1> QED BY <1>2 DEF Init, NInv, Compared

LEMMA ParseNumbers ==
  ASSUME IInv, NInv, ParseNode
  PROVE  NInv'
<1>1. /\ next \in Nodes /\ Nodes' = Nodes /\ UNCHANGED <<chain, term>>
      /\ next \in Nat /\ next - 1 \in Int /\ next' = next - 1
  BY Shape DEF ParseNode, IInv, Nodes
<1>2. \A x : Parsed(x)' = Parsed(x)
  BY <1>1 DEF Parsed
<1>3. /\ stage = "parse" /\ stage' # "build" /\ builds' = builds
      /\ term[next] = TypeOf(Parsed(next).rhs)
      /\ node' = [node EXCEPT ![next] = Parsed(next)]
  BY DEF ParseNode
<1>4. ASSUME NEW x \in Nodes', x > next' PROVE node'[x] = Parsed(x)'
  <2>1. CASE x = next
    BY <1>1, <1>2, <1>3, <2>1 DEF IInv
  <2>2. CASE x # next
    <3>1. x > next
      BY <1>1, <1>4, <2>2, Shape
    <3> QED BY <1>1, <1>2, <1>3, <2>2, <3>1 DEF NInv, IInv
  <2> QED BY <2>1, <2>2
<1>5. Compared'
  <2> SUFFICES ASSUME NEW x \in Nodes, x > next - 1, x < Len(chain)
               PROVE  Parsed(x + 1).type = term[x]
    BY <1>1, <1>2 DEF Compared
  <2>1. CASE x = next
    <3>1. x # Len(chain) /\ x + 1 > 0 /\ x + 1 \in Nodes /\ x + 1 > next
      BY <2>1, Shape
    <3>2. Parsed(x).rhs = x + 1
      BY <3>1 DEF Parsed
    <3>3. TypeOf(x + 1) = node[x + 1].type
      BY <3>1 DEF TypeOf, IsBinary
    <3>4. node[x + 1] = Parsed(x + 1)
      BY <1>3, <3>1 DEF NInv
    <3> QED BY <1>3, <2>1, <3>2, <3>3, <3>4
  <2>2. CASE x # next
    <3>1. x > next
      BY <1>1, <2>2, Shape
    <3> QED BY <3>1 DEF NInv, Compared
  <2> QED BY <2>1, <2>2
<1> QED BY <1>1, <1>3, <1>4, <1>5 DEF NInv

LEMMA ParsedTree ==
  ASSUME IInv, NInv, stage = "parsed", NEW t \in {"INT", "FLOAT"}, Numbers(t)
  PROVE  Uniform(t) /\ Chained(1)
<1>1. next = 0 /\ Compared /\ \A x \in Nodes : x > 0 /\ node[x] = Parsed(x)
  BY Shape DEF IInv, NInv
<1>2. ASSUME NEW x \in Nodes
      PROVE  /\ node[x].lhs = -x
             /\ node[x].rhs = IF x = Len(chain) THEN -(x + 1) ELSE x + 1
             /\ node[x].op = chain[x]
             /\ node[x].type = IF chain[x] \in Comparisons THEN "TRUTH" ELSE t
             /\ node[x].ep = EquivalentPrimitive(t)
             /\ node[x].value = "UNSET"
  <2>1. term[x] = t
    BY Shape DEF Numbers
  <2>2. Parsed(x) =
          [lhs |-> -x, rhs |-> IF x = Len(chain) THEN -(x + 1) ELSE x + 1, op |-> chain[x],
           type |-> IF chain[x] \in Comparisons THEN "TRUTH" ELSE t,
           ep |-> EquivalentPrimitive(t), value |-> "UNSET"]
    BY <2>1, Zenon DEF Parsed
  <2> QED BY <1>1, <2>2
<1>3. Chained(1)
  BY <1>2, Shape DEF Chained
<1>4. ASSUME NEW x \in Nodes PROVE chain[x] \in Comparisons <=> Result(t) = "TRUTH"
  <2>1. CASE Len(chain) > 1
    BY <1>1, <2>1, LongChains
  <2>2. CASE ~(Len(chain) > 1)
    <3>1. x = Len(chain)
      BY <2>2, Shape
    <3> QED BY <3>1 DEF Result
  <2> QED BY <2>1, <2>2
<1>5. Result(t) \in {t, "TRUTH"} /\ t # "TRUTH"
  BY Results
<1>6. Uniform(t)
  BY <1>2, <1>4, <1>5 DEF Uniform
<1> QED BY <1>3, <1>6

LEMMA StartNumbers ==
  ASSUME IInv, NInv, StartBuild
  PROVE  NInv'
<1>1. /\ UNCHANGED <<chain, term, node, next>> /\ Nodes' = Nodes
      /\ stage \in {"parsed", "build"} /\ stage' = "build" /\ todo = <<>>
      /\ builds' = builds + 1 /\ builds \in Nat /\ todo' = Enter(1) /\ next = 0
  BY DEF StartBuild, IInv, Nodes
<1>2. todo' = << [of |-> 1, at |-> "enter"] >>
  BY <1>1 DEF Enter, IsBinary
<1>3. Compared'
  BY <1>1 DEF NInv, Compared, Parsed
<1>4. builds' # 0
  BY <1>1
<1>5. Len(chain) = 1 => node[1].lhs < 0 /\ node[1].rhs < 0
  <2>1. CASE stage = "parsed"
    <3>1. node[1] = Parsed(1)
      BY <1>1, <2>1, Shape DEF NInv
    <3> QED BY <3>1 DEF Parsed
  <2> QED BY <1>1, <2>1 DEF NInv
<1>6. ASSUME NEW t \in {"INT", "FLOAT"}, Numbers(t)
      PROVE  Tree(t)'
  <2>0. Result(t)' = Result(t)
    BY <1>1 DEF Result
  <2>1. CASE stage = "parsed"
    <3>1. builds' = 1
      BY <1>1, <2>1 DEF NInv
    <3>2. Uniform(t)' /\ Chained(1)'
      BY <1>1, <1>6, <2>0, <2>1, ParsedTree DEF Uniform, Chained
    <3>3. Len(todo') = 1 /\ todo'[1].of = 1 /\ todo'[1].at = "enter"
      BY <1>2
    <3>4. Calls(t, 1)'
      BY <1>1, <3>3, Shape DEF Calls, OnStack
    <3>5. 1 \in 1 .. Len(chain') + 1
      BY <1>1, Shape
    <3>6. \E z \in 1 .. Len(chain') + 1 : Chained(z)' /\ Calls(t, z)'
      BY <3>2, <3>4, <3>5, Zenon
    <3>7. todo' # <<>>
      BY <1>2
    <3> QED BY <3>1, <3>2, <3>6, <3>7, Zenon DEF Tree
  <2>2. CASE stage = "build"
    <3>1. Tree(t) /\ builds # 0
      BY <1>6, <2>2 DEF NInv
    <3>2. builds' # 1
      BY <1>1, <3>1
    <3> QED BY <1>1, <2>0, <3>1, <3>2 DEF Tree, Uniform, Finished
  <2> QED BY <1>1, <2>1, <2>2
<1>7. \A t : Numbers(t)' <=> Numbers(t)
  BY <1>1 DEF Numbers
<1> QED BY <1>1, <1>3, <1>4, <1>5, <1>6, <1>7 DEF NInv

-----------------------------------------------------------------------------
(* A step of the first build. *)

LEMMA Stack ==
  ASSUME IInv, todo # <<>>
  PROVE  /\ Len(todo) \in Nat \ {0}
         /\ Head(todo) = todo[1]
         /\ todo \in Seq(Call) /\ Tail(todo) \in Seq(Call)
         /\ Len(Tail(todo)) = Len(todo) - 1
         /\ \A i \in 1 .. Len(todo) - 1 : Tail(todo)[i] = todo[i + 1]
         /\ \A i \in 1 .. Len(todo) :
              todo[i].of \in Nodes /\ todo[i].of \in Int /\ todo[i].at \in {"enter", "leave"}
<1>1. todo \in Seq(Call) /\ todo # <<>>
  BY DEF IInv
<1>2. Len(todo) \in Nat \ {0} /\ Head(todo) = todo[1]
  BY <1>1
<1>3. /\ Tail(todo) \in Seq(Call) /\ Len(Tail(todo)) = Len(todo) - 1
      /\ \A i \in 1 .. Len(todo) - 1 : Tail(todo)[i] = todo[i + 1]
  BY <1>1, HeadTailProperties
<1>4. ASSUME NEW i \in 1 .. Len(todo)
      PROVE  todo[i].of \in Nodes /\ todo[i].of \in Int /\ todo[i].at \in {"enter", "leave"}
  <2>1. todo[i] \in Call
    BY <1>1
  <2> QED BY <2>1, Shape DEF Call
<1> QED BY <1>1, <1>2, <1>3, <1>4

(* The call at the head is replaced by the calls of p, or finished. *)
GoesOn(p) == todo' = p \o Tail(todo)
Pops == todo' = Tail(todo)

LEMMA Replaced ==
  ASSUME IInv, todo # <<>>, NEW p \in Seq(Call), NEW k \in Nat \ {0}, k = Len(p),
         GoesOn(p)
  PROVE  /\ Len(todo') = k + Len(todo) - 1 /\ Len(todo') \in Nat
         /\ \A i \in 1 .. k : i \in 1 .. Len(todo') /\ todo'[i] = p[i]
         /\ \A i \in 2 .. Len(todo) :
              /\ k + i - 1 \in k + 1 .. Len(todo')
              /\ todo'[k + i - 1] = todo[i]
         /\ \A j \in k + 1 .. Len(todo') : \E i \in 2 .. Len(todo) : j = k + i - 1
<1> DEFINE m == Len(todo)
           q == Tail(todo)
           r == p \o q
<1>1. m \in Nat \ {0} /\ q \in Seq(Call) /\ Len(q) = m - 1 /\ \A i \in 1 .. m - 1 : q[i] = todo[i + 1]
  BY Stack
<1>2. Len(r) = k + (m - 1)
  BY <1>1, ConcatProperties
<1>3. \A i \in 1 .. k + (m - 1) : r[i] = IF i <= k THEN p[i] ELSE q[i - k]
  BY <1>1, ConcatProperties
<1>4. todo' = r
  BY DEF GoesOn
<1> HIDE DEF m, q, r
<1>5. Len(todo') = k + m - 1 /\ Len(todo') \in Nat
  <2>1. k + (m - 1) = k + m - 1 /\ k + m - 1 \in Nat
    BY <1>1
  <2> QED BY <1>2, <1>4, <2>1
<1>6. \A i \in 1 .. k : i \in 1 .. Len(todo') /\ todo'[i] = p[i]
  <2> TAKE i \in 1 .. k
  <2>1. i \in 1 .. k + (m - 1) /\ i <= k /\ i \in 1 .. Len(todo')
    BY <1>1, <1>5
  <2> QED BY <1>3, <1>4, <2>1
<1>7. ASSUME NEW i \in 2 .. m
      PROVE  k + i - 1 \in k + 1 .. Len(todo') /\ todo'[k + i - 1] = todo[i]
  <2>1. /\ k + i - 1 \in 1 .. k + (m - 1) /\ ~(k + i - 1 <= k) /\ k + i - 1 - k = i - 1
        /\ i - 1 \in 1 .. m - 1 /\ i - 1 + 1 = i /\ k + i - 1 \in k + 1 .. Len(todo')
    BY <1>1, <1>5
  <2>2. r[k + i - 1] = q[i - 1]
    BY <1>3, <2>1
  <2>3. q[i - 1] = todo[i]
    BY <1>1, <2>1
  <2> QED BY <1>4, <2>1, <2>2, <2>3
<1>8. ASSUME NEW j \in k + 1 .. Len(todo') PROVE \E i \in 2 .. m : j = k + i - 1
  <2>1. j - k + 1 \in 2 .. m /\ j = k + (j - k + 1) - 1
    BY <1>1, <1>5
  <2> QED BY <2>1
<1> QED BY <1>5, <1>6, <1>7, <1>8 DEF m

(* In place of the head call on node x come the k calls of p.  The last goes on *)
(* with x; the others enter the nodes from z on that now leave the chain, and  *)
(* w, the root of what remains of it.                                          *)
Brings(t, z, w, p, k, x) ==
  /\ todo # <<>> /\ todo[1].of = x /\ x \in Nodes
  /\ k \in Nat \ {0} /\ p \in Seq(Call) /\ Len(p) = k /\ GoesOn(p)
  /\ p[k].of = x /\ p[k].at = "leave" /\ \A i \in 1 .. k : i # k => p[i].at = "enter"
  /\ \A y \in Nodes : y >= z /\ y < w => \E i \in 1 .. k : p[i].of = y
  /\ w <= Len(chain) => (w = z /\ x # z) \/ \E i \in 1 .. k : p[i].of = w
  /\ \A i \in 1 .. k : p[i].of <= w /\ (p[i].of = w => p[i].at = "enter")
  /\ \A i, j \in 1 .. k : p[i].of = w /\ p[j].of = w => i = j
  /\ w = z => \A i \in 1 .. k : p[i].of # w
  /\ w # z => x = z
  /\ \A i \in 1 .. k : p[i].at = "enter" /\ p[i].of < w =>
                         node'[p[i].of].lhs < 0 /\ node'[p[i].of].rhs < 0
  /\ \A e \in {node'[x].lhs, node'[x].rhs} :
       e > 0 => e \in Nodes /\ (Finished(t, e) \/ \E i \in 1 .. k : i # k /\ p[i].of = e)

LEMMA Pushed ==
  ASSUME IInv, next = 0, UNCHANGED <<chain, term>>, NEW t \in {"INT", "FLOAT"},
         NEW z \in 1 .. Len(chain) + 1, Calls(t, z), NEW w \in z .. Len(chain) + 1,
         NEW p, NEW k, NEW x, Brings(t, z, w, p, k, x),
         \A y \in Nodes : node'[y].value = node[y].value,
         \A y \in Nodes : y < z => node'[y].lhs = node[y].lhs /\ node'[y].rhs = node[y].rhs
  PROVE  Calls(t, w)'
<1> USE DEF Brings
<1> DEFINE m == Len(todo)
<1>0. PICK l : l = Len(todo')
  OBVIOUS
<1>1. Nodes' = Nodes /\ Nodes = 1 .. Len(chain) /\ Len(chain) \in Nat /\ Result(t)' = Result(t)
  BY Shape DEF Nodes, Result
<1>2. \A y \in Nodes : Finished(t, y)' <=> Finished(t, y)
  BY <1>1 DEF Finished
<1>3. /\ l = k + m - 1 /\ l \in Nat /\ m \in Nat \ {0}
      /\ \A i \in 1 .. k : i \in 1 .. l /\ todo'[i] = p[i]
      /\ \A i \in 2 .. m : k + i - 1 \in k + 1 .. l /\ todo'[k + i - 1] = todo[i]
      /\ \A j \in k + 1 .. l : \E i \in 2 .. m : j = k + i - 1
  <2>1. m \in Nat \ {0}
    BY Stack
  <2> HIDE DEF Brings
  <2>2. k \in Nat \ {0} /\ p \in Seq(Call) /\ k = Len(p) /\ GoesOn(p) /\ todo # <<>>
    BY DEF Brings
  <2>3. /\ Len(todo') = k + m - 1 /\ Len(todo') \in Nat
        /\ \A i \in 1 .. k : i \in 1 .. Len(todo') /\ todo'[i] = p[i]
        /\ \A i \in 2 .. m :
             /\ k + i - 1 \in k + 1 .. Len(todo')
             /\ todo'[k + i - 1] = todo[i]
        /\ \A j \in k + 1 .. Len(todo') : \E i \in 2 .. m : j = k + i - 1
    BY <2>2, Replaced, Zenon
  <2> QED BY <1>0, <2>1, <2>3, Zenon
<1>4. \A i \in 1 .. m : todo[i].of \in Nodes /\ todo[i].of \in Int /\ todo[i].at \in {"enter", "leave"}
  BY Stack
<1>5. k \in 1 .. k
  OBVIOUS
<1> HIDE DEF m
<1>6. ASSUME NEW j \in 1 .. l, ~(j <= k)
      PROVE  \E i \in 2 .. m : j = k + i - 1 /\ todo'[j] = todo[i] /\ i \in 1 .. m
  <2>1. j \in k + 1 .. l
    BY <1>3, <1>6
  <2>2. PICK i \in 2 .. m : j = k + i - 1
    BY <1>3, <2>1
  <2>3. todo'[k + i - 1] = todo[i]
    BY <1>3
  <2>4. i \in 1 .. m
    BY <1>3
  <2> QED BY <2>2, <2>3, <2>4
<1>7. ASSUME NEW y \in Nodes, y < w PROVE Finished(t, y)' \/ OnStack(y, l)'
  <2>1. CASE y >= z
    <3>1. PICK i \in 1 .. k : p[i].of = y
      BY <1>7, <2>1
    <3> QED BY <1>3, <3>1 DEF OnStack
  <2>2. CASE y < z
    <3>1. CASE \E i \in 1 .. m : todo[i].of = y
      <4>1. PICK i \in 1 .. m : todo[i].of = y
        BY <3>1
      <4>2. CASE i = 1
        <5>1. k \in 1 .. l /\ todo'[k] = p[k]
          BY <1>3, <1>5
        <5>2. p[k].of = y
          BY <4>1, <4>2
        <5> QED BY <5>1, <5>2 DEF OnStack
      <4>3. CASE i # 1
        <5>1. i \in 2 .. m
          BY <1>3, <4>3
        <5>2. k + i - 1 \in 1 .. l /\ todo'[k + i - 1].of = y
          BY <1>3, <4>1, <5>1
        <5> QED BY <5>2 DEF OnStack
      <4> QED BY <4>2, <4>3
    <3>2. CASE ~\E i \in 1 .. m : todo[i].of = y
      BY <1>2, <2>2, <3>2 DEF Calls, OnStack, m
    <3> QED BY <3>1, <3>2
  <2> QED BY <1>1, <2>1, <2>2
<1>8. ASSUME w <= Len(chain) PROVE OnStack(w, l)'
  <2>1. CASE \E i \in 1 .. k : p[i].of = w
    BY <1>3, <2>1 DEF OnStack
  <2>2. CASE w = z /\ x # z
    <3>1. PICK i \in 1 .. m : todo[i].of = z
      BY <1>8, <2>2 DEF Calls, OnStack, m
    <3>2. i \in 2 .. m
      BY <1>3, <2>2, <3>1
    <3>3. k + i - 1 \in 1 .. l /\ todo'[k + i - 1].of = w
      BY <1>3, <2>2, <3>1, <3>2
    <3> QED BY <3>3 DEF OnStack
  <2> QED BY <1>8, <2>1, <2>2
<1>9. \A i \in 1 .. m : todo[i].of <= z /\ (todo[i].of = z => todo[i].at = "enter")
  BY DEF Calls, m
<1>10. \A i, j \in 1 .. m : todo[i].of = z /\ todo[j].of = z => i = j
  BY DEF Calls, m
<1>11. ASSUME NEW j \in 1 .. l
       PROVE  todo'[j].of <= w /\ (todo'[j].of = w => todo'[j].at = "enter")
  <2>1. CASE j <= k
    <3>1. j \in 1 .. k /\ todo'[j] = p[j]
      BY <1>3, <2>1
    <3> QED BY <3>1
  <2>2. CASE ~(j <= k)
    <3>1. PICK i \in 2 .. m : todo'[j] = todo[i] /\ i \in 1 .. m
      BY <1>6, <2>2
    <3>2. todo[i].of <= z /\ (todo[i].of = z => todo[i].at = "enter") /\ todo[i].of \in Int
      BY <1>4, <1>9, <3>1
    <3> QED BY <1>1, <3>1, <3>2
  <2> QED BY <2>1, <2>2
<1>12. ASSUME NEW j \in 1 .. l, ~(j <= k), todo'[j].of = w PROVE w = z
  <2>1. PICK i \in 2 .. m : todo'[j] = todo[i] /\ i \in 1 .. m
    BY <1>6, <1>12
  <2>2. todo[i].of <= z /\ todo[i].of \in Int
    BY <1>4, <1>9, <2>1
  <2> QED BY <1>1, <1>12, <2>1, <2>2
<1>13. ASSUME NEW j \in 1 .. l, NEW h \in 1 .. l, todo'[j].of = w, todo'[h].of = w
       PROVE  j = h
  <2>1. CASE j <= k /\ h <= k
    <3>1. j \in 1 .. k /\ h \in 1 .. k /\ todo'[j] = p[j] /\ todo'[h] = p[h]
      BY <1>3, <2>1
    <3> QED BY <1>13, <3>1
  <2>2. CASE ~(j <= k) /\ ~(h <= k)
    <3>1. w = z
      BY <1>12, <1>13, <2>2
    <3>2. PICK i \in 2 .. m : j = k + i - 1 /\ todo'[j] = todo[i] /\ i \in 1 .. m
      BY <1>6, <2>2
    <3>3. PICK g \in 2 .. m : h = k + g - 1 /\ todo'[h] = todo[g] /\ g \in 1 .. m
      BY <1>6, <2>2
    <3>4. i = g
      BY <1>10, <1>13, <3>1, <3>2, <3>3
    <3> QED BY <3>2, <3>3, <3>4
  <2>3. CASE j <= k /\ ~(h <= k)
    <3>1. w = z /\ j \in 1 .. k /\ todo'[j] = p[j]
      BY <1>3, <1>12, <1>13, <2>3
    <3> QED BY <1>13, <3>1
  <2>4. CASE ~(j <= k) /\ h <= k
    <3>1. w = z /\ h \in 1 .. k /\ todo'[h] = p[h]
      BY <1>3, <1>12, <1>13, <2>4
    <3> QED BY <1>13, <3>1
  <2> QED BY <2>1, <2>2, <2>3, <2>4
<1>14. ASSUME NEW j \in 1 .. l, todo'[j].at = "enter", todo'[j].of < w
       PROVE  node'[todo'[j].of].lhs < 0 /\ node'[todo'[j].of].rhs < 0
  <2>1. CASE j <= k
    <3>1. j \in 1 .. k /\ todo'[j] = p[j]
      BY <1>3, <2>1
    <3> QED BY <1>14, <3>1
  <2>2. CASE ~(j <= k)
    <3>1. PICK i \in 2 .. m : todo'[j] = todo[i] /\ i \in 1 .. m
      BY <1>6, <2>2
    <3>2. todo[i].of < z
      <4>1. CASE w = z
        BY <1>14, <3>1, <4>1
      <4>2. CASE w # z
        <5>1. todo[1].of = z /\ 1 \in 1 .. m /\ i # 1
          BY <1>3, <4>2
        <5>2. todo[i].of # z
          BY <1>10, <3>1, <5>1
        <5> QED BY <1>1, <1>4, <1>9, <3>1, <5>2
      <4> QED BY <4>1, <4>2
    <3>3. node[todo[i].of].lhs < 0 /\ node[todo[i].of].rhs < 0
      BY <1>14, <3>1, <3>2 DEF Calls, m
    <3> QED BY <1>4, <3>1, <3>2, <3>3
  <2> QED BY <2>1, <2>2
<1>15. ASSUME NEW j \in 1 .. l, todo'[j].at = "leave" PROVE Awaits(t, j, todo[j].of)'
  <2>1. CASE j <= k
    <3>1. j = k /\ todo'[j] = p[j]
      BY <1>3, <1>15, <2>1
    <3>2. ASSUME NEW e \in {node'[x].lhs, node'[x].rhs}, e > 0
          PROVE  Finished(t, e)' \/ OnStack(e, j - 1)'
      <4>1. e \in Nodes /\ (Finished(t, e) \/ \E i \in 1 .. k : i # k /\ p[i].of = e)
        BY <3>2
      <4>2. CASE Finished(t, e)
        BY <1>2, <4>1, <4>2
      <4>3. CASE \E i \in 1 .. k : i # k /\ p[i].of = e
        <5>1. PICK i \in 1 .. k : i # k /\ p[i].of = e
          BY <4>3
        <5>2. i \in 1 .. j - 1 /\ todo'[i].of = e
          BY <1>3, <3>1, <5>1
        <5> QED BY <5>2 DEF OnStack
      <4> QED BY <4>1, <4>2, <4>3
    <3> QED BY <3>1, <3>2 DEF Awaits
  <2>2. CASE ~(j <= k)
    <3>1. PICK i \in 2 .. m : j = k + i - 1 /\ todo'[j] = todo[i] /\ i \in 1 .. m
      BY <1>6, <2>2
    <3> DEFINE o == todo[i].of
    <3>2. o \in Nodes /\ o < z /\ todo[i].at = "leave"
      <4>1. o \in Nodes /\ o \in Int /\ o <= z /\ (o = z => todo[i].at = "enter")
        BY <1>4, <1>9, <3>1
      <4>2. todo[i].at = "leave"
        BY <1>15, <3>1
      <4> HIDE DEF o
      <4> QED BY <1>1, <4>1, <4>2
    <3>3. Awaits(t, i, o)
      BY <3>1, <3>2 DEF Calls, m
    <3>4. node'[o].lhs = node[o].lhs /\ node'[o].rhs = node[o].rhs
      BY <3>2
    <3>5. todo'[j].of = o
      BY <3>1
    <3> HIDE DEF o
    <3>6. ASSUME NEW e \in {node[o].lhs, node[o].rhs}, e > 0
          PROVE  Finished(t, e)' \/ OnStack(e, j - 1)'
      <4>1. e \in Nodes
        BY <3>2, <3>6, NodeShape
      <4>2. CASE Finished(t, e)
        BY <1>2, <4>1, <4>2
      <4>3. CASE OnStack(e, i - 1)
        <5>1. PICK g \in 1 .. i - 1 : todo[g].of = e
          BY <4>3 DEF OnStack
        <5>2. CASE g = 1
          <6>1. k \in 1 .. j - 1 /\ todo'[k].of = e
            <7>1. k \in 1 .. j - 1
              BY <3>1
            <7>2. todo'[k] = p[k] /\ p[k].of = x /\ e = x
              BY <1>3, <1>5, <5>1, <5>2
            <7> QED BY <7>1, <7>2
          <6> QED BY <6>1 DEF OnStack
        <5>3. CASE g # 1
          <6>1. g \in 2 .. m /\ k + g - 1 \in 1 .. j - 1
            BY <1>3, <3>1, <5>1, <5>3
          <6>2. todo'[k + g - 1].of = e
            BY <1>3, <5>1, <6>1
          <6> QED BY <6>1, <6>2 DEF OnStack
        <5> QED BY <5>2, <5>3
      <4> QED BY <3>3, <3>6, <4>2, <4>3 DEF Awaits
    <3> QED BY <3>4, <3>5, <3>6 DEF Awaits
  <2> QED BY <2>1, <2>2
<1> QED BY <1>0, <1>1, <1>7, <1>8, <1>11, <1>13, <1>14, <1>15 DEF Calls

-----------------------------------------------------------------------------
(* The calls that an entered node makes. *)

EnterCall(e) == [of |-> e, at |-> "enter"]
LeaveCall(e) == [of |-> e, at |-> "leave"]

(* p is the call that goes on with x, after the calls on the nodes a and b. *)
OneCall(p, x) == p \in Seq(Call) /\ Len(p) = 1 /\ p[1] = LeaveCall(x)
TwoCalls(p, a, x) ==
  p \in Seq(Call) /\ Len(p) = 2 /\ p[1] = EnterCall(a) /\ p[2] = LeaveCall(x)
ThreeCalls(p, a, b, x) ==
  /\ p \in Seq(Call) /\ Len(p) = 3
  /\ p[1] = EnterCall(a) /\ p[2] = EnterCall(b) /\ p[3] = LeaveCall(x)

LEMMA OneMore ==
  ASSUME NEW S, NEW s \in Seq(S), NEW c \in S
  PROVE  /\ s \o <<c>> \in Seq(S) /\ Len(s \o <<c>>) = Len(s) + 1
         /\ \A i \in 1 .. Len(s) : (s \o <<c>>)[i] = s[i]
         /\ (s \o <<c>>)[Len(s) + 1] = c
<1>1. <<c>> \in Seq(S) /\ Len(<<c>>) = 1 /\ <<c>>[1] = c
  OBVIOUS
<1>2. Len(s) \in Nat
  OBVIOUS
<1> QED BY <1>1, <1>2, ConcatProperties

LEMMA CallsMade ==
  ASSUME NEW a \in Int, NEW b \in Int, NEW x \in Nodes,
         a > 0 => a \in Nodes, b > 0 => b \in Nodes
  PROVE  LET p == Enter(a) \o Enter(b) \o Leave(x) IN
         /\ a < 0 /\ b < 0 => OneCall(p, x)
         /\ a < 0 /\ b > 0 => TwoCalls(p, b, x)
         /\ a > 0 /\ b < 0 => TwoCalls(p, a, x)
         /\ a > 0 /\ b > 0 => ThreeCalls(p, a, b, x)
<1> DEFINE L == LeaveCall(x)
           A == EnterCall(a)
           B == EnterCall(b)
           s == Enter(a) \o Enter(b)
<1>1. Leave(x) = <<L>>
  BY DEF Leave, LeaveCall
<1>2. /\ a < 0 => Enter(a) = <<>>
      /\ a > 0 => Enter(a) = <<A>>
      /\ b < 0 => Enter(b) = <<>>
      /\ b > 0 => Enter(b) = <<B>>
  BY DEF Enter, EnterCall, IsBinary
<1>3. L \in Call /\ (a > 0 => A \in Call) /\ (b > 0 => B \in Call)
  BY DEF LeaveCall, EnterCall, Call
<1> HIDE DEF L, A, B
<1>4. ASSUME a < 0, b < 0 PROVE s \in Seq(Call) /\ Len(s) = 0
  BY <1>2, <1>4
<1>5. ASSUME a < 0, b > 0 PROVE s \in Seq(Call) /\ Len(s) = 1 /\ s[1] = B
  <2>1. <<B>> \in Seq(Call) /\ Len(<<B>>) = 1 /\ <<B>>[1] = B
    BY <1>3, <1>5
  <2>2. s = <<B>>
    BY <1>2, <1>5, <2>1, ConcatEmptySeq
  <2> QED BY <2>1, <2>2
<1>6. ASSUME a > 0, b < 0 PROVE s \in Seq(Call) /\ Len(s) = 1 /\ s[1] = A
  <2>1. <<A>> \in Seq(Call) /\ Len(<<A>>) = 1 /\ <<A>>[1] = A
    BY <1>3, <1>6
  <2>2. s = <<A>>
    BY <1>2, <1>6, <2>1, ConcatEmptySeq
  <2> QED BY <2>1, <2>2
<1>7. ASSUME a > 0, b > 0 PROVE s \in Seq(Call) /\ Len(s) = 2 /\ s[1] = A /\ s[2] = B
  <2>1. <<A>> \in Seq(Call)
    BY <1>3, <1>7
  <2>2. Len(<<A>>) = 1 /\ <<A>>[1] = A
    OBVIOUS
  <2>3. s = <<A>> \o <<B>> /\ B \in Call
    BY <1>2, <1>3, <1>7
  <2> HIDE DEF s
  <2>4. s \in Seq(Call) /\ Len(s) = 1 + 1 /\ s[1 + 1] = B
    BY <2>1, <2>2, <2>3, OneMore
  <2>5. s[1] = A
    <3>1. 1 \in 1 .. Len(<<A>>)
      BY <2>2
    <3> QED BY <2>1, <2>2, <2>3, <3>1, OneMore
  <2>6. 1 + 1 = 2
    OBVIOUS
  <2> QED BY <2>4, <2>5, <2>6
<1> HIDE DEF s
<1> DEFINE p == s \o <<L>>
<1>8. s \in Seq(Call) =>
        /\ p \in Seq(Call) /\ Len(p) = Len(s) + 1
        /\ \A i \in 1 .. Len(s) : p[i] = s[i]
        /\ p[Len(s) + 1] = L
  BY <1>3, OneMore
<1> HIDE DEF p
<1>9. a < 0 /\ b < 0 => OneCall(p, x)
  <2> SUFFICES ASSUME a < 0, b < 0 PROVE OneCall(p, x)
    OBVIOUS
  <2> QED BY <1>4, <1>8 DEF OneCall, L
<1>10. a < 0 /\ b > 0 => TwoCalls(p, b, x)
  <2> SUFFICES ASSUME a < 0, b > 0 PROVE TwoCalls(p, b, x)
    OBVIOUS
  <2>1. s \in Seq(Call) /\ Len(s) = 1 /\ s[1] = B /\ 1 \in 1 .. 1 /\ 1 + 1 = 2
    BY <1>5
  <2>2. p \in Seq(Call) /\ Len(p) = 2 /\ p[1] = B /\ p[2] = L
    BY <1>8, <2>1
  <2> QED BY <2>2 DEF TwoCalls, L, B
<1>11. a > 0 /\ b < 0 => TwoCalls(p, a, x)
  <2> SUFFICES ASSUME a > 0, b < 0 PROVE TwoCalls(p, a, x)
    OBVIOUS
  <2>1. s \in Seq(Call) /\ Len(s) = 1 /\ s[1] = A /\ 1 \in 1 .. 1 /\ 1 + 1 = 2
    BY <1>6
  <2>2. p \in Seq(Call) /\ Len(p) = 2 /\ p[1] = A /\ p[2] = L
    BY <1>8, <2>1
  <2> QED BY <2>2 DEF TwoCalls, L, A
<1>12. a > 0 /\ b > 0 => ThreeCalls(p, a, b, x)
  <2> SUFFICES ASSUME a > 0, b > 0 PROVE ThreeCalls(p, a, b, x)
    OBVIOUS
  <2>1. /\ s \in Seq(Call) /\ Len(s) = 2 /\ s[1] = A /\ s[2] = B
        /\ 1 \in 1 .. 2 /\ 2 \in 1 .. 2 /\ 2 + 1 = 3
    BY <1>7
  <2>2. p \in Seq(Call) /\ Len(p) = 3 /\ p[1] = A /\ p[2] = B /\ p[3] = L
    BY <1>8, <2>1
  <2> QED BY <2>2 DEF ThreeCalls, L, A, B
<1>13. p = Enter(a) \o Enter(b) \o Leave(x)
  BY <1>1 DEF p, s
<1> QED BY <1>9, <1>10, <1>11, <1>12, <1>13

LEMMA HeadEntered ==
  ASSUME IInv, EnterNode
  PROVE  \E x \in Nodes :
           /\ todo # <<>> /\ todo[1].of = x /\ todo[1].at = "enter" /\ 1 \in 1 .. Len(todo)
           /\ next = 0 /\ stage = "build" /\ UNCHANGED <<chain, term, stage, next, builds>>
           /\ Nodes' = Nodes
           /\ node' = IF MustRotate(x) THEN Rotate(x) ELSE node
           /\ GoesOn(Enter(node'[x].lhs) \o Enter(node'[x].rhs) \o Leave(x))
<1>1. todo # <<>> /\ Head(todo) = todo[1] /\ Head(todo).of \in Nodes /\ next = 0 /\ stage = "build"
  BY HeadCall, Stack DEF EnterNode
<1>2. 1 \in 1 .. Len(todo)
  BY <1>1, Stack
<1>3. Nodes' = Nodes
  BY DEF EnterNode, Nodes
<1> QED BY <1>1, <1>2, <1>3 DEF EnterNode, GoesOn

(* Of a node that is still the root of the rest of the chain, the code enters *)
(* the next node, and after a rotation the one after it.                      *)
LEMMA EnterLeaf ==
  ASSUME IInv, todo # <<>>, next = 0, NEW t \in {"INT", "FLOAT"},
         NEW z \in 1 .. Len(chain) + 1, Chained(z), Calls(t, z),
         NEW x \in Nodes, todo[1].of = x, node[x].lhs < 0, node[x].rhs < 0,
         x < z \/ (x = z /\ x = Len(chain)),
         UNCHANGED <<chain, term, node>>, NEW p, OneCall(p, x), GoesOn(p)
  PROVE  \E w \in 1 .. Len(chain) + 1 : Chained(w)' /\ Calls(t, w)'
<1> DEFINE w == IF x = z THEN z + 1 ELSE z
<1>1. /\ Len(chain) \in Nat /\ x \in Int /\ z \in Int /\ w \in z .. Len(chain) + 1
      /\ w \in 1 .. Len(chain) + 1 /\ Nodes = 1 .. Len(chain) /\ Nodes' = Nodes
  BY Shape DEF Nodes
<1>2. /\ p \in Seq(Call) /\ Len(p) = 1 /\ p[1].of = x /\ p[1].at = "leave"
      /\ \A i \in 1 .. 1 : i = 1
  BY DEF LeaveCall, OneCall
<1>3. /\ w = z => x # z
      /\ w # z => x = z /\ w > Len(chain)
      /\ \A y \in Nodes : y >= z /\ y < w => y = x
      /\ x # w /\ x <= w
  BY <1>1
<1>4. Chained(w)'
  BY <1>1 DEF Chained
<1> HIDE DEF w
<1>6. Calls(t, w)'
  <2>1. 1 \in Nat \ {0} /\ w \in Int
    BY <1>1
  <2>2. w <= Len(chain) => w = z /\ x # z
    BY <1>1, <1>3
  <2>3. \A e \in {node'[x].lhs, node'[x].rhs} : ~(e > 0)
    BY <1>1, NodeShape
  <2>4. \A y \in Nodes : y >= z /\ y < w => \E i \in 1 .. 1 : p[i].of = y
    BY <1>2, <1>3
  <2>5. Brings(t, z, w, p, 1, x)
    BY <1>1, <1>2, <1>3, <2>1, <2>2, <2>3, <2>4 DEF Brings
  <2> QED BY <1>1, <2>5, Pushed
<1> QED BY <1>1, <1>4, <1>6

LEMMA EnterOrdered ==
  ASSUME IInv, todo # <<>>, next = 0, NEW t \in {"INT", "FLOAT"},
         NEW z \in 1 .. Len(chain) + 1, Chained(z), Calls(t, z),
         NEW x \in Nodes, todo[1].of = x, node[x].lhs < 0, node[x].rhs = x + 1, x = z,
         UNCHANGED <<chain, term, node>>, x + 1 \in Nodes,
         NEW p, TwoCalls(p, x + 1, x), GoesOn(p)
  PROVE  \E w \in 1 .. Len(chain) + 1 : Chained(w)' /\ Calls(t, w)'
<1> DEFINE w == x + 1
<1>1. /\ Len(chain) \in Nat /\ x \in Int /\ z \in Int /\ w \in z .. Len(chain) + 1
      /\ w \in 1 .. Len(chain) + 1 /\ Nodes = 1 .. Len(chain) /\ Nodes' = Nodes
      /\ w \in Nodes /\ w \in Int /\ w # z /\ x # w /\ x <= w /\ ~(w < w)
      /\ \A y \in Nodes : y >= z /\ y < w => y = x
  BY Shape DEF Nodes
<1>2. /\ p \in Seq(Call) /\ Len(p) = 2
      /\ p[1].of = w /\ p[1].at = "enter" /\ p[2].of = x /\ p[2].at = "leave"
      /\ \A i \in 1 .. 2 : i = 1 \/ i = 2
  BY DEF LeaveCall, EnterCall, TwoCalls
<1>4. Chained(w)'
  BY <1>1 DEF Chained
<1>7. \A e \in {node'[x].lhs, node'[x].rhs} : e > 0 => e = w
  BY <1>1, NodeShape
<1> HIDE DEF w
<1>6. Calls(t, w)'
  <2>1. 2 \in Nat \ {0} /\ 1 \in 1 .. 2 /\ 2 \in 1 .. 2 /\ 1 # 2
    OBVIOUS
  <2>2. \E i \in 1 .. 2 : p[i].of = w
    BY <1>2, <2>1
  <2>3. \A e \in {node'[x].lhs, node'[x].rhs} :
          e > 0 => e \in Nodes /\ (Finished(t, e) \/ \E i \in 1 .. 2 : i # 2 /\ p[i].of = e)
    BY <1>1, <1>2, <1>7, <2>1
  <2>4. \A y \in Nodes : y >= z /\ y < w => \E i \in 1 .. 2 : p[i].of = y
    BY <1>1, <1>2, <2>1
  <2>5. \A i \in 1 .. 2 : p[i].of <= w /\ (p[i].of = w => p[i].at = "enter")
    BY <1>1, <1>2
  <2>6. \A i, j \in 1 .. 2 : p[i].of = w /\ p[j].of = w => i = j
    BY <1>1, <1>2
  <2>7. \A i \in 1 .. 2 : i # 2 => p[i].at = "enter"
    BY <1>2
  <2>8. \A i \in 1 .. 2 : p[i].at = "enter" => ~(p[i].of < w)
    BY <1>1, <1>2
  <2>9. Brings(t, z, w, p, 2, x)
    BY <1>1, <1>2, <2>1, <2>2, <2>3, <2>4, <2>5, <2>6, <2>7, <2>8 DEF Brings
  <2> QED BY <1>1, <2>9, Pushed
<1> QED BY <1>1, <1>4, <1>6

LEMMA EnterRotated ==
  ASSUME IInv, todo # <<>>, next = 0, NEW t \in {"INT", "FLOAT"},
         NEW z \in 1 .. Len(chain) + 1, Chained(z), Calls(t, z),
         NEW x \in Nodes, todo[1].of = x, x = z, node[x].rhs = x + 1, x + 1 \in Nodes,
         MustRotate(x), UNCHANGED <<chain, term>>, node' = Rotate(x),
         GoesOn(Enter(node'[x].lhs) \o Enter(node'[x].rhs) \o Leave(x))
  PROVE  \E w \in 1 .. Len(chain) + 1 : Chained(w)' /\ Calls(t, w)'
<1> DEFINE y == x + 1
           w == x + 2
           p == Enter(node'[x].lhs) \o Enter(node'[x].rhs) \o Leave(x)
<1>1. /\ Len(chain) \in Nat /\ x \in Int /\ z \in Int /\ w \in z .. Len(chain) + 1
      /\ w \in 1 .. Len(chain) + 1 /\ Nodes = 1 .. Len(chain) /\ Nodes' = Nodes
      /\ y \in Nodes /\ y \in Int /\ y > 0 /\ y # x /\ y < w /\ x < w /\ w # z /\ z = x
      /\ w \in Int /\ (w \in Nodes <=> y # Len(chain)) /\ (w <= Len(chain) <=> w \in Nodes)
      /\ ~(w < w) /\ w > 0
      /\ \A u \in Nodes : u >= z /\ u < w => u = x \/ u = y
      /\ \A u \in Nodes : u >= w => u # x /\ u # y /\ u >= z
      /\ \A u \in Nodes : u < z => u # x /\ u # y
  BY Shape DEF Nodes
<1>2. /\ node[x].lhs < 0 /\ node[y].lhs < 0 /\ node[y].lhs \in Int
      /\ node[y].rhs = IF y = Len(chain) THEN node[y].rhs ELSE w
      /\ y = Len(chain) => node[y].rhs < 0
      /\ node[y].rhs \in Int
  <2>1. node[x].lhs < 0 /\ node[y].lhs < 0
    BY <1>1 DEF Chained
  <2>2. y = Len(chain) => node[y].rhs < 0
    BY <1>1 DEF Chained
  <2>3. y # Len(chain) => node[y].rhs = w
    <3>1. y \in Nodes /\ y >= z /\ y + 1 = w
      BY <1>1
    <3> HIDE DEF y, w
    <3> QED BY <3>1 DEF Chained
  <2>4. node[y].lhs \in Int /\ node[y].rhs \in Int
    BY <1>1, NodeShape
  <2> QED BY <1>1, <2>1, <2>2, <2>3, <2>4
<1>3. \A u \in Nodes :
        /\ node'[u].value = node[u].value
        /\ node'[u].lhs = IF u = y THEN node[x].lhs ELSE IF u = x THEN y ELSE node[u].lhs
        /\ node'[u].rhs = IF u = y THEN node[y].lhs ELSE IF u = x THEN node[y].rhs ELSE node[u].rhs
  BY RotatedFields
<1>4. node'[x].lhs = y /\ node'[x].rhs = node[y].rhs /\ node'[y].lhs < 0 /\ node'[y].rhs < 0
  BY <1>1, <1>2, <1>3
<1>5. \A u \in Nodes : u < z \/ u >= w => node'[u].lhs = node[u].lhs /\ node'[u].rhs = node[u].rhs
  BY <1>1, <1>3
<1>6. Chained(w)'
  BY <1>1, <1>5 DEF Chained
<1>8. GoesOn(p)
  OBVIOUS
<1>9. CASE y = Len(chain)
  <2>1. TwoCalls(p, y, x)
    <3>1. node[y].rhs < 0
      BY <1>2, <1>9
    <3> QED BY <1>1, <1>2, <1>4, <3>1, CallsMade
  <2> HIDE DEF y, w, p
  <2>2. /\ p \in Seq(Call) /\ Len(p) = 2
        /\ p[1].of = y /\ p[1].at = "enter" /\ p[2].of = x /\ p[2].at = "leave"
        /\ \A i \in 1 .. 2 : i = 1 \/ i = 2
    BY <2>1 DEF EnterCall, LeaveCall, TwoCalls
  <2>3. 2 \in Nat \ {0} /\ 1 \in 1 .. 2 /\ 2 \in 1 .. 2 /\ 1 # 2
    OBVIOUS
  <2>4. ~(w <= Len(chain))
    BY <1>1, <1>9
  <2>5. \A e \in {node'[x].lhs, node'[x].rhs} :
          e > 0 => e \in Nodes /\ (Finished(t, e) \/ \E i \in 1 .. 2 : i # 2 /\ p[i].of = e)
    <3>1. ASSUME NEW e \in {node'[x].lhs, node'[x].rhs}, e > 0 PROVE e = y
      BY <1>2, <1>4, <1>9, <3>1
    <3> QED BY <1>1, <2>2, <2>3, <3>1
  <2>6. \A u \in Nodes : u >= z /\ u < w => \E i \in 1 .. 2 : p[i].of = u
    BY <1>1, <2>2, <2>3
  <2>7. \A i \in 1 .. 2 : p[i].of <= w /\ p[i].of # w
    BY <1>1, <2>2
  <2>8. \A i \in 1 .. 2 : i # 2 => p[i].at = "enter"
    BY <2>2
  <2>9. \A i \in 1 .. 2 : p[i].at = "enter" => node'[p[i].of].lhs < 0 /\ node'[p[i].of].rhs < 0
    BY <1>4, <2>2
  <2>10. Calls(t, w)'
    <3>1. Brings(t, z, w, p, 2, x)
      BY <1>1, <1>8, <2>2, <2>3, <2>4, <2>5, <2>6, <2>7, <2>8, <2>9 DEF Brings
    <3> QED BY <1>1, <1>3, <1>5, <3>1, Pushed
  <2> QED BY <1>1, <1>6, <2>10
<1>10. CASE y # Len(chain)
  <2>0. node'[x].rhs = w /\ w \in Nodes
    BY <1>1, <1>2, <1>4, <1>10
  <2>1. ThreeCalls(p, y, w, x)
    BY <1>1, <1>4, <2>0, CallsMade
  <2> HIDE DEF y, w, p
  <2>2. /\ p \in Seq(Call) /\ Len(p) = 3
        /\ p[1].of = y /\ p[1].at = "enter" /\ p[2].of = w /\ p[2].at = "enter"
        /\ p[3].of = x /\ p[3].at = "leave"
        /\ \A i \in 1 .. 3 : i = 1 \/ i = 2 \/ i = 3
    BY <2>1 DEF EnterCall, LeaveCall, ThreeCalls
  <2>3. 3 \in Nat \ {0} /\ 1 \in 1 .. 3 /\ 2 \in 1 .. 3 /\ 3 \in 1 .. 3 /\ 1 # 3 /\ 2 # 3
    OBVIOUS
  <2>4. \E i \in 1 .. 3 : p[i].of = w
    BY <2>2, <2>3
  <2>5. \A e \in {node'[x].lhs, node'[x].rhs} :
          e > 0 => e \in Nodes /\ (Finished(t, e) \/ \E i \in 1 .. 3 : i # 3 /\ p[i].of = e)
    BY <1>1, <1>4, <2>0, <2>2, <2>3
  <2>6. \A u \in Nodes : u >= z /\ u < w => \E i \in 1 .. 3 : p[i].of = u
    BY <1>1, <2>2, <2>3
  <2>7. \A i \in 1 .. 3 : p[i].of <= w /\ (p[i].of = w => p[i].at = "enter")
    BY <1>1, <2>2
  <2>8. \A i \in 1 .. 3 : i # 3 => p[i].at = "enter"
    BY <2>2
  <2>9. \A i \in 1 .. 3 : p[i].at = "enter" /\ p[i].of < w =>
                            node'[p[i].of].lhs < 0 /\ node'[p[i].of].rhs < 0
    BY <1>1, <1>4, <2>2
  <2>10. \A i, j \in 1 .. 3 : p[i].of = w /\ p[j].of = w => i = j
    <3>1. y # w /\ x # w
      BY <1>1
    <3> QED BY <2>2, <3>1
  <2>11. Calls(t, w)'
    <3>1. Brings(t, z, w, p, 3, x)
      BY <1>1, <1>8, <2>2, <2>3, <2>4, <2>5, <2>6, <2>7, <2>8, <2>9, <2>10 DEF Brings
    <3> QED BY <1>1, <1>3, <1>5, <3>1, Pushed
  <2> QED BY <1>1, <1>6, <2>11
<1> QED BY <1>9, <1>10

(* Entering a node keeps the types, and the code of the nodes that have it. *)
LEMMA EnterUniform ==
  ASSUME IInv, EnterNode, NEW t \in {"INT", "FLOAT"}, Uniform(t)
  PROVE  Uniform(t)' /\ \A y \in Nodes : Finished(t, y)' <=> Finished(t, y)
<1>1. PICK x \in Nodes :
        /\ next = 0 /\ UNCHANGED <<chain, term>> /\ Nodes' = Nodes
        /\ node' = IF MustRotate(x) THEN Rotate(x) ELSE node
  BY HeadEntered
<1>2. Result(t)' = Result(t)
  BY <1>1 DEF Result
<1>3. \A u \in Nodes :
        /\ node'[u].type = node[u].type /\ node'[u].ep = node[u].ep
        /\ node'[u].value = node[u].value /\ \E v \in Nodes : node'[u].op = node[v].op
  <2>1. CASE MustRotate(x)
    BY <1>1, <2>1, RotatedFields
  <2>2. CASE ~MustRotate(x)
    BY <1>1, <2>2
  <2> QED BY <2>1, <2>2
<1>4. Uniform(t)'
  <2> SUFFICES ASSUME NEW u \in Nodes
               PROVE  /\ node'[u].ep = EquivalentPrimitive(t) /\ node'[u].type = Result(t)
                      /\ node'[u].op \in Comparisons <=> Result(t) = "TRUTH"
                      /\ node'[u].value \in {"UNSET", Result(t)}
    BY <1>1, <1>2, Zenon DEF Uniform
  <2>1. PICK v \in Nodes : node'[u].op = node[v].op
    BY <1>3
  <2> QED BY <1>3, <2>1 DEF Uniform
<1> QED BY <1>2, <1>3, <1>4 DEF Finished

(* An entered node has a call on the stack: the one that goes on with it. *)
LEMMA CallsPushed ==
  ASSUME IInv, EnterNode
  PROVE  Len(todo') # 0
<1>1. PICK x \in Nodes :
        /\ todo # <<>> /\ next = 0 /\ node' = IF MustRotate(x) THEN Rotate(x) ELSE node
        /\ GoesOn(Enter(node'[x].lhs) \o Enter(node'[x].rhs) \o Leave(x))
  BY HeadEntered
<1>2. ParsedOK(x) /\ \A e \in Nodes \cup Terms : Enter(e) \in Seq(Call)
  BY <1>1, Shape, EnterCalls DEF IInv
<1>3. node'[x].lhs \in Nodes \cup Terms /\ node'[x].rhs \in Nodes \cup Terms
  <2>1. CASE MustRotate(x)
    BY <1>1, <2>1, RotatedFields
  <2>2. CASE ~MustRotate(x)
    BY <1>1, <1>2, <2>2 DEF ParsedOK
  <2> QED BY <2>1, <2>2
<1>4. \A q, r \in Seq(Call) : q \o r \in Seq(Call) /\ Len(q \o r) = Len(q) + Len(r)
  BY ConcatProperties
<1>5. Leave(x) \in Seq(Call) /\ Len(Leave(x)) = 1
  <2>1. LeaveCall(x) \in Call
    BY DEF LeaveCall, Call
  <2> QED BY <2>1 DEF Leave, LeaveCall
<1>6. Tail(todo) \in Seq(Call)
  BY <1>1, Stack
<1> DEFINE q == Enter(node'[x].lhs)
           r == Enter(node'[x].rhs)
           p == q \o r
           s == p \o Leave(x)
<1>7. q \in Seq(Call) /\ r \in Seq(Call)
  BY <1>2, <1>3
<1>8. p \in Seq(Call)
  BY <1>7
<1> HIDE DEF q, r, p
<1>9. s \in Seq(Call) /\ Len(s) = Len(p) + 1
  BY <1>4, <1>5, <1>8
<1>10. todo' = s \o Tail(todo)
  BY <1>1 DEF s, p, q, r, GoesOn
<1> HIDE DEF s
<1>11. Len(todo') = Len(p) + 1 + Len(Tail(todo))
  BY <1>4, <1>6, <1>9, <1>10
<1>12. \A i, j \in Nat : i + 1 + j # 0
  OBVIOUS
<1>13. Len(p) \in Nat /\ Len(Tail(todo)) \in Nat
  BY <1>6, <1>8, LenProperties
<1> QED BY <1>11, <1>12, <1>13

LEMMA EnterTree ==
  ASSUME IInv, NInv, EnterNode, NEW t \in {"INT", "FLOAT"}, Numbers(t)
  PROVE  Tree(t)'
<1>1. PICK x \in Nodes :
        /\ todo # <<>> /\ todo[1].of = x /\ todo[1].at = "enter" /\ 1 \in 1 .. Len(todo)
        /\ next = 0 /\ stage = "build" /\ UNCHANGED <<chain, term, stage, next, builds>>
        /\ Nodes' = Nodes
        /\ node' = IF MustRotate(x) THEN Rotate(x) ELSE node
        /\ GoesOn(Enter(node'[x].lhs) \o Enter(node'[x].rhs) \o Leave(x))
  BY HeadEntered
<1>2. Tree(t)
  BY <1>1 DEF NInv
<1>3. Uniform(t)' /\ \A y \in Nodes : Finished(t, y)' <=> Finished(t, y)
  BY <1>2, EnterUniform DEF Tree
<1>4. CASE builds = 1
  <2>1. PICK z \in 1 .. Len(chain) + 1 : Chained(z) /\ Calls(t, z)
    BY <1>1, <1>2, <1>4 DEF Tree
  <2>2. x <= z /\ x \in Int /\ z \in Int /\ Nodes = 1 .. Len(chain) /\ Len(chain) \in Nat
    BY <1>1, <2>1, Shape DEF Calls
  <2>3. x < z => node[x].lhs < 0 /\ node[x].rhs < 0
    BY <1>1, <2>1 DEF Calls
  <2>4. x = z => /\ node[x].lhs < 0
                 /\ IF x = Len(chain) THEN node[x].rhs < 0 ELSE node[x].rhs = x + 1
    BY <2>1, <2>2 DEF Chained
  <2>5. node[x].lhs \in Int /\ node[x].rhs \in Int
    BY <1>1, NodeShape
  <2>6. \E w \in 1 .. Len(chain) + 1 : Chained(w)' /\ Calls(t, w)'
    <3>1. CASE x < z \/ x = Len(chain)
      <4>1. node[x].lhs < 0 /\ node[x].rhs < 0 /\ ~MustRotate(x)
        BY <2>2, <2>3, <2>4, <2>5, <3>1 DEF MustRotate, IsBinary
      <4>2. node' = node
        BY <1>1, <4>1
      <4>3. PICK p : OneCall(p, x) /\ GoesOn(p)
        <5>1. ~(node[x].lhs > 0) /\ ~(node[x].rhs > 0)
          BY <2>5, <4>1
        <5>2. OneCall(Enter(node[x].lhs) \o Enter(node[x].rhs) \o Leave(x), x)
          BY <2>5, <4>1, <5>1, CallsMade
        <5> QED BY <1>1, <4>2, <5>2
      <4>4. x < z \/ (x = z /\ x = Len(chain))
        BY <2>2, <3>1
      <4> QED BY <1>1, <2>1, <4>1, <4>2, <4>3, <4>4, EnterLeaf
    <3>2. CASE ~(x < z \/ x = Len(chain))
      <4>1. x = z /\ x + 1 \in Nodes /\ node[x].rhs = x + 1 /\ node[x].lhs < 0
        BY <2>2, <2>4, <3>2
      <4>2. CASE MustRotate(x)
        <5>1. node' = Rotate(x)
          BY <1>1, <4>2
        <5> QED BY <1>1, <2>1, <4>1, <4>2, <5>1, EnterRotated
      <4>3. CASE ~MustRotate(x)
        <5>1. node' = node
          BY <1>1, <4>3
        <5>2. PICK p : TwoCalls(p, x + 1, x) /\ GoesOn(p)
          <6>1. x + 1 > 0 /\ ~(node[x].lhs > 0)
            BY <2>2, <2>5, <4>1
          <6>2. TwoCalls(Enter(node[x].lhs) \o Enter(node[x].rhs) \o Leave(x), x + 1, x)
            BY <2>5, <4>1, <6>1, CallsMade
          <6> QED BY <1>1, <5>1, <6>2
        <5> QED BY <1>1, <2>1, <4>1, <5>1, <5>2, EnterOrdered
      <4> QED BY <4>2, <4>3
    <3> QED BY <3>1, <3>2
  <2>7. \E w \in 1 .. Len(chain') + 1 : Chained(w)' /\ Calls(t, w)'
    BY <1>1, <2>6
  <2>8. todo' # <<>>
    <3>1. Len(todo') # 0
      BY <1>1, CallsPushed
    <3>2. Len(<<>>) = 0
      OBVIOUS
    <3> QED BY <3>1, <3>2
  <2> QED BY <1>1, <1>3, <1>4, <2>7, <2>8, Zenon DEF Tree
<1>5. CASE builds # 1
  <2>1. \A y \in Nodes' : Finished(t, y)'
    BY <1>1, <1>2, <1>3, <1>5, Zenon DEF Tree
  <2> QED BY <1>1, <1>3, <1>5, <2>1, Zenon DEF Tree
<1> QED BY <1>4, <1>5

-----------------------------------------------------------------------------
(* The code of a node is made when the code of its operands is. *)

LEMMA HeadLeft ==
  ASSUME IInv, LeaveNode
  PROVE  \E x \in Nodes :
           /\ todo # <<>> /\ todo[1].of = x /\ todo[1].at = "leave" /\ 1 \in 1 .. Len(todo)
           /\ next = 0 /\ stage = "build" /\ UNCHANGED <<chain, term, stage, next, builds>>
           /\ Nodes' = Nodes /\ Pops
           /\ \A u \in Nodes :
                /\ node'[u].op = node[u].op /\ node'[u].lhs = node[u].lhs
                /\ node'[u].rhs = node[u].rhs /\ node'[u].type = node[u].type
                /\ node'[u].ep = node[u].ep
                /\ node'[u].value = IF u = x THEN Generated(x) ELSE node[u].value
<1> DEFINE x == Head(todo).of
<1>1. todo # <<>> /\ Head(todo) = todo[1] /\ x \in Nodes /\ next = 0 /\ stage = "build"
  BY HeadCall, Stack DEF LeaveNode
<1>2. 1 \in 1 .. Len(todo) /\ todo[1].of = x /\ todo[1].at = "leave"
  BY <1>1, Stack DEF LeaveNode
<1>3. node' = [node EXCEPT ![x].value = Generated(x)] /\ Pops
  BY DEF LeaveNode, Pops
<1>4. UNCHANGED <<chain, term, stage, next, builds>> /\ Nodes' = Nodes
  BY DEF LeaveNode, Nodes
<1> HIDE DEF x
<1>5. Generated(x) \in Primitives \cup {"UNSET", "MALFORMED"}
  BY <1>1, TermTypesAssumption, GeneratedType DEF Primitives
<1>6. \A u \in Nodes :
        /\ node'[u].op = node[u].op /\ node'[u].lhs = node[u].lhs
        /\ node'[u].rhs = node[u].rhs /\ node'[u].type = node[u].type
        /\ node'[u].ep = node[u].ep
        /\ node'[u].value = IF u = x THEN Generated(x) ELSE node[u].value
  BY <1>1, <1>3, <1>5, SetValue DEF IInv
<1> QED BY <1>1, <1>2, <1>3, <1>4, <1>6

(* The stack without its head, when the node of the head has its code. *)
LEMMA Popped ==
  ASSUME IInv, todo # <<>>, next = 0, NEW t \in {"INT", "FLOAT"},
         NEW z \in 1 .. Len(chain) + 1, Calls(t, z),
         NEW x \in Nodes, todo[1].of = x, todo[1].at = "leave", Finished(t, x)',
         UNCHANGED <<chain, term>>, Pops,
         \A u \in Nodes : /\ node'[u].lhs = node[u].lhs /\ node'[u].rhs = node[u].rhs
                          /\ u # x => node'[u].value = node[u].value
  PROVE  Calls(t, z)' /\ (todo' = <<>> => \A u \in Nodes : Finished(t, u)')
<1> DEFINE m == Len(todo)
<1>0. PICK l : l = Len(todo')
  OBVIOUS
<1>1. Nodes' = Nodes /\ Nodes = 1 .. Len(chain) /\ Len(chain) \in Nat /\ Result(t)' = Result(t)
  BY Shape DEF Nodes, Result
<1>2. \A u \in Nodes : Finished(t, u) => Finished(t, u)'
  BY <1>1 DEF Finished
<1>3. m \in Nat \ {0} /\ l = m - 1 /\ \A i \in 1 .. l : todo'[i] = todo[i + 1]
  BY <1>0, Stack DEF Pops
<1>4. \A i \in 1 .. m : todo[i].of \in Nodes /\ todo[i].of \in Int
  BY Stack
<1>5. todo' = <<>> => l = 0
  BY <1>0
<1> HIDE DEF m
<1>6. ASSUME NEW i \in 1 .. m, i # 1 PROVE i - 1 \in 1 .. l /\ todo'[i - 1] = todo[i]
  <2>1. i - 1 \in 1 .. l /\ i - 1 + 1 = i
    BY <1>3, <1>6
  <2> QED BY <1>3, <2>1
<1>7. ASSUME NEW u \in Nodes, OnStack(u, m) PROVE u = x \/ OnStack(u, l)'
  <2>1. PICK i \in 1 .. m : todo[i].of = u
    BY <1>7 DEF OnStack
  <2>2. CASE i # 1
    BY <1>6, <2>1, <2>2 DEF OnStack
  <2> QED BY <2>1, <2>2
<1>8. \A i \in 1 .. l : i + 1 \in 1 .. m /\ i + 1 # 1 /\ todo'[i] = todo[i + 1]
  BY <1>3
<1>9. ASSUME NEW u \in Nodes, u < z PROVE Finished(t, u)' \/ OnStack(u, l)'
  <2>1. Finished(t, u) \/ OnStack(u, m)
    BY <1>9 DEF Calls, m
  <2> QED BY <1>2, <1>7, <2>1
<1>10. \A i \in 1 .. m : todo[i].of <= z /\ (todo[i].of = z => todo[i].at = "enter")
  BY DEF Calls, m
<1>11. x # z /\ x < z
  <2>1. 1 \in 1 .. m
    BY <1>3
  <2>2. x # z /\ x <= z
    BY <1>10, <2>1
  <2> QED BY <1>1, <2>2
<1>12. ASSUME z <= Len(chain) PROVE OnStack(z, l)'
  <2>1. OnStack(z, m) /\ z \in Nodes
    BY <1>1, <1>12 DEF Calls, m
  <2> QED BY <1>7, <1>11, <2>1
<1>13. \A i \in 1 .. l : todo'[i].of <= z /\ (todo'[i].of = z => todo'[i].at = "enter")
  BY <1>8, <1>10
<1>14. ASSUME NEW i \in 1 .. l, NEW j \in 1 .. l, todo'[i].of = z, todo'[j].of = z PROVE i = j
  <2>1. i + 1 = j + 1
    BY <1>8, <1>14 DEF Calls, m
  <2> QED BY <2>1
<1>15. ASSUME NEW i \in 1 .. l, todo'[i].at = "enter", todo'[i].of < z
       PROVE  node'[todo'[i].of].lhs < 0 /\ node'[todo'[i].of].rhs < 0
  <2>1. i + 1 \in 1 .. m /\ todo'[i] = todo[i + 1]
    BY <1>8
  <2>2. node[todo[i + 1].of].lhs < 0 /\ node[todo[i + 1].of].rhs < 0
    BY <1>15, <2>1 DEF Calls, m
  <2> QED BY <1>4, <2>1, <2>2
<1>16. ASSUME NEW i \in 1 .. l, todo'[i].at = "leave" PROVE Awaits(t, i, todo[i].of)'
  <2> DEFINE o == todo[i + 1].of
  <2>1. i + 1 \in 1 .. m /\ todo'[i] = todo[i + 1] /\ o \in Nodes /\ i \in Int
    BY <1>4, <1>8
  <2>2. Awaits(t, i + 1, o)
    BY <1>16, <2>1 DEF Calls, m
  <2>3. todo'[i].of = o
    BY <2>1
  <2> HIDE DEF o
  <2>4. ASSUME NEW e \in {node[o].lhs, node[o].rhs}, e > 0
        PROVE  Finished(t, e)' \/ OnStack(e, i - 1)'
    <3>1. e \in Nodes
      BY <2>1, <2>4, NodeShape
    <3>2. CASE Finished(t, e)
      BY <1>2, <3>1, <3>2
    <3>3. CASE OnStack(e, i + 1 - 1)
      <4>1. PICK g \in 1 .. i : todo[g].of = e
        BY <2>1, <3>3 DEF OnStack
      <4>2. CASE g = 1
        BY <4>1, <4>2
      <4>3. CASE g # 1
        <5>1. g \in 1 .. m /\ g - 1 \in 1 .. i - 1
          BY <1>3, <2>1, <4>3
        <5> QED BY <1>6, <4>1, <4>3, <5>1 DEF OnStack
      <4> QED BY <4>2, <4>3
    <3> QED BY <2>2, <2>4, <3>2, <3>3 DEF Awaits
  <2> QED BY <2>1, <2>3, <2>4 DEF Awaits
<1>17. Calls(t, z)'
  BY <1>0, <1>1, <1>9, <1>12, <1>13, <1>14, <1>15, <1>16 DEF Calls
<1>18. ASSUME todo' = <<>>, NEW u \in Nodes PROVE Finished(t, u)'
  <2>1. l = 0 /\ \A v : ~OnStack(v, l)'
    BY <1>5, <1>18 DEF OnStack
  <2>2. z > Len(chain)
    BY <1>1, <1>12, <2>1
  <2>3. u < z
    BY <1>1, <2>2
  <2> QED BY <1>9, <2>1, <2>3
<1> QED BY <1>17, <1>18

LEMMA LeaveTree ==
  ASSUME IInv, NInv, LeaveNode, NEW t \in {"INT", "FLOAT"}, Numbers(t)
  PROVE  Tree(t)'
<1>1. PICK x \in Nodes :
        /\ todo # <<>> /\ todo[1].of = x /\ todo[1].at = "leave" /\ 1 \in 1 .. Len(todo)
        /\ next = 0 /\ stage = "build" /\ UNCHANGED <<chain, term, stage, next, builds>>
        /\ Nodes' = Nodes /\ Pops
        /\ \A u \in Nodes :
             /\ node'[u].op = node[u].op /\ node'[u].lhs = node[u].lhs
             /\ node'[u].rhs = node[u].rhs /\ node'[u].type = node[u].type
             /\ node'[u].ep = node[u].ep
             /\ node'[u].value = IF u = x THEN Generated(x) ELSE node[u].value
  BY HeadLeft
<1>2. Tree(t) /\ Uniform(t) /\ Result(t)' = Result(t)
  BY <1>1 DEF NInv, Tree, Result
<1>3. \A e \in {node[x].lhs, node[x].rhs} : e > 0 => Finished(t, e)
  <2>1. CASE builds = 1
    <3>1. PICK z \in 1 .. Len(chain) + 1 : Calls(t, z)
      BY <1>1, <1>2, <2>1 DEF Tree
    <3>2. Awaits(t, 1, x)
      BY <1>1, <3>1 DEF Calls
    <3>3. \A e : ~OnStack(e, 1 - 1)
      BY DEF OnStack
    <3> QED BY <3>2, <3>3 DEF Awaits
  <2>2. CASE builds # 1
    BY <1>1, <1>2, <2>2, NodeShape DEF Tree
  <2> QED BY <2>1, <2>2
<1>4. Generated(x) = Result(t)
  BY <1>1, <1>2, <1>3, GeneratedResult DEF NInv
<1>5. Finished(t, x)' /\ \A u \in Nodes : Finished(t, u) => Finished(t, u)'
  BY <1>1, <1>2, <1>4 DEF Finished
<1>6. Uniform(t)'
  BY <1>1, <1>2, <1>4 DEF Uniform
<1>7. CASE builds = 1
  <2>1. PICK z \in 1 .. Len(chain) + 1 : Chained(z) /\ Calls(t, z)
    BY <1>1, <1>2, <1>7 DEF Tree
  <2>2. Chained(z)' /\ z \in 1 .. Len(chain') + 1
    BY <1>1, <2>1 DEF Chained
  <2>3. Calls(t, z)' /\ (todo' = <<>> => \A u \in Nodes : Finished(t, u)')
    BY <1>1, <1>5, <2>1, Popped
  <2>4. \E v \in 1 .. Len(chain') + 1 : Chained(v)' /\ Calls(t, v)'
    BY <2>2, <2>3, Zenon
  <2>5. todo' = <<>> => \A u \in Nodes' : Finished(t, u)'
    BY <1>1, <2>3, Zenon
  <2> QED BY <1>1, <1>6, <1>7, <2>4, <2>5, Zenon DEF Tree
<1>8. CASE builds # 1
  <2>1. \A u \in Nodes' : Finished(t, u)'
    BY <1>1, <1>2, <1>5, <1>8, Zenon DEF Tree
  <2> QED BY <1>1, <1>6, <1>8, <2>1, Zenon DEF Tree
<1> QED BY <1>7, <1>8

-----------------------------------------------------------------------------
LEMMA BuildNumbers ==
  ASSUME IInv, NInv, EnterNode \/ LeaveNode
  PROVE  NInv'
<1>1. /\ UNCHANGED <<chain, term, stage, next, builds>> /\ Nodes' = Nodes
      /\ stage = "build" /\ next = 0
  <2>1. todo # <<>> /\ UNCHANGED <<chain, term, stage, next, builds>>
    BY DEF EnterNode, LeaveNode
  <2> QED BY <2>1, HeadCall DEF Nodes
<1>2. Compared' /\ (builds' = 0 <=> stage' # "build")
  BY <1>1 DEF NInv, Compared, Parsed
<1>3. \A t \in {"INT", "FLOAT"} : Numbers(t)' => Tree(t)'
  <2> TAKE t \in {"INT", "FLOAT"}
  <2>1. Numbers(t)' <=> Numbers(t)
    BY <1>1 DEF Numbers
  <2> QED BY <2>1, EnterTree, LeaveTree
<1>4. ASSUME Len(chain) = 1 PROVE node'[1].lhs < 0 /\ node'[1].rhs < 0
  <2>1. node[1].lhs < 0 /\ node[1].rhs < 0 /\ 1 \in Nodes /\ \A u \in Nodes : u = 1
    BY <1>1, <1>4, Shape DEF NInv
  <2>2. CASE EnterNode
    <3>1. PICK x \in Nodes : node' = IF MustRotate(x) THEN Rotate(x) ELSE node
      BY <2>2, HeadEntered
    <3>2. x = 1
      BY <2>1
    <3>3. node[1].rhs \in Int
      BY <1>1, <2>1, NodeShape
    <3>4. ~MustRotate(x)
      BY <2>1, <3>2, <3>3 DEF MustRotate, IsBinary
    <3> QED BY <2>1, <3>1, <3>4
  <2>3. CASE LeaveNode
    BY <2>1, <2>3, HeadLeft
  <2> QED BY <2>2, <2>3
<1> QED BY <1>1, <1>2, <1>3, <1>4 DEF NInv

LEMMA StepNumbers == IInv /\ NInv /\ [Next]_vars => NInv'
<1> SUFFICES ASSUME IInv, NInv, [Next]_vars PROVE NInv'
  OBVIOUS
<1>1. CASE ParseNode
  BY <1>1, ParseNumbers
<1>2. CASE ParseMismatch
  BY <1>2 DEF ParseMismatch, NInv, Compared, Parsed, Nodes
<1>3. CASE StartBuild
  BY <1>3, StartNumbers
<1>4. CASE EnterNode \/ LeaveNode
  BY <1>4, BuildNumbers
<1>5. CASE UNCHANGED vars
  <2>1. UNCHANGED <<chain, term, node, stage, next, todo, builds>> /\ Nodes' = Nodes
    BY <1>5 DEF vars, Nodes
  <2>2. ASSUME NEW t PROVE /\ Numbers(t)' <=> Numbers(t)
                           /\ Result(t)' = Result(t)
                           /\ \A x : Finished(t, x)' <=> Finished(t, x)
    BY <2>1 DEF Numbers, Result, Finished
  <2>3. \A x, i : OnStack(x, i)' <=> OnStack(x, i)
    BY <2>1 DEF OnStack
  <2>4. ASSUME NEW t PROVE \A i, x : Awaits(t, i, x)' <=> Awaits(t, i, x)
    BY <2>1, <2>2, <2>3 DEF Awaits
  <2>5. \A z : Chained(z)' <=> Chained(z)
    BY <2>1 DEF Chained
  <2>6. ASSUME NEW t PROVE \A z : Calls(t, z)' <=> Calls(t, z)
    BY <2>1, <2>2, <2>3, <2>4, Zenon DEF Calls
  <2>7. ASSUME NEW t PROVE Uniform(t)' <=> Uniform(t)
    BY <2>1, <2>2, Zenon DEF Uniform
  <2>8. ASSUME NEW t PROVE Tree(t)' <=> Tree(t)
    BY <2>1, <2>2, <2>5, <2>6, <2>7, Zenon DEF Tree
  <2>9. Compared' <=> Compared
    BY <2>1 DEF Compared, Parsed
  <2>10. \A x : Parsed(x)' = Parsed(x)
    BY <2>1 DEF Parsed
  <2> QED BY <2>1, <2>2, <2>8, <2>9, <2>10 DEF NInv
<1> QED BY <1>1, <1>2, <1>3, <1>4, <1>5 DEF Next

LEMMA AlwaysNumbers == Spec => []NInv
  BY InitNumbers, StepNumbers, AlwaysIInv, PTL DEF Spec

LEMMA NumbersFinished ==
  ASSUME IInv, NInv
  PROVE  NumbersTyped
<1> SUFFICES ASSUME IsBuilt, PlainNumbers, NEW x \in Nodes PROVE node[x].value = node[x].type
  BY DEF NumbersTyped
<1>1. PICK t \in {"INT", "FLOAT"} : \A k \in DOMAIN term : term[k] = t
  BY DEF PlainNumbers
<1>2. Numbers(t)
  BY <1>1 DEF PlainNumbers, Numbers
<1>3. Tree(t) /\ todo = <<>>
  BY <1>2 DEF NInv, IsBuilt
<1>4. node[x].type = Result(t) /\ Finished(t, x)
  BY <1>3 DEF Tree, Uniform
<1> QED BY <1>4 DEF Finished

(* For a chain of any length over Ints or over Floats, in which a comparison *)
(* comes last, however the rotations regroup it and however often it is      *)
(* built: the code of every node has the type that the parser gave the node. *)
THEOREM NumbersAreTyped == Spec => []NumbersTyped
  BY AlwaysIInv, AlwaysNumbers, NumbersFinished, PTL

-----------------------------------------------------------------------------
(***************************************************************************)
(* The order of the operands.                                              *)
(***************************************************************************)

(* The first and the last operand under e. *)
FirstOf(a, e) == IF e > 0 THEN a[e] ELSE -e
LastOf(b, e) == IF e > 0 THEN b[e] ELSE -e

(* Node x stands for the operands from a[x] to b[x]: its operator is the s[x]-th, its left *)
(* operand stands for the operands before that, and its right operand for the ones behind. *)
Splits(a, s, b, x) ==
  /\ 1 <= a[x] /\ a[x] <= s[x] /\ s[x] < b[x] /\ b[x] <= Len(term)
  /\ FirstOf(a, node[x].lhs) = a[x] /\ LastOf(b, node[x].lhs) = s[x]
  /\ FirstOf(a, node[x].rhs) = s[x] + 1 /\ LastOf(b, node[x].rhs) = b[x]
  /\ node[x].op = chain[s[x]]

HasOperand(x, e) == node[x].lhs = e \/ node[x].rhs = e

Laid(a, s, b) ==
  /\ a \in [Nodes -> Nat] /\ s \in [Nodes -> Nat] /\ b \in [Nodes -> Nat]
  /\ a[1] = 1 /\ b[1] = Len(term)
  /\ \A x \in Nodes : Splits(a, s, b, x)
  /\ \A x, z \in Nodes : x # z => \A e \in Nodes : ~(HasOperand(x, e) /\ HasOperand(z, e))

-----------------------------------------------------------------------------
(* Reading a tree. *)

(* Sequence q is the part of the chain from one operand to another. *)
Spells(q, from, to) ==
  /\ q \in Seq(Int) /\ Len(q) = 2 * (to - from) + 1
  /\ \A k \in from .. to : q[2 * (k - from) + 1] = -k
  /\ \A k \in from .. to - 1 : q[2 * (k - from) + 2] = 10 + chain[k]

LEMMA SpellsOne ==
  ASSUME NEW k \in Nat
  PROVE  Spells(<<-k>>, k, k)
<1>1. <<-k>> \in Seq(Int) /\ Len(<<-k>>) = 2 * (k - k) + 1
  OBVIOUS
<1>2. \A i \in k .. k : i = k /\ 2 * (i - k) + 1 = 1
  OBVIOUS
<1>3. \A i \in k .. k - 1 : FALSE
  OBVIOUS
<1> QED BY <1>1, <1>2, <1>3 DEF Spells

LEMMA TwoParts ==
  ASSUME NEW p \in Seq(Int), NEW q \in Seq(Int)
  PROVE  /\ p \o q \in Seq(Int) /\ Len(p \o q) = Len(p) + Len(q)
         /\ \A i \in 1 .. Len(p) : (p \o q)[i] = p[i]
         /\ \A i \in 1 .. Len(q) : (p \o q)[Len(p) + i] = q[i]
<1>1. Len(p) \in Nat /\ Len(q) \in Nat
  OBVIOUS
<1>2. /\ p \o q \in Seq(Int) /\ Len(p \o q) = Len(p) + Len(q)
      /\ \A i \in 1 .. Len(p) + Len(q) :
            (p \o q)[i] = IF i <= Len(p) THEN p[i] ELSE q[i - Len(p)]
  BY ConcatProperties
<1>3. ASSUME NEW i \in 1 .. Len(p) PROVE (p \o q)[i] = p[i]
  <2>1. i \in 1 .. Len(p) + Len(q) /\ i <= Len(p)
    BY <1>1
  <2> QED BY <1>2, <2>1
<1>4. ASSUME NEW i \in 1 .. Len(q) PROVE (p \o q)[Len(p) + i] = q[i]
  <2>1. Len(p) + i \in 1 .. Len(p) + Len(q) /\ ~(Len(p) + i <= Len(p)) /\ (Len(p) + i) - Len(p) = i
    BY <1>1
  <2> QED BY <1>2, <2>1
<1> QED BY <1>2, <1>3, <1>4

LEMMA SpellsJoined ==
  ASSUME NEW p, NEW q, NEW from \in Nat, NEW at \in Nat, NEW to \in Nat,
         from <= at, at < to, chain[at] \in Int,
         Spells(p, from, at), Spells(q, at + 1, to)
  PROVE  Spells(p \o <<10 + chain[at]>> \o q, from, to)
<1> DEFINE m == <<10 + chain[at]>>
           w == p \o m \o q
           n == 2 * (at - from) + 1
<1>1. /\ p \in Seq(Int) /\ Len(p) = n /\ q \in Seq(Int) /\ Len(q) = 2 * (to - (at + 1)) + 1
      /\ m \in Seq(Int) /\ Len(m) = 1 /\ m[1] = 10 + chain[at]
  <2>1. p \in Seq(Int) /\ Len(p) = n
    BY DEF Spells
  <2>2. q \in Seq(Int) /\ Len(q) = 2 * (to - (at + 1)) + 1
    BY DEF Spells
  <2>3. m \in Seq(Int) /\ Len(m) = 1 /\ m[1] = 10 + chain[at]
    OBVIOUS
  <2> QED BY <2>1, <2>2, <2>3
<1>2. n \in Nat
  OBVIOUS
<1> HIDE DEF m
<1>3. /\ p \o m \in Seq(Int) /\ Len(p \o m) = n + 1
      /\ \A i \in 1 .. n : (p \o m)[i] = p[i]
      /\ (p \o m)[n + 1] = m[1]
  <2> HIDE DEF n
  <2>1. 1 \in 1 .. Len(m)
    BY <1>1
  <2>2. /\ p \o m \in Seq(Int) /\ Len(p \o m) = Len(p) + Len(m)
        /\ \A i \in 1 .. Len(p) : (p \o m)[i] = p[i]
        /\ \A i \in 1 .. Len(m) : (p \o m)[Len(p) + i] = m[i]
    BY <1>1, TwoParts, Zenon
  <2>3. (p \o m)[n + 1] = m[1]
    BY <1>1, <2>1, <2>2
  <2> QED BY <1>1, <2>2, <2>3
<1> DEFINE l == p \o m
<1>4. /\ w \in Seq(Int) /\ Len(w) = n + 1 + Len(q)
      /\ \A i \in 1 .. n + 1 : w[i] = l[i]
      /\ \A i \in 1 .. Len(q) : w[n + 1 + i] = q[i]
  <2> HIDE DEF n, l
  <2>1. w = l \o q
    BY DEF l
  <2>2. l \in Seq(Int) /\ Len(l) = n + 1
    BY <1>3 DEF l
  <2> HIDE DEF w
  <2>3. /\ l \o q \in Seq(Int) /\ Len(l \o q) = Len(l) + Len(q)
        /\ \A i \in 1 .. Len(l) : (l \o q)[i] = l[i]
        /\ \A i \in 1 .. Len(q) : (l \o q)[Len(l) + i] = q[i]
    BY <1>1, <2>2, TwoParts, Zenon
  <2> QED BY <2>1, <2>2, <2>3
<1> HIDE DEF w, l
<1>5. Len(w) = 2 * (to - from) + 1
  BY <1>1, <1>4
<1>6. ASSUME NEW k \in from .. to
      PROVE  w[2 * (k - from) + 1] = -k
  <2>1. CASE k <= at
    <3> DEFINE i == 2 * (k - from) + 1
    <3>1. i \in 1 .. n /\ i \in 1 .. n + 1 /\ k \in from .. at
      BY <2>1
    <3>2. p[i] = -k
      BY <3>1 DEF Spells
    <3> HIDE DEF i, n
    <3>3. w[i] = l[i] /\ l[i] = p[i]
      BY <1>3, <1>4, <3>1 DEF l
    <3>4. w[i] = -k
      BY <3>2, <3>3
    <3> QED BY <3>4 DEF i
  <2>2. CASE k > at
    <3> DEFINE i == 2 * (k - (at + 1)) + 1
    <3>1. i \in 1 .. Len(q) /\ k \in at + 1 .. to
      BY <1>1, <2>2
    <3>2. q[i] = -k
      BY <3>1 DEF Spells
    <3>3. w[n + 1 + i] = q[i]
      BY <1>4, <3>1
    <3>4. n + 1 + i = 2 * (k - from) + 1
      OBVIOUS
    <3> QED BY <3>2, <3>3, <3>4
  <2> QED BY <2>1, <2>2
<1>7. ASSUME NEW k \in from .. to - 1
      PROVE  w[2 * (k - from) + 2] = 10 + chain[k]
  <2>1. CASE k < at
    <3> DEFINE i == 2 * (k - from) + 2
    <3>1. i \in 1 .. n /\ i \in 1 .. n + 1 /\ k \in from .. at - 1
      BY <2>1
    <3>2. p[i] = 10 + chain[k]
      BY <3>1 DEF Spells
    <3> HIDE DEF i, n
    <3>3. w[i] = l[i] /\ l[i] = p[i]
      BY <1>3, <1>4, <3>1 DEF l
    <3>4. w[i] = 10 + chain[k]
      BY <3>2, <3>3
    <3> QED BY <3>4 DEF i
  <2>2. CASE k = at
    <3>1. n + 1 = 2 * (k - from) + 2 /\ n + 1 \in 1 .. n + 1
      BY <2>2
    <3>2. w[n + 1] = l[n + 1] /\ l[n + 1] = m[1]
      BY <1>3, <1>4, <3>1 DEF l
    <3> QED BY <1>1, <2>2, <3>1, <3>2
  <2>3. CASE k > at
    <3> DEFINE i == 2 * (k - (at + 1)) + 2
    <3>1. i \in 1 .. Len(q) /\ k \in at + 1 .. to - 1
      BY <1>1, <2>3
    <3>2. q[i] = 10 + chain[k]
      BY <3>1 DEF Spells
    <3>3. w[n + 1 + i] = q[i]
      BY <1>4, <3>1
    <3>4. n + 1 + i = 2 * (k - from) + 2
      OBVIOUS
    <3> QED BY <3>2, <3>3, <3>4
  <2> QED BY <2>1, <2>2, <2>3
<1>8. Spells(w, from, to)
  BY <1>4, <1>5, <1>6, <1>7 DEF Spells
<1> QED BY <1>8 DEF w, m

(* Only one sequence spells the whole chain. *)
LEMMA SpellsAll ==
  ASSUME IInv, NEW q, Spells(q, 1, Len(term))
  PROVE  q = Written
<1>1. Len(chain) \in Nat /\ Len(term) = Len(chain) + 1
  BY Shape DEF IInv
<1>2. q \in Seq(Int) /\ Len(q) = 2 * Len(chain) + 1
  BY <1>1 DEF Spells
<1>3. ASSUME NEW i \in 1 .. 2 * Len(chain) + 1
      PROVE  q[i] = IF i % 2 = 1 THEN -((i + 1) \div 2) ELSE 10 + chain[i \div 2]
  <2>1. CASE i % 2 = 1
    <3>1. PICK k \in 1 .. Len(term) : i = 2 * (k - 1) + 1 /\ k = (i + 1) \div 2
      <4>1. (i + 1) \div 2 \in 1 .. Len(term) /\ i = 2 * ((i + 1) \div 2 - 1) + 1
        BY <1>1, <2>1
      <4> QED BY <4>1
    <3> QED BY <2>1, <3>1 DEF Spells
  <2>2. CASE i % 2 # 1
    <3>1. PICK k \in 1 .. Len(term) - 1 : i = 2 * (k - 1) + 2 /\ k = i \div 2
      <4>1. i \div 2 \in 1 .. Len(term) - 1 /\ i = 2 * (i \div 2 - 1) + 2
        BY <1>1, <2>2
      <4> QED BY <4>1
    <3> QED BY <2>2, <3>1 DEF Spells
  <2> QED BY <2>1, <2>2
<1>4. q = [i \in 1 .. Len(q) |-> q[i]]
  BY <1>2
<1> QED BY <1>2, <1>3, <1>4 DEF Written

(***************************************************************************)
(* InOrder is what its definition says.                                    *)
(***************************************************************************)
LEMMA LeastNumber ==
  ASSUME NEW S, S \subseteq Nat, S # {}
  PROVE  \E n \in S : \A m \in S : n <= m
<1>1. PICK n \in S : \A m \in S : ~(<<m, n>> \in OpToRel(<, Nat))
  BY NatLessThanWellFounded, WFMin
<1>2. ASSUME NEW m \in S PROVE n <= m
  <2>1. <<m, n>> \in Nat \X Nat
    OBVIOUS
  <2>2. <<m, n>> \in OpToRel(<, Nat) <=> m < n
    BY <2>1 DEF OpToRel
  <2>3. ~(m < n)
    BY <1>1, <2>2, Zenon
  <2>4. m \in Nat /\ n \in Nat
    OBVIOUS
  <2> QED BY <2>3, <2>4
<1> QED BY <1>2

(* Operator x between its operands. *)
Joined(h, x) == h[node[x].lhs] \o <<10 + node[x].op>> \o h[node[x].rhs]

Level(g, d) ==
  [e \in Int |->
     IF ~IsBinary(e) THEN <<e>>
     ELSE IF d = 0 THEN <<>>
     ELSE g[d - 1][node[e].lhs] \o <<10 + node[e].op>> \o g[d - 1][node[e].rhs]]

Levels(g, n) == g = [d \in 0 .. n |-> Level(g, d)]

LEMMA LevelsExist ==
  ASSUME NEW n \in Nat
  PROVE  \E g : Levels(g, n)
<1> DEFINE Not == {k \in Nat : ~ \E g : Levels(g, k)}
<1>1. CASE Not = {}
  BY <1>1
<1>2. CASE Not # {}
  <2>1. PICK k \in Not : \A j \in Not : k <= j
    BY <1>2, LeastNumber
  <2>2. PICK v : k > 0 => Levels(v, k - 1)
    <3>1. CASE k = 0
      BY <3>1
    <3>2. CASE k # 0
      <4>1. k - 1 \in Nat /\ k - 1 \notin Not
        BY <2>1, <3>2
      <4> QED BY <4>1
    <3> QED BY <3>1, <3>2
  <2> DEFINE g == [d \in 0 .. k |-> IF d = k THEN Level(v, k) ELSE v[d]]
  <2>3. \A d \in 0 .. k : g[d] = Level(g, d)
    <3> SUFFICES ASSUME NEW d \in 0 .. k PROVE g[d] = Level(g, d)
      OBVIOUS
    <3>1. k \in Nat /\ d \in Nat
      BY <2>1
    <3>2. d > 0 => g[d - 1] = v[d - 1]
      <4>1. d > 0 => d - 1 \in 0 .. k /\ d - 1 # k
        BY <3>1
      <4> QED BY <4>1
    <3>3. Level(g, d) = Level(v, d)
      <4>1. CASE d = 0
        BY <4>1 DEF Level
      <4>2. CASE d # 0
        <5>1. g[d - 1] = v[d - 1]
          BY <3>1, <3>2, <4>2
        <5> HIDE DEF g
        <5> QED BY <5>1 DEF Level
      <4> QED BY <4>1, <4>2
    <3>4. CASE d = k
      BY <3>3, <3>4
    <3>5. CASE d # k
      <4>1. k > 0 /\ d \in 0 .. k - 1
        BY <3>1, <3>5
      <4>2. v[d] = Level(v, d)
        BY <2>2, <4>1 DEF Levels
      <4> QED BY <3>3, <3>5, <4>2
    <3> QED BY <3>4, <3>5
  <2>4. g = [d \in 0 .. k |-> g[d]]
    OBVIOUS
  <2> HIDE DEF g
  <2>5. Levels(g, k)
    BY <2>3, <2>4 DEF Levels
  <2> QED BY <2>1, <2>5
<1> QED BY <1>1, <1>2

LEMMA InOrderLevels ==
  ASSUME IInv
  PROVE  Levels(InOrder, Len(chain))
<1>1. PICK g : Levels(g, Len(chain))
  BY LevelsExist, Shape
<1> QED BY <1>1 DEF Levels, Level, InOrder

-----------------------------------------------------------------------------
(* A tree that is laid out spells its part of the chain. *)
LEMMA LaidRange ==
  ASSUME IInv, NEW a, NEW s, NEW b, Laid(a, s, b), NEW e \in Nodes \cup Terms
  PROVE  /\ FirstOf(a, e) \in 1 .. Len(term) /\ LastOf(b, e) \in 1 .. Len(term)
         /\ FirstOf(a, e) <= LastOf(b, e)
<1>1. Len(term) \in Nat /\ Nodes = 1 .. Len(chain) /\ Len(chain) \in Nat /\ DOMAIN term = 1 .. Len(term)
  BY Shape DEF IInv
<1>2. CASE e \in Nodes
  <2>1. e > 0
    BY <1>1, <1>2
  <2>2. a[e] \in Nat /\ b[e] \in Nat /\ s[e] \in Nat /\ Splits(a, s, b, e)
    BY <1>2 DEF Laid
  <2> QED BY <1>1, <2>1, <2>2 DEF Splits, FirstOf, LastOf
<1>3. CASE e \in Terms
  <2>1. e < 0 /\ e \in Int /\ -e \in 1 .. Len(term)
    BY <1>1, <1>3, Shape
  <2> QED BY <2>1 DEF FirstOf, LastOf
<1> QED BY <1>2, <1>3

LEMMA LevelAt ==
  ASSUME NEW h, NEW k, NEW x \in Int
  PROVE  /\ ~IsBinary(x) => Level(h, k)[x] = <<x>>
         /\ IsBinary(x) /\ k # 0 =>
              Level(h, k)[x] = Joined(h[k - 1], x)
BY DEF Level, Joined

LEMMA ReadsOut ==
  ASSUME IInv, next = 0, NEW a, NEW s, NEW b, Laid(a, s, b), NEW g, Levels(g, Len(chain))
  PROVE  \A d \in 0 .. Len(chain) : \A e \in Nodes \cup Terms :
           LastOf(b, e) - FirstOf(a, e) <= d => Spells(g[d][e], FirstOf(a, e), LastOf(b, e))
<1> DEFINE Good(d) == \A e \in Nodes \cup Terms :
             LastOf(b, e) - FirstOf(a, e) <= d => Spells(g[d][e], FirstOf(a, e), LastOf(b, e))
           Bad == {d \in 0 .. Len(chain) : ~Good(d)}
<1>1. Nodes = 1 .. Len(chain) /\ Len(chain) \in Nat
  BY Shape
<1>2. CASE Bad = {}
  BY <1>2
<1>3. CASE Bad # {}
  <2>1. PICK d \in Bad : \A j \in Bad : d <= j
    <3>1. Bad \subseteq Nat
      BY <1>1
    <3> QED BY <1>3, <3>1, LeastNumber
  <2>2. d \in 0 .. Len(chain) /\ (d > 0 => d - 1 \in 0 .. Len(chain) /\ Good(d - 1))
    <3>1. d \in 0 .. Len(chain)
      OBVIOUS
    <3>2. ASSUME d > 0 PROVE d - 1 \in 0 .. Len(chain) /\ d - 1 \notin Bad
      BY <1>1, <2>1, <3>1, <3>2
    <3> QED BY <3>1, <3>2
  <2>3. PICK e \in Nodes \cup Terms :
          /\ LastOf(b, e) - FirstOf(a, e) <= d
          /\ ~Spells(g[d][e], FirstOf(a, e), LastOf(b, e))
    OBVIOUS
  <2>4. g[d] = Level(g, d)
    BY <2>2 DEF Levels
  <2>5. CASE e \in Terms
    <3>1. e < 0 /\ e \in Int /\ -e \in Nat
      BY <2>5, Shape
    <3>2. g[d][e] = <<e>> /\ FirstOf(a, e) = -e /\ LastOf(b, e) = -e
      <4>1. g[d][e] = <<e>>
        <5>1. ~IsBinary(e)
          BY <3>1 DEF IsBinary
        <5>2. e \in Int
          BY <3>1
        <5>3. Level(g, d)[e] = <<e>>
          BY <5>1, <5>2, LevelAt, Zenon
        <5> QED BY <2>4, <5>3, Zenon
      <4> QED BY <3>1, <4>1 DEF FirstOf, LastOf
    <3>3. PICK k \in Nat : k = -e /\ e = -k
      BY <3>1
    <3> QED BY <2>3, <3>2, <3>3, SpellsOne
  <2>6. CASE e \in Nodes
    <3> DEFINE l == node[e].lhs
               r == node[e].rhs
    <3>1. Splits(a, s, b, e) /\ a[e] \in Nat /\ s[e] \in Nat /\ b[e] \in Nat /\ Len(term) \in Nat
      BY <2>6 DEF Laid, IInv
    <3>2. l \in Nodes \cup Terms /\ r \in Nodes \cup Terms /\ node[e].op \in Int
      <4>1. e > 0 /\ ParsedOK(e)
        BY <2>6, <1>1 DEF IInv
      <4> QED BY <4>1, IntOperators DEF ParsedOK
    <3>3. e \in Int /\ e > 0 /\ l \in Int /\ r \in Int
      BY <1>1, <2>6, <3>2, Shape
    <3>4. FirstOf(a, e) = a[e] /\ LastOf(b, e) = b[e]
      BY <3>3 DEF FirstOf, LastOf
    <3>5. d > 0 /\ d \in Nat
      BY <2>2, <2>3, <3>1, <3>4, <1>1 DEF Splits
    <3>6. g[d][e] = g[d - 1][l] \o <<10 + node[e].op>> \o g[d - 1][r]
      <4>1. IsBinary(e) /\ d # 0
        BY <3>3, <3>5 DEF IsBinary
      <4>2. Level(g, d)[e] = g[d - 1][node[e].lhs] \o <<10 + node[e].op>> \o g[d - 1][node[e].rhs]
        <5>1. Level(g, d)[e] = Joined(g[d - 1], e)
          BY <3>3, <4>1, LevelAt, Zenon
        <5> QED BY <5>1 DEF Joined
      <4> QED BY <2>4, <4>2, Zenon
    <3> HIDE DEF l, r
    <3>7. /\ FirstOf(a, l) = a[e] /\ LastOf(b, l) = s[e]
          /\ FirstOf(a, r) = s[e] + 1 /\ LastOf(b, r) = b[e]
          /\ a[e] <= s[e] /\ s[e] < b[e] /\ node[e].op = chain[s[e]]
      BY <3>1 DEF Splits, l, r
    <3>8. LastOf(b, l) - FirstOf(a, l) <= d - 1 /\ LastOf(b, r) - FirstOf(a, r) <= d - 1
      BY <2>3, <3>1, <3>4, <3>5, <3>7
    <3>9. Spells(g[d - 1][l], a[e], s[e]) /\ Spells(g[d - 1][r], s[e] + 1, b[e])
      BY <2>2, <3>2, <3>5, <3>7, <3>8
    <3>10. Spells(g[d - 1][l] \o <<10 + chain[s[e]]>> \o g[d - 1][r], a[e], b[e])
      BY <3>1, <3>2, <3>7, <3>9, SpellsJoined
    <3> QED BY <2>3, <3>4, <3>6, <3>7, <3>10
  <2> QED BY <2>5, <2>6
<1> QED BY <1>2, <1>3

LEMMA UnderSpells ==
  ASSUME IInv, next = 0, NEW a, NEW s, NEW b, Laid(a, s, b), NEW e \in Nodes \cup Terms
  PROVE  Spells(Under(e), FirstOf(a, e), LastOf(b, e))
<1>1. Levels(InOrder, Len(chain))
  BY InOrderLevels
<1>2. LastOf(b, e) - FirstOf(a, e) <= Len(chain) /\ Len(chain) \in 0 .. Len(chain)
  <2>1. Len(chain) \in Nat /\ Len(term) = Len(chain) + 1
    BY Shape DEF IInv
  <2>2. FirstOf(a, e) \in 1 .. Len(term) /\ LastOf(b, e) \in 1 .. Len(term)
    BY LaidRange
  <2> QED BY <2>1, <2>2
<1>3. Spells(InOrder[Len(chain)][e], FirstOf(a, e), LastOf(b, e))
  BY <1>1, <1>2, ReadsOut
<1> QED BY <1>3 DEF Under

LEMMA LaidKeepsOrder ==
  ASSUME IInv, next = 0, NEW a, NEW s, NEW b, Laid(a, s, b)
  PROVE  Under(1) = Written
<1>1. 1 \in Nodes
  BY Shape
<1>2. FirstOf(a, 1) = 1 /\ LastOf(b, 1) = Len(term)
  BY DEF FirstOf, LastOf, Laid
<1>3. Spells(Under(1), 1, Len(term))
  <2>1. 1 \in Nodes \cup Terms
    BY <1>1
  <2>2. Spells(Under(1), FirstOf(a, 1), LastOf(b, 1))
    BY <2>1, UnderSpells
  <2> QED BY <1>2, <2>2
<1> QED BY <1>3, SpellsAll

-----------------------------------------------------------------------------
(* What the parser makes, and what keeps or changes the layout. *)

(* Each operator has a node of its own. *)
Each(s) ==
  /\ \A i \in Nodes : \E x \in Nodes : s[x] = i
  /\ \A x, z \in Nodes : s[x] = s[z] => x = z

(* Every right operand is the rest of the chain. *)
Combed == \A x \in Nodes : node[x] = Parsed(x)

Numbered == [x \in Nodes |-> x]
ToTheEnd == [x \in Nodes |-> Len(term)]

LEMMA ParsedLaid ==
  IInv /\ next = 0 /\ Combed => Laid(Numbered, Numbered, ToTheEnd) /\ Each(Numbered)
<1> SUFFICES ASSUME IInv, next = 0, Combed
             PROVE  Laid(Numbered, Numbered, ToTheEnd) /\ Each(Numbered)
  OBVIOUS
<1>1. Nodes = 1 .. Len(chain) /\ Len(chain) \in Nat \ {0} /\ Len(term) = Len(chain) + 1
  BY Shape DEF IInv
<1>2. \A x \in Nodes :
        /\ node[x].lhs = -x /\ node[x].op = chain[x]
        /\ node[x].rhs = IF x = Len(chain) THEN -(x + 1) ELSE x + 1
  <2> SUFFICES ASSUME NEW x \in Nodes
               PROVE  /\ node[x].lhs = -x /\ node[x].op = chain[x]
                      /\ node[x].rhs = IF x = Len(chain) THEN -(x + 1) ELSE x + 1
    OBVIOUS
  <2>1. node[x] = Parsed(x)
    BY DEF Combed
  <2>2. Parsed(x).lhs = -x /\ Parsed(x).op = chain[x]
    BY DEF Parsed
  <2>3. Parsed(x).rhs = IF x = Len(chain) THEN -(x + 1) ELSE x + 1
    BY DEF Parsed
  <2> QED BY <2>1, <2>2, <2>3
<1>3. /\ Numbered \in [Nodes -> Nat] /\ ToTheEnd \in [Nodes -> Nat]
      /\ \A x \in Nodes : Numbered[x] = x /\ ToTheEnd[x] = Len(term)
  BY <1>1 DEF Numbered, ToTheEnd
<1>4. ASSUME NEW x \in Nodes PROVE Splits(Numbered, Numbered, ToTheEnd, x)
  <2>1. x \in 1 .. Len(chain) /\ ~(-x > 0) /\ -(-x) = x
    BY <1>1
  <2>2. FirstOf(Numbered, node[x].lhs) = x /\ LastOf(ToTheEnd, node[x].lhs) = x
    BY <1>2, <2>1 DEF FirstOf, LastOf
  <2>3. FirstOf(Numbered, node[x].rhs) = x + 1 /\ LastOf(ToTheEnd, node[x].rhs) = Len(term)
    <3>1. CASE x = Len(chain)
      <4>1. node[x].rhs = -(x + 1) /\ ~(-(x + 1) > 0) /\ -(-(x + 1)) = x + 1
        BY <1>2, <2>1, <3>1
      <4> QED BY <1>1, <3>1, <4>1 DEF FirstOf, LastOf
    <3>2. CASE x # Len(chain)
      <4>1. node[x].rhs = x + 1 /\ x + 1 \in Nodes /\ x + 1 > 0
        BY <1>1, <1>2, <2>1, <3>2
      <4> QED BY <1>3, <4>1 DEF FirstOf, LastOf
    <3> QED BY <3>1, <3>2
  <2> QED BY <1>1, <1>2, <1>3, <2>1, <2>2, <2>3 DEF Splits
<1>5. ASSUME NEW x \in Nodes, NEW e \in Nodes, HasOperand(x, e)
      PROVE  e = x + 1
  BY <1>1, <1>2, <1>5 DEF HasOperand
<1>6. \A x, z \in Nodes : x # z => \A e \in Nodes : ~(HasOperand(x, e) /\ HasOperand(z, e))
  <2> SUFFICES ASSUME NEW x \in Nodes, NEW z \in Nodes, NEW e \in Nodes,
                      HasOperand(x, e), HasOperand(z, e)
               PROVE  x = z
    OBVIOUS
  <2>1. e = x + 1 /\ e = z + 1
    BY <1>5
  <2> QED BY <1>1, <2>1
<1>7. Each(Numbered)
  BY <1>3 DEF Each
<1>8. 1 \in Nodes
  BY <1>1
<1> QED BY <1>3, <1>4, <1>6, <1>7, <1>8 DEF Laid

SameShape ==
  /\ UNCHANGED <<chain, term>>
  /\ \A x \in Nodes : /\ node'[x].lhs = node[x].lhs /\ node'[x].rhs = node[x].rhs
                      /\ node'[x].op = node[x].op

LEMMA ShapeKept ==
  ASSUME SameShape, NEW a, NEW s, NEW b, Laid(a, s, b), Each(s)
  PROVE  Laid(a, s, b)' /\ Each(s)'
<1>1. Nodes' = Nodes /\ UNCHANGED <<chain, term>>
  BY DEF SameShape, Nodes
<1>2. ASSUME NEW x \in Nodes PROVE Splits(a, s, b, x)'
  <2>1. Splits(a, s, b, x)
    BY DEF Laid
  <2>2. /\ chain' = chain /\ term' = term
        /\ node'[x].lhs = node[x].lhs /\ node'[x].rhs = node[x].rhs /\ node'[x].op = node[x].op
    BY DEF SameShape
  <2> QED BY <2>1, <2>2 DEF Splits, FirstOf, LastOf
<1>3. \A x, e \in Nodes : HasOperand(x, e)' <=> HasOperand(x, e)
  BY DEF SameShape, HasOperand
<1> QED BY <1>1, <1>2, <1>3 DEF Laid, Each

(* What a rotation of x with its right operand y changes. *)
FirstAfter(a, x, y) == [w \in Nodes |-> IF w = y THEN a[x] ELSE a[w]]
SplitAfter(s, x, y) == [w \in Nodes |-> IF w = x THEN s[y] ELSE IF w = y THEN s[x] ELSE s[w]]
LastAfter(s, b, y) == [w \in Nodes |-> IF w = y THEN s[y] ELSE b[w]]

(* The facts about the two nodes. *)
LEMMA Neighbours ==
  ASSUME IInv, next = 0, NEW a, NEW s, NEW b, Laid(a, s, b),
         NEW x \in Nodes, NEW y \in Nodes, node[x].rhs = y
  PROVE  /\ a[x] \in Nat /\ s[x] \in Nat /\ b[x] \in Nat
         /\ a[y] \in Nat /\ s[y] \in Nat /\ b[y] \in Nat
         /\ a[x] <= s[x] /\ a[y] = s[x] + 1 /\ a[y] <= s[y] /\ s[y] < b[y] /\ b[y] = b[x]
         /\ x # y /\ y # 1
         /\ node[x].lhs # y /\ node[y].lhs # y /\ node[y].rhs # y
         /\ node[y].rhs # node[y].lhs
<1>1. Nodes = 1 .. Len(chain) /\ Len(chain) \in Nat
  BY Shape
<1>2. y > 0 /\ x > 0
  BY <1>1
<1>3. /\ a[x] \in Nat /\ s[x] \in Nat /\ b[x] \in Nat
      /\ a[y] \in Nat /\ s[y] \in Nat /\ b[y] \in Nat
      /\ Splits(a, s, b, x) /\ Splits(a, s, b, y) /\ a[1] = 1
  BY DEF Laid
<1>4. FirstOf(a, y) = a[y] /\ LastOf(b, y) = b[y]
  BY <1>2 DEF FirstOf, LastOf
<1>5. a[x] <= s[x] /\ a[y] = s[x] + 1 /\ a[y] <= s[y] /\ s[y] < b[y] /\ b[y] = b[x] /\ 1 <= a[x]
  BY <1>3, <1>4 DEF Splits
<1>6. LastOf(b, node[x].lhs) = s[x] /\ LastOf(b, node[y].lhs) = s[y]
      /\ FirstOf(a, node[y].rhs) = s[y] + 1
  BY <1>3 DEF Splits
<1>7. x # y /\ y # 1
  BY <1>3, <1>5
<1>8. node[x].lhs # y /\ node[y].lhs # y /\ node[y].rhs # y
  BY <1>3, <1>4, <1>5, <1>6
<1>9. node[y].rhs # node[y].lhs
  <2>1. node[y].lhs \in Nodes \cup Terms /\ y > next
    BY <1>1 DEF IInv, ParsedOK
  <2>2. FirstOf(a, node[y].lhs) <= LastOf(b, node[y].lhs)
    BY <2>1, LaidRange
  <2> QED BY <1>3, <1>6, <2>2
<1> QED BY <1>3, <1>5, <1>7, <1>8, <1>9

LEMMA RotatedLaid ==
  ASSUME IInv, next = 0, NEW a, NEW s, NEW b, Laid(a, s, b), Each(s),
         NEW x \in Nodes, NEW y \in Nodes, y = node[x].rhs, MustRotate(x),
         node' = Rotate(x), UNCHANGED <<chain, term>>
  PROVE  /\ Laid(FirstAfter(a, x, y), SplitAfter(s, x, y), LastAfter(s, b, y))'
         /\ Each(SplitAfter(s, x, y))'
<1>1. Nodes = 1 .. Len(chain) /\ Len(chain) \in Nat /\ Nodes' = Nodes
  BY Shape DEF Nodes
<1>2. /\ \A z \in Nodes : node'[z].lhs = IF z = y THEN node[x].lhs ELSE IF z = x THEN y ELSE node[z].lhs
      /\ \A z \in Nodes : node'[z].rhs = IF z = y THEN node[y].lhs ELSE IF z = x THEN node[y].rhs ELSE node[z].rhs
      /\ \A z \in Nodes : node'[z].op = IF z = y THEN node[x].op ELSE IF z = x THEN node[y].op ELSE node[z].op
  BY RotatedFields
<1>3. /\ a[x] \in Nat /\ s[x] \in Nat /\ b[x] \in Nat
      /\ a[y] \in Nat /\ s[y] \in Nat /\ b[y] \in Nat
      /\ a[x] <= s[x] /\ a[y] = s[x] + 1 /\ a[y] <= s[y] /\ s[y] < b[y] /\ b[y] = b[x]
      /\ x # y /\ y # 1
      /\ node[x].lhs # y /\ node[y].lhs # y /\ node[y].rhs # y
      /\ node[y].rhs # node[y].lhs
  BY Neighbours
<1>4. \A w \in Nodes : Splits(a, s, b, w)
  BY DEF Laid
<1>5. PICK a2, s2, b2 : a2 = FirstAfter(a, x, y) /\ s2 = SplitAfter(s, x, y) /\ b2 = LastAfter(s, b, y)
  OBVIOUS
<1>6. /\ a2 = FirstAfter(a, x, y)' /\ s2 = SplitAfter(s, x, y)' /\ b2 = LastAfter(s, b, y)'
      /\ a2 \in [Nodes -> Nat] /\ s2 \in [Nodes -> Nat] /\ b2 \in [Nodes -> Nat]
      /\ \A w \in Nodes :
           /\ a2[w] = IF w = y THEN a[x] ELSE a[w]
           /\ s2[w] = IF w = x THEN s[y] ELSE IF w = y THEN s[x] ELSE s[w]
           /\ b2[w] = IF w = y THEN s[y] ELSE b[w]
  <2>1. a \in [Nodes -> Nat] /\ s \in [Nodes -> Nat] /\ b \in [Nodes -> Nat]
    BY DEF Laid
  <2> QED BY <1>1, <1>5, <2>1 DEF FirstAfter, SplitAfter, LastAfter
<1>7. \A e \in Nodes \cup Terms : e # y => FirstOf(a2, e) = FirstOf(a, e) /\ LastOf(b2, e) = LastOf(b, e)
  <2> SUFFICES ASSUME NEW e \in Nodes \cup Terms, e # y
               PROVE  FirstOf(a2, e) = FirstOf(a, e) /\ LastOf(b2, e) = LastOf(b, e)
    OBVIOUS
  <2>1. e > 0 => e \in Nodes
    BY Shape
  <2> QED BY <1>6, <2>1 DEF FirstOf, LastOf
<1>8. \A w \in Nodes : node[w].lhs \in Nodes \cup Terms /\ node[w].rhs \in Nodes \cup Terms
  BY <1>1 DEF IInv, ParsedOK
<1>9. FirstOf(a2, y) = a[x] /\ LastOf(b2, y) = s[y]
  BY <1>1, <1>6 DEF FirstOf, LastOf
<1>10. Splits(a2, s2, b2, x)'
  <2>1. node'[x].lhs = y /\ node'[x].rhs = node[y].rhs /\ node'[x].op = node[y].op
    BY <1>2, <1>3
  <2>2. a2[x] = a[x] /\ s2[x] = s[y] /\ b2[x] = b[x]
    BY <1>3, <1>6
  <2>3. FirstOf(a2, node[y].rhs) = s[y] + 1 /\ LastOf(b2, node[y].rhs) = b[y] /\ node[y].op = chain[s[y]]
    BY <1>3, <1>4, <1>7, <1>8 DEF Splits
  <2>4. 1 <= a[x] /\ b[x] <= Len(term)
    BY <1>4 DEF Splits
  <2> QED BY <1>3, <1>9, <2>1, <2>2, <2>3, <2>4 DEF Splits, FirstOf, LastOf
<1>11. Splits(a2, s2, b2, y)'
  <2>1. node'[y].lhs = node[x].lhs /\ node'[y].rhs = node[y].lhs /\ node'[y].op = node[x].op
    BY <1>2
  <2>2. a2[y] = a[x] /\ s2[y] = s[x] /\ b2[y] = s[y]
    BY <1>3, <1>6
  <2>3. /\ FirstOf(a2, node[x].lhs) = a[x] /\ LastOf(b2, node[x].lhs) = s[x] /\ node[x].op = chain[s[x]]
        /\ FirstOf(a2, node[y].lhs) = a[y] /\ LastOf(b2, node[y].lhs) = s[y]
    BY <1>3, <1>4, <1>7, <1>8 DEF Splits
  <2>4. 1 <= a[x] /\ b[y] <= Len(term) /\ Len(term) \in Nat
    BY <1>4 DEF Splits, IInv
  <2>5. s[y] <= Len(term) /\ s[x] < s[y]
    BY <1>3, <2>4
  <2> QED BY <1>3, <2>1, <2>2, <2>3, <2>4, <2>5 DEF Splits, FirstOf, LastOf
<1>12. \A w, v \in Nodes : w # v => \A e \in Nodes : ~(HasOperand(w, e) /\ HasOperand(v, e))
  BY DEF Laid
<1>13. ASSUME NEW w \in Nodes, w # x, w # y
       PROVE  Splits(a2, s2, b2, w)'
  <2>1. node'[w].lhs = node[w].lhs /\ node'[w].rhs = node[w].rhs /\ node'[w].op = node[w].op
    BY <1>2, <1>13
  <2>2. a2[w] = a[w] /\ s2[w] = s[w] /\ b2[w] = b[w]
    BY <1>6, <1>13
  <2>3. node[w].lhs # y /\ node[w].rhs # y
    BY <1>12, <1>13 DEF HasOperand
  <2>4. /\ FirstOf(a2, node[w].lhs) = FirstOf(a, node[w].lhs)
        /\ LastOf(b2, node[w].lhs) = LastOf(b, node[w].lhs)
        /\ FirstOf(a2, node[w].rhs) = FirstOf(a, node[w].rhs)
        /\ LastOf(b2, node[w].rhs) = LastOf(b, node[w].rhs)
    BY <1>7, <1>8, <2>3
  <2> QED BY <1>4, <2>1, <2>2, <2>4 DEF Splits, FirstOf, LastOf
<1>14. \A w, v \in Nodes : w # v => \A e \in Nodes : ~(HasOperand(w, e)' /\ HasOperand(v, e)')
  <2>1. \A e : HasOperand(x, e)' <=> e = y \/ e = node[y].rhs
    BY <1>2, <1>3 DEF HasOperand
  <2>2. \A e : HasOperand(y, e)' <=> e = node[x].lhs \/ e = node[y].lhs
    BY <1>2, <1>3 DEF HasOperand
  <2>3. \A w \in Nodes : w # x /\ w # y => \A e : HasOperand(w, e)' <=> HasOperand(w, e)
    BY <1>2 DEF HasOperand
  <2>4. HasOperand(x, y) /\ HasOperand(x, node[x].lhs) /\ HasOperand(y, node[y].lhs) /\ HasOperand(y, node[y].rhs)
    BY DEF HasOperand
  <2>5. \A e \in Nodes : ~(HasOperand(x, e)' /\ HasOperand(y, e)')
    BY <1>3, <1>12, <2>1, <2>2, <2>4
  <2>6. \A w \in Nodes : w # x /\ w # y => \A e \in Nodes : ~(HasOperand(w, e)' /\ HasOperand(x, e)')
    BY <1>12, <2>1, <2>3, <2>4
  <2>7. \A w \in Nodes : w # x /\ w # y => \A e \in Nodes : ~(HasOperand(w, e)' /\ HasOperand(y, e)')
    BY <1>12, <2>2, <2>3, <2>4
  <2>8. \A w, v \in Nodes : w # x /\ w # y /\ v # x /\ v # y /\ w # v =>
          \A e \in Nodes : ~(HasOperand(w, e)' /\ HasOperand(v, e)')
    BY <1>12, <2>3
  <2> QED BY <2>5, <2>6, <2>7, <2>8, Zenon
<1>15. Each(s2)'
  <2>1. \A i \in Nodes : \E w \in Nodes : s2[w] = i
    <3> SUFFICES ASSUME NEW i \in Nodes PROVE \E w \in Nodes : s2[w] = i
      OBVIOUS
    <3>1. PICK w \in Nodes : s[w] = i
      BY DEF Each
    <3>2. s2[x] = s[y] /\ s2[y] = s[x] /\ (w # x /\ w # y => s2[w] = s[w])
      BY <1>3, <1>6
    <3> QED BY <3>1, <3>2, Zenon
  <2>2. \A w, v \in Nodes : s2[w] = s2[v] => w = v
    <3>1. \A w, v \in Nodes : s[w] = s[v] => w = v
      BY DEF Each
    <3>2. s2[x] = s[y] /\ s2[y] = s[x] /\ \A w \in Nodes : w # x /\ w # y => s2[w] = s[w]
      BY <1>3, <1>6
    <3> QED BY <3>1, <3>2
  <2> QED BY <1>1, <2>1, <2>2 DEF Each
<1>16. a2[1] = 1 /\ b2[1] = Len(term)
  <2>1. 1 \in Nodes /\ a[1] = 1 /\ b[1] = Len(term)
    BY Shape DEF Laid
  <2> QED BY <1>3, <1>6, <2>1
<1>17. \A w \in Nodes : Splits(a2, s2, b2, w)'
  BY <1>10, <1>11, <1>13, Zenon
<1>18. Laid(a2, s2, b2)'
  <2>1. Nodes' = Nodes /\ term' = term
    BY <1>1
  <2>2. a2 \in [Nodes' -> Nat] /\ s2 \in [Nodes' -> Nat] /\ b2 \in [Nodes' -> Nat]
    BY <1>6, <2>1
  <2>3. \A w \in Nodes' : Splits(a2, s2, b2, w)'
    BY <1>17, <2>1, Zenon
  <2>4. \A w, v \in Nodes' : w # v => \A e \in Nodes' : ~(HasOperand(w, e)' /\ HasOperand(v, e)')
    BY <1>14, <2>1, Zenon
  <2>5. a2[1] = 1 /\ b2[1] = Len(term')
    BY <1>16, <2>1, Zenon
  <2> QED BY <2>2, <2>3, <2>4, <2>5, Zenon DEF Laid
<1> QED BY <1>6, <1>15, <1>18

-----------------------------------------------------------------------------
(* The first build: from z on the nodes are as they were parsed, and what stands before *)
(* operator z is grouped.                                                                *)

Untouched(a, s, b, z) ==
  \A x \in Nodes : x >= z =>
    /\ node[x].lhs = -x /\ node[x].rhs = (IF x = Len(chain) THEN -(x + 1) ELSE x + 1)
    /\ a[x] = x /\ s[x] = x /\ b[x] = Len(term)

Leafy(x) == node[x].lhs < 0 /\ node[x].rhs < 0

Enters(i, x) == todo[i].at = "enter" /\ todo[i].of = x

(* Node z is to be entered, once; the other nodes that are have nothing to regroup. *)
Waiting(z) ==
  /\ z <= Len(chain) => \E i \in 1 .. Len(todo) : Enters(i, z)
  /\ \A i, j \in 1 .. Len(todo) : Enters(i, z) /\ Enters(j, z) => i = j
  /\ \A i \in 1 .. Len(todo) : \A x \in Nodes : Enters(i, x) => x <= z /\ (x < z => Leafy(x))

(* Operator i and the one behind it are grouped as they should be. *)
Settled(a, s, b, i) ==
  IF chain[i] <= chain[i + 1] THEN \A x \in Nodes : s[x] = i => b[x] >= i + 2
  ELSE \/ i > 1 /\ chain[i - 1] > chain[i]
       \/ \A x \in Nodes : s[x] = i + 1 => a[x] <= i

Following(a, s, b, z) ==
  /\ Untouched(a, s, b, z) /\ Waiting(z)
  /\ \A i \in 1 .. Len(chain) - 1 : i < z => Settled(a, s, b, i)

(* The head is replaced by p, and the root of the chain is now w. *)
LEMMA WaitingPushed ==
  ASSUME IInv, NEW z \in 1 .. Len(chain) + 1, Waiting(z), todo # <<>>, Enters(1, z),
         UNCHANGED <<chain, term>>, NEW w \in z + 1 .. Len(chain) + 1,
         NEW p \in Seq(Call), NEW k \in Nat \ {0}, k = Len(p), GoesOn(p),
         w <= Len(chain) => \E i \in 1 .. k : p[i] = EnterCall(w),
         \A i, j \in 1 .. k : p[i] = EnterCall(w) /\ p[j] = EnterCall(w) => i = j,
         \A i \in 1 .. k : \A x \in Nodes :
           p[i] = EnterCall(x) => x <= w /\ (x < w => Leafy(x)'),
         \A x \in Nodes : x < z => (Leafy(x)' <=> Leafy(x))
  PROVE  Waiting(w)'
<1> DEFINE m == Len(todo)
           l == Len(todo')
<1>1. /\ l = k + m - 1 /\ l \in Nat
      /\ \A i \in 1 .. k : i \in 1 .. l /\ todo'[i] = p[i]
      /\ \A i \in 2 .. m : k + i - 1 \in k + 1 .. l /\ todo'[k + i - 1] = todo[i]
      /\ \A j \in k + 1 .. l : \E i \in 2 .. m : j = k + i - 1
  BY Replaced
<1>2. m \in Nat \ {0} /\ 1 \in 1 .. m /\ \A i \in 1 .. m : todo[i] \in Call
  BY Stack
<1>3. Nodes' = Nodes /\ Nodes = 1 .. Len(chain) /\ Len(chain) \in Nat
  BY Shape DEF Nodes
<1> HIDE DEF l, m
<1>4. \A i \in 1 .. k : \A x \in Nodes : Enters(i, x)' <=> p[i] = EnterCall(x)
  <2> SUFFICES ASSUME NEW i \in 1 .. k, NEW x \in Nodes
               PROVE  Enters(i, x)' <=> p[i] = EnterCall(x)
    OBVIOUS
  <2>1. todo'[i] = p[i] /\ p[i] \in Call
    BY <1>1
  <2>2. p[i] = [of |-> p[i].of, at |-> p[i].at]
    BY <2>1 DEF Call
  <2> QED BY <2>1, <2>2 DEF Enters, EnterCall
<1>5. ASSUME NEW j \in 1 .. l, j \notin 1 .. k
      PROVE  \E i \in 2 .. m : j = k + i - 1 /\ todo'[j] = todo[i]
  <2>1. j \in k + 1 .. l
    BY <1>1, <1>5
  <2>2. PICK i \in 2 .. m : j = k + i - 1
    BY <1>1, <2>1, Zenon
  <2>3. todo'[k + i - 1] = todo[i]
    BY <1>1, Zenon
  <2> QED BY <2>2, <2>3
<1>6. ASSUME NEW j \in 1 .. l, j \notin 1 .. k, NEW x \in Nodes, Enters(j, x)'
      PROVE  x < z /\ Leafy(x)
  <2>1. PICK i \in 2 .. m : todo'[j] = todo[i]
    BY <1>5, <1>6
  <2>2. i \in 1 .. m /\ i # 1 /\ Enters(i, x)
    BY <1>2, <1>6, <2>1 DEF Enters
  <2>3. x # z
    BY <1>2, <2>2 DEF Waiting, m
  <2>4. x <= z /\ (x < z => Leafy(x))
    BY <2>2 DEF Waiting, m
  <2> QED BY <1>3, <2>3, <2>4
<1>7. w <= Len(chain) => \E i \in 1 .. l : Enters(i, w)'
  <2> SUFFICES ASSUME w <= Len(chain) PROVE \E i \in 1 .. l : Enters(i, w)'
    OBVIOUS
  <2>1. PICK i \in 1 .. k : p[i] = EnterCall(w)
    OBVIOUS
  <2>2. w \in Nodes
    BY <1>3
  <2> QED BY <1>1, <1>4, <2>1, <2>2
<1>8. \A i, j \in 1 .. l : Enters(i, w)' /\ Enters(j, w)' => i = j
  <2> SUFFICES ASSUME NEW i \in 1 .. l, NEW j \in 1 .. l, Enters(i, w)', Enters(j, w)' PROVE i = j
    OBVIOUS
  <2>0. w \in Nodes
    <3>1. todo' \in Seq(Call)
      <4>1. Tail(todo) \in Seq(Call)
        BY Stack
      <4> QED BY <4>1 DEF GoesOn
    <3>2. todo'[i] \in Call
      BY <3>1 DEF l
    <3> QED BY <3>2 DEF Enters, Call
  <2>1. ~(w < z)
    BY <1>3
  <2>2. i \in 1 .. k /\ j \in 1 .. k
    BY <1>6, <2>0, <2>1
  <2> QED BY <1>4, <2>0, <2>2
<1>9. ASSUME NEW i \in 1 .. l, NEW x \in Nodes, Enters(i, x)'
      PROVE  x <= w /\ (x < w => Leafy(x)')
  <2>1. CASE i \in 1 .. k
    BY <1>4, <1>9, <2>1
  <2>2. CASE i \notin 1 .. k
    <3>1. x < z /\ Leafy(x)
      BY <1>6, <1>9, <2>2
    <3>2. x <= w
      BY <1>3, <3>1
    <3> QED BY <3>1, <3>2
  <2> QED BY <2>1, <2>2
<1> QED BY <1>3, <1>7, <1>8, <1>9 DEF Waiting, l

(* The head, which does not enter z, is replaced by a call that leaves a node. *)
LEMMA WaitingTurned ==
  ASSUME IInv, NEW z \in 1 .. Len(chain) + 1, Waiting(z), todo # <<>>, ~Enters(1, z),
         UNCHANGED <<chain, term>>, NEW v \in Nodes, NEW p, OneCall(p, v), GoesOn(p),
         \A x \in Nodes : Leafy(x)' <=> Leafy(x)
  PROVE  Waiting(z)'
<1> DEFINE m == Len(todo)
           l == Len(todo')
<1>0. p \in Seq(Call) /\ 1 = Len(p) /\ 1 \in Nat \ {0} /\ p[1] = LeaveCall(v)
  BY DEF OneCall
<1>1. /\ l = 1 + m - 1 /\ l \in Nat
      /\ \A i \in 1 .. 1 : i \in 1 .. l /\ todo'[i] = p[i]
      /\ \A i \in 2 .. m : 1 + i - 1 \in 1 + 1 .. l /\ todo'[1 + i - 1] = todo[i]
  BY <1>0, Replaced
<1>2. m \in Nat \ {0} /\ 1 \in 1 .. m
  BY Stack
<1>3. Nodes' = Nodes /\ Nodes = 1 .. Len(chain) /\ Len(chain) \in Nat
  BY Shape DEF Nodes
<1> HIDE DEF l, m
<1>4. l = m /\ \A i \in 2 .. m : todo'[i] = todo[i]
  BY <1>1, <1>2
<1>5. \A x : ~Enters(1, x)'
  <2>1. todo'[1] = LeaveCall(v)
    BY <1>0, <1>1
  <2> QED BY <2>1 DEF Enters, LeaveCall
<1>6. \A i \in 1 .. m : i # 1 => i \in 2 .. m
  BY <1>2
<1>7. \A i \in 1 .. m : i # 1 => \A x : Enters(i, x)' <=> Enters(i, x)
  BY <1>4, <1>6 DEF Enters
<1>8. /\ z <= Len(chain) => \E i \in 1 .. m : Enters(i, z)
      /\ \A i, j \in 1 .. m : Enters(i, z) /\ Enters(j, z) => i = j
      /\ \A i \in 1 .. m : \A x \in Nodes : Enters(i, x) => x <= z /\ (x < z => Leafy(x))
  BY DEF Waiting, m
<1>9. /\ z <= Len(chain) => \E i \in 1 .. m : Enters(i, z)'
      /\ \A i, j \in 1 .. m : Enters(i, z)' /\ Enters(j, z)' => i = j
      /\ \A i \in 1 .. m : \A x \in Nodes : Enters(i, x)' => x <= z /\ (x < z => Leafy(x)')
  BY <1>5, <1>7, <1>8, Zenon
<1>10. Len(todo') = m /\ chain' = chain
  BY <1>4 DEF l
<1> QED BY <1>3, <1>9, <1>10 DEF Waiting

LEMMA WaitingPopped ==
  ASSUME IInv, NEW z \in 1 .. Len(chain) + 1, Waiting(z), todo # <<>>, ~Enters(1, z),
         UNCHANGED <<chain, term>>, Pops,
         \A x \in Nodes : Leafy(x)' <=> Leafy(x)
  PROVE  Waiting(z)'
<1> DEFINE m == Len(todo)
<1>1. /\ m \in Nat \ {0} /\ Len(todo') = m - 1
      /\ \A i \in 1 .. m - 1 : todo'[i] = todo[i + 1]
  BY Stack DEF Pops
<1>2. Nodes' = Nodes /\ Nodes = 1 .. Len(chain) /\ Len(chain) \in Nat
  BY Shape DEF Nodes
<1> HIDE DEF m
<1>3. ASSUME NEW i \in 1 .. m - 1, NEW x PROVE i + 1 \in 1 .. m /\ (Enters(i, x)' <=> Enters(i + 1, x))
  <2>1. todo'[i] = todo[i + 1]
    BY <1>1
  <2>2. i + 1 \in 1 .. m
    BY <1>1
  <2> QED BY <2>1, <2>2 DEF Enters
<1>4. /\ z <= Len(chain) => \E i \in 1 .. m : Enters(i, z)
      /\ \A i, j \in 1 .. m : Enters(i, z) /\ Enters(j, z) => i = j
      /\ \A i \in 1 .. m : \A x \in Nodes : Enters(i, x) => x <= z /\ (x < z => Leafy(x))
  BY DEF Waiting, m
<1>5. z <= Len(chain) => \E i \in 1 .. m - 1 : Enters(i, z)'
  <2> SUFFICES ASSUME z <= Len(chain) PROVE \E i \in 1 .. m - 1 : Enters(i, z)'
    OBVIOUS
  <2>1. PICK j \in 1 .. m : Enters(j, z)
    BY <1>4
  <2>2. PICK i \in 1 .. m - 1 : j = i + 1
    <3>1. j # 1
      BY <2>1
    <3>2. j - 1 \in 1 .. m - 1 /\ j = (j - 1) + 1
      BY <1>1, <3>1
    <3> QED BY <3>2
  <2> QED BY <1>3, <2>1, <2>2
<1>6. \A i, j \in 1 .. m - 1 : Enters(i, z)' /\ Enters(j, z)' => i = j
  <2> SUFFICES ASSUME NEW i \in 1 .. m - 1, NEW j \in 1 .. m - 1, Enters(i, z)', Enters(j, z)' PROVE i = j
    OBVIOUS
  <2>1. i + 1 = j + 1
    BY <1>3, <1>4
  <2> QED BY <2>1
<1>7. ASSUME NEW i \in 1 .. m - 1, NEW x \in Nodes, Enters(i, x)'
      PROVE  x <= z /\ (x < z => Leafy(x)')
  <2>1. i + 1 \in 1 .. m /\ Enters(i + 1, x)
    BY <1>3, <1>7
  <2> QED BY <1>4, <2>1
<1> QED BY <1>1, <1>2, <1>5, <1>6, <1>7 DEF Waiting

-----------------------------------------------------------------------------
(* The steps of a build. *)

LEMMA KeptSettled ==
  ASSUME IInv, SameShape, NEW a, NEW s, NEW b, NEW z \in Nat
  PROVE  /\ Untouched(a, s, b, z) => Untouched(a, s, b, z)'
         /\ \A i : Settled(a, s, b, i)' <=> Settled(a, s, b, i)
         /\ \A x \in Nodes : Leafy(x)' <=> Leafy(x)
<1>1. Nodes' = Nodes /\ UNCHANGED <<chain, term>>
  BY DEF SameShape, Nodes
<1>2. Untouched(a, s, b, z) => Untouched(a, s, b, z)'
  BY <1>1 DEF Untouched, SameShape
<1>3. \A i : Settled(a, s, b, i)' <=> Settled(a, s, b, i)
  BY <1>1 DEF Settled
<1>4. \A x \in Nodes : Leafy(x)' <=> Leafy(x)
  BY DEF Leafy, SameShape
<1> QED BY <1>2, <1>3, <1>4

(* A node is entered that has been taken from the chain before. *)
LEMMA EnterTaken ==
  ASSUME IInv, EnterNode, NEW a, NEW s, NEW b, NEW z \in 1 .. Len(chain) + 1,
         Following(a, s, b, z), ~Enters(1, z)
  PROVE  SameShape /\ Following(a, s, b, z)'
<1>1. PICK x \in Nodes :
        /\ todo # <<>> /\ todo[1].of = x /\ todo[1].at = "enter" /\ 1 \in 1 .. Len(todo)
        /\ next = 0 /\ UNCHANGED <<chain, term>> /\ Nodes' = Nodes
        /\ node' = IF MustRotate(x) THEN Rotate(x) ELSE node
        /\ GoesOn(Enter(node'[x].lhs) \o Enter(node'[x].rhs) \o Leave(x))
  BY HeadEntered
<1>2. Waiting(z) /\ Untouched(a, s, b, z) /\ \A i \in 1 .. Len(chain) - 1 : i < z => Settled(a, s, b, i)
  BY DEF Following
<1>3. Nodes = 1 .. Len(chain) /\ Len(chain) \in Nat
  BY Shape
<1>4. Leafy(x)
  <2>1. Enters(1, x) /\ x # z
    BY <1>1 DEF Enters
  <2>2. x <= z /\ (x < z => Leafy(x))
    BY <1>1, <1>2, <2>1 DEF Waiting
  <2> QED BY <1>3, <2>1, <2>2
<1>5. node[x].lhs \in Int /\ node[x].rhs \in Int
  <2>1. node[x] \in NodeRecord
    BY DEF IInv
  <2> QED BY <2>1 DEF NodeRecord
<1>6. ~MustRotate(x)
  BY <1>4, <1>5 DEF MustRotate, IsBinary, Leafy
<1>7. node' = node
  BY <1>1, <1>6
<1>8. SameShape
  BY <1>1, <1>7 DEF SameShape
<1> DEFINE p == Enter(node[x].lhs) \o Enter(node[x].rhs) \o Leave(x)
<1>9. OneCall(p, x)
  <2>1. node[x].lhs < 0 /\ node[x].rhs < 0 /\ ~(node[x].lhs > 0) /\ ~(node[x].rhs > 0)
    BY <1>4, <1>5 DEF Leafy
  <2> QED BY <1>5, <2>1, CallsMade
<1>10. GoesOn(p)
  BY <1>1, <1>7
<1> HIDE DEF p
<1>11. /\ Untouched(a, s, b, z)'
       /\ \A i : Settled(a, s, b, i)' <=> Settled(a, s, b, i)
       /\ \A y \in Nodes : Leafy(y)' <=> Leafy(y)
  <2>1. z \in Nat
    OBVIOUS
  <2> QED BY <1>2, <1>8, <2>1, KeptSettled
<1>12. Waiting(z)'
  BY <1>1, <1>2, <1>9, <1>10, <1>11, WaitingTurned
<1>13. chain' = chain
  BY <1>1
<1> QED BY <1>2, <1>8, <1>11, <1>12, <1>13, Zenon DEF Following

(* The root of the chain is entered and ranks as it should. *)
LEMMA EnterPlain ==
  ASSUME IInv, EnterNode, NEW a, NEW s, NEW b, Laid(a, s, b), Each(s),
         NEW z \in Nodes, Following(a, s, b, z), Enters(1, z), ~MustRotate(z)
  PROVE  SameShape /\ Following(a, s, b, z + 1)'
<1>1. /\ todo # <<>> /\ next = 0 /\ UNCHANGED <<chain, term>> /\ Nodes' = Nodes
      /\ node' = node
      /\ GoesOn(Enter(node[z].lhs) \o Enter(node[z].rhs) \o Leave(z))
  <2>1. PICK x \in Nodes :
          /\ todo # <<>> /\ todo[1].of = x /\ todo[1].at = "enter" /\ 1 \in 1 .. Len(todo)
          /\ next = 0 /\ UNCHANGED <<chain, term>> /\ Nodes' = Nodes
          /\ node' = IF MustRotate(x) THEN Rotate(x) ELSE node
          /\ GoesOn(Enter(node'[x].lhs) \o Enter(node'[x].rhs) \o Leave(x))
    BY HeadEntered
  <2>2. x = z
    BY <2>1 DEF Enters
  <2> QED BY <2>1, <2>2
<1>2. Waiting(z) /\ Untouched(a, s, b, z) /\ \A i \in 1 .. Len(chain) - 1 : i < z => Settled(a, s, b, i)
  BY DEF Following
<1>3. Nodes = 1 .. Len(chain) /\ Len(chain) \in Nat /\ Len(term) = Len(chain) + 1
  BY Shape DEF IInv
<1>4. /\ node[z].lhs = -z /\ node[z].rhs = (IF z = Len(chain) THEN -(z + 1) ELSE z + 1)
      /\ a[z] = z /\ s[z] = z /\ b[z] = Len(term)
  BY <1>3, <1>2 DEF Untouched
<1>5. SameShape
  BY <1>1 DEF SameShape
<1>6. /\ Untouched(a, s, b, z)'
      /\ \A i : Settled(a, s, b, i)' <=> Settled(a, s, b, i)
      /\ \A y \in Nodes : Leafy(y)' <=> Leafy(y)
  <2>1. z \in Nat
    BY <1>3
  <2> QED BY <1>2, <1>5, <2>1, KeptSettled
<1>7. Untouched(a, s, b, z + 1)'
  <2>1. \A x \in Nodes : x >= z + 1 => x >= z
    BY <1>3
  <2> QED BY <1>1, <1>2, <2>1 DEF Untouched
<1> DEFINE p == Enter(node[z].lhs) \o Enter(node[z].rhs) \o Leave(z)
<1>8. IF z = Len(chain) THEN OneCall(p, z) ELSE TwoCalls(p, z + 1, z)
  <2>1. -z \in Int /\ -z < 0 /\ ~(-z > 0)
    BY <1>3
  <2>2. CASE z = Len(chain)
    <3>1. node[z].rhs = -(z + 1) /\ -(z + 1) \in Int /\ -(z + 1) < 0 /\ ~(-(z + 1) > 0)
      BY <1>3, <1>4, <2>2
    <3> QED BY <1>4, <2>1, <2>2, <3>1, CallsMade
  <2>3. CASE z # Len(chain)
    <3>1. node[z].rhs = z + 1 /\ z + 1 \in Int /\ z + 1 > 0 /\ z + 1 \in Nodes
      BY <1>3, <1>4, <2>3
    <3> QED BY <1>4, <2>1, <2>3, <3>1, CallsMade
  <2> QED BY <2>2, <2>3
<1>9. GoesOn(p)
  BY <1>1
<1> HIDE DEF p
<1>10. Waiting(z + 1)'
  <2>1. PICK w, k : w = z + 1 /\ k = Len(p)
    OBVIOUS
  <2>2. /\ z \in 1 .. Len(chain) + 1 /\ w \in z + 1 .. Len(chain) + 1 /\ p \in Seq(Call) /\ k \in Nat \ {0}
        /\ UNCHANGED <<chain, term>>
    BY <1>1, <1>3, <1>8, <2>1 DEF OneCall, TwoCalls
  <2>3. /\ w <= Len(chain) => \E i \in 1 .. k : p[i] = EnterCall(w)
        /\ \A i, j \in 1 .. k : p[i] = EnterCall(w) /\ p[j] = EnterCall(w) => i = j
        /\ \A i \in 1 .. k : \A x \in Nodes : p[i] = EnterCall(x) => x = w
    <3>1. \A x, y : LeaveCall(x) # EnterCall(y) /\ (EnterCall(x) = EnterCall(y) => x = y)
      BY DEF LeaveCall, EnterCall
    <3>2. CASE z = Len(chain)
      <4>1. k = 1 /\ p[1] = LeaveCall(z) /\ ~(w <= Len(chain))
        BY <1>3, <1>8, <2>1, <3>2 DEF OneCall
      <4> QED BY <3>1, <4>1
    <3>3. CASE z # Len(chain)
      <4>1. k = 2 /\ p[1] = EnterCall(w) /\ p[2] = LeaveCall(z)
        BY <1>8, <2>1, <3>3 DEF TwoCalls
      <4> QED BY <3>1, <4>1
    <3> QED BY <3>2, <3>3
  <2>4. \A i \in 1 .. k : \A x \in Nodes : p[i] = EnterCall(x) => x <= w /\ (x < w => Leafy(x)')
    <3>1. w \in Nat
      BY <1>3, <2>1
    <3> QED BY <2>3, <3>1
  <2>5. \A x \in Nodes : x < z => (Leafy(x)' <=> Leafy(x))
    BY <1>6
  <2>6. Waiting(w)'
    BY <1>1, <1>2, <1>9, <2>1, <2>2, <2>3, <2>4, <2>5, WaitingPushed
  <2> QED BY <2>1, <2>6
<1>11. ASSUME NEW i \in 1 .. Len(chain) - 1, i < z + 1 PROVE Settled(a, s, b, i)
  <2>1. CASE i < z
    BY <1>2, <2>1
  <2>2. CASE i = z
    <3>1. z # Len(chain) /\ node[z].rhs = z + 1 /\ z + 1 \in Nodes /\ z + 1 > 0
      BY <1>3, <1>4, <2>2
    <3>2. node[z].op = chain[z] /\ node[z + 1].op = chain[z + 1]
      <4>1. s[z + 1] = z + 1
        BY <1>2, <1>3, <3>1 DEF Untouched
      <4> QED BY <1>4, <3>1, <4>1 DEF Laid, Splits
    <3>3. chain[z] \in Int /\ chain[z + 1] \in Int
      <4>1. chain[z] \in Operators /\ chain[z + 1] \in Operators
        BY <1>3, <3>1 DEF IInv
      <4> QED BY <4>1, IntOperators
    <3>4. chain[z] <= chain[z + 1]
      BY <3>1, <3>2, <3>3 DEF MustRotate, IsBinary
    <3>5. \A x \in Nodes : s[x] = z => x = z
      BY <1>4 DEF Each
    <3>6. b[z] >= z + 2
      BY <1>3, <1>4, <2>2
    <3> QED BY <2>2, <3>4, <3>5, <3>6 DEF Settled
  <2> QED BY <1>3, <1>11, <2>1, <2>2
<1>12. chain' = chain
  BY <1>1
<1> QED BY <1>5, <1>6, <1>7, <1>10, <1>11, <1>12, Zenon DEF Following

(* The root of the chain is entered and changes places with its right operand. *)
LEMMA EnterRotates ==
  ASSUME IInv, EnterNode, NEW a, NEW s, NEW b, Laid(a, s, b), Each(s),
         NEW z \in Nodes, Following(a, s, b, z), Enters(1, z), MustRotate(z),
         NEW y, y = node[z].rhs
  PROVE  /\ z + 2 \in 1 .. Len(chain) + 1
         /\ Following(FirstAfter(a, z, y), SplitAfter(s, z, y), LastAfter(s, b, y), z + 2)'
<1>1. /\ todo # <<>> /\ next = 0 /\ UNCHANGED <<chain, term>> /\ Nodes' = Nodes
      /\ node' = Rotate(z)
      /\ GoesOn(Enter(node'[z].lhs) \o Enter(node'[z].rhs) \o Leave(z))
  <2>1. PICK x \in Nodes :
          /\ todo # <<>> /\ todo[1].of = x /\ todo[1].at = "enter" /\ 1 \in 1 .. Len(todo)
          /\ next = 0 /\ UNCHANGED <<chain, term>> /\ Nodes' = Nodes
          /\ node' = IF MustRotate(x) THEN Rotate(x) ELSE node
          /\ GoesOn(Enter(node'[x].lhs) \o Enter(node'[x].rhs) \o Leave(x))
    BY HeadEntered
  <2>2. x = z
    BY <2>1 DEF Enters
  <2> QED BY <2>1, <2>2
<1>2. Waiting(z) /\ Untouched(a, s, b, z) /\ \A i \in 1 .. Len(chain) - 1 : i < z => Settled(a, s, b, i)
  BY DEF Following
<1>3. Nodes = 1 .. Len(chain) /\ Len(chain) \in Nat /\ Len(term) = Len(chain) + 1
  BY Shape DEF IInv
<1>4. z # Len(chain) /\ y = z + 1 /\ y \in Nodes /\ y > 0
  <2>1. y > 0
    BY DEF MustRotate, IsBinary
  <2>2. y = IF z = Len(chain) THEN -(z + 1) ELSE z + 1
    BY <1>2, <1>3 DEF Untouched
  <2> QED BY <1>3, <2>1, <2>2
<1>5. /\ node[z].lhs = -z /\ a[z] = z /\ s[z] = z /\ b[z] = Len(term)
      /\ node[y].lhs = -y /\ node[y].rhs = (IF y = Len(chain) THEN -(y + 1) ELSE y + 1)
      /\ a[y] = y /\ s[y] = y /\ b[y] = Len(term)
  BY <1>2, <1>3, <1>4 DEF Untouched
<1>6. /\ node'[z].lhs = y /\ node'[z].rhs = (IF y = Len(chain) THEN -(y + 1) ELSE y + 1)
      /\ node'[y].lhs = -z /\ node'[y].rhs = -y
      /\ \A x \in Nodes : x # z /\ x # y => node'[x].lhs = node[x].lhs /\ node'[x].rhs = node[x].rhs
  <2>1. z # y
    BY <1>3, <1>4
  <2>2. /\ \A x \in Nodes : node'[x].lhs = IF x = y THEN node[z].lhs ELSE IF x = z THEN y ELSE node[x].lhs
        /\ \A x \in Nodes : node'[x].rhs = IF x = y THEN node[y].lhs ELSE IF x = z THEN node[y].rhs ELSE node[x].rhs
    BY <1>1, RotatedFields
  <2> QED BY <1>4, <1>5, <2>1, <2>2
<1>7. PICK a2, s2, b2 : a2 = FirstAfter(a, z, y) /\ s2 = SplitAfter(s, z, y) /\ b2 = LastAfter(s, b, y)
  OBVIOUS
<1>8. /\ a2 = FirstAfter(a, z, y)' /\ s2 = SplitAfter(s, z, y)' /\ b2 = LastAfter(s, b, y)'
      /\ \A x \in Nodes :
           /\ a2[x] = IF x = y THEN a[z] ELSE a[x]
           /\ s2[x] = IF x = z THEN s[y] ELSE IF x = y THEN s[z] ELSE s[x]
           /\ b2[x] = IF x = y THEN s[y] ELSE b[x]
  BY <1>1, <1>7 DEF FirstAfter, SplitAfter, LastAfter
<1>9. PICK w : w = z + 2
  OBVIOUS
<1>10. /\ z \in 1 .. Len(chain) + 1 /\ w \in z + 1 .. Len(chain) + 1 /\ w = y + 1 /\ w \in Nat
       /\ \A x \in Nodes : x >= w => x >= z /\ x # z /\ x # y
       /\ \A x \in Nodes : x < z => x # z /\ x # y
  BY <1>3, <1>4, <1>9
<1>11. Untouched(a2, s2, b2, w)'
  <2> SUFFICES ASSUME NEW x \in Nodes, x >= w
               PROVE  /\ node'[x].lhs = -x
                      /\ node'[x].rhs = (IF x = Len(chain) THEN -(x + 1) ELSE x + 1)
                      /\ a2[x] = x /\ s2[x] = x /\ b2[x] = Len(term)
    BY <1>1 DEF Untouched
  <2>1. x >= z /\ x # z /\ x # y
    BY <1>10
  <2>2. /\ node[x].lhs = -x /\ node[x].rhs = (IF x = Len(chain) THEN -(x + 1) ELSE x + 1)
        /\ a[x] = x /\ s[x] = x /\ b[x] = Len(term)
    BY <1>2, <2>1 DEF Untouched
  <2> QED BY <1>6, <1>8, <2>1, <2>2
<1> DEFINE p == Enter(node'[z].lhs) \o Enter(node'[z].rhs) \o Leave(z)
<1>12. IF y = Len(chain) THEN TwoCalls(p, y, z) ELSE ThreeCalls(p, y, w, z)
  <2>1. y \in Int /\ y > 0 /\ ~(y < 0)
    BY <1>3, <1>4
  <2>2. CASE y = Len(chain)
    <3>1. node'[z].rhs = -(y + 1) /\ -(y + 1) \in Int /\ -(y + 1) < 0 /\ ~(-(y + 1) > 0)
      BY <1>3, <1>6, <2>2
    <3> QED BY <1>4, <1>6, <2>1, <2>2, <3>1, CallsMade
  <2>3. CASE y # Len(chain)
    <3>1. node'[z].rhs = w /\ w \in Int /\ w > 0 /\ w \in Nodes
      BY <1>3, <1>4, <1>6, <1>10, <2>3
    <3> QED BY <1>4, <1>6, <2>1, <2>3, <3>1, CallsMade
  <2> QED BY <2>2, <2>3
<1>13. GoesOn(p)
  BY <1>1
<1> HIDE DEF p
<1>14. Leafy(y)' /\ \A x \in Nodes : x < z => (Leafy(x)' <=> Leafy(x))
  <2>1. -z < 0 /\ -y < 0
    BY <1>3, <1>4
  <2> QED BY <1>6, <1>10, <2>1 DEF Leafy
<1>15. Waiting(w)'
  <2>1. PICK k : k = Len(p)
    OBVIOUS
  <2>2. p \in Seq(Call) /\ k \in Nat \ {0}
    BY <1>12, <2>1 DEF TwoCalls, ThreeCalls
  <2>3. /\ w <= Len(chain) => \E i \in 1 .. k : p[i] = EnterCall(w)
        /\ \A i, j \in 1 .. k : p[i] = EnterCall(w) /\ p[j] = EnterCall(w) => i = j
        /\ \A i \in 1 .. k : \A x \in Nodes : p[i] = EnterCall(x) => x = w \/ x = y
    <3>1. \A x, v : LeaveCall(x) # EnterCall(v) /\ (EnterCall(x) = EnterCall(v) => x = v)
      BY DEF LeaveCall, EnterCall
    <3>2. w # y
      BY <1>3, <1>4, <1>10
    <3>3. CASE y = Len(chain)
      <4>1. k = 2 /\ p[1] = EnterCall(y) /\ p[2] = LeaveCall(z) /\ ~(w <= Len(chain))
        BY <1>3, <1>10, <1>12, <2>1, <3>3 DEF TwoCalls
      <4> QED BY <3>1, <3>2, <4>1
    <3>4. CASE y # Len(chain)
      <4>1. k = 3 /\ p[1] = EnterCall(y) /\ p[2] = EnterCall(w) /\ p[3] = LeaveCall(z)
        BY <1>12, <2>1, <3>4 DEF ThreeCalls
      <4> QED BY <3>1, <3>2, <4>1
    <3> QED BY <3>3, <3>4
  <2>4. \A i \in 1 .. k : \A x \in Nodes : p[i] = EnterCall(x) => x <= w /\ (x < w => Leafy(x)')
    <3>1. w \in Nat /\ y <= w /\ ~(w < w)
      BY <1>3, <1>4, <1>10
    <3> QED BY <1>14, <2>3, <3>1
  <2> QED BY <1>1, <1>2, <1>10, <1>13, <1>14, <2>1, <2>2, <2>3, <2>4, WaitingPushed
<1>16. chain[z] > chain[y] /\ chain[z] \in Int /\ chain[y] \in Int
  <2>1. node[z].op = chain[z] /\ node[y].op = chain[y]
    BY <1>4, <1>5 DEF Laid, Splits
  <2>2. chain[z] \in Operators /\ chain[y] \in Operators
    BY <1>3, <1>4 DEF IInv
  <2> QED BY <2>1, <2>2, IntOperators DEF MustRotate
<1>17. \A x, v \in Nodes : s[x] = s[v] => x = v
  BY DEF Each
<1>18. ASSUME NEW i \in 1 .. Len(chain) - 1, i < w PROVE Settled(a2, s2, b2, i)
  <2>1. CASE i < z
    <3>1. Settled(a, s, b, i)
      BY <1>2, <2>1
    <3>2. \A x \in Nodes : s2[x] = i => x # z /\ x # y /\ s[x] = i /\ b2[x] = b[x]
      BY <1>3, <1>4, <1>5, <1>8, <2>1
    <3>3. ASSUME ~(chain[i] <= chain[i + 1]), ~(i > 1 /\ chain[i - 1] > chain[i])
          PROVE  \A x \in Nodes : s2[x] = i + 1 => a2[x] <= i
      <4>1. \A x \in Nodes : s[x] = i + 1 => a[x] <= i
        BY <3>1, <3>3 DEF Settled
      <4>2. i + 1 # z
        BY <1>3, <1>5, <4>1
      <4>3. i + 1 < z
        BY <1>3, <2>1, <4>2
      <4>4. \A x \in Nodes : s2[x] = i + 1 => x # y /\ s[x] = i + 1
        BY <1>3, <1>4, <1>5, <1>8, <4>3
      <4> QED BY <1>8, <4>1, <4>4
    <3>4. chain[i] <= chain[i + 1] => \A x \in Nodes : s2[x] = i => b2[x] >= i + 2
      BY <3>1, <3>2 DEF Settled
    <3> QED BY <3>3, <3>4 DEF Settled
  <2>2. CASE i = z
    <3>1. ~(chain[i] <= chain[i + 1])
      BY <1>4, <1>16, <2>2
    <3>2. \A x \in Nodes : s2[x] = i + 1 => x = z
      <4> SUFFICES ASSUME NEW x \in Nodes, s2[x] = i + 1, x # z PROVE FALSE
        OBVIOUS
      <4>1. x # y
        BY <1>3, <1>4, <1>5, <1>8, <2>2
      <4>2. s[x] = s[y]
        BY <1>4, <1>5, <1>8, <2>2, <4>1
      <4> QED BY <1>4, <1>17, <4>1, <4>2
    <3>3. a2[z] <= i
      BY <1>3, <1>4, <1>5, <1>8, <2>2
    <3> QED BY <3>1, <3>2, <3>3 DEF Settled
  <2>3. CASE i = y
    <3>1. i > 1 /\ i - 1 = z
      BY <1>3, <1>4, <2>3
    <3>2. \A x \in Nodes : s2[x] = i => x = z
      <4> SUFFICES ASSUME NEW x \in Nodes, s2[x] = i, x # z PROVE FALSE
        OBVIOUS
      <4>1. x # y
        BY <1>3, <1>4, <1>5, <1>8, <2>3
      <4>2. s[x] = s[y]
        BY <1>5, <1>8, <2>3, <4>1
      <4> QED BY <1>4, <1>17, <4>1, <4>2
    <3>3. b2[z] >= i + 2
      <4>1. z # y /\ b2[z] = Len(chain) + 1
        BY <1>3, <1>4, <1>5, <1>8
      <4> QED BY <1>3, <2>3, <4>1
    <3> QED BY <1>16, <2>3, <3>1, <3>2, <3>3 DEF Settled
  <2> QED BY <1>3, <1>4, <1>10, <1>18, <2>1, <2>2, <2>3
<1>19. \A i : Settled(a2, s2, b2, i)' <=> Settled(a2, s2, b2, i)
  BY <1>1 DEF Settled
<1>20. Following(a2, s2, b2, w)'
  <2>1. chain' = chain
    BY <1>1
  <2> QED BY <1>11, <1>15, <1>18, <1>19, <2>1, Zenon DEF Following
<1>21. w \in 1 .. Len(chain) + 1
  BY <1>3, <1>10
<1> QED BY <1>8, <1>9, <1>20, <1>21

LEMMA LeaveGrouped ==
  ASSUME IInv, LeaveNode
  PROVE  /\ SameShape
         /\ \A a, s, b : \A z \in 1 .. Len(chain) + 1 :
              Following(a, s, b, z) => Following(a, s, b, z)'
<1>1. PICK x \in Nodes :
        /\ todo # <<>> /\ todo[1].of = x /\ todo[1].at = "leave"
        /\ UNCHANGED <<chain, term>> /\ Nodes' = Nodes /\ Pops
        /\ \A u \in Nodes :
             /\ node'[u].op = node[u].op /\ node'[u].lhs = node[u].lhs
             /\ node'[u].rhs = node[u].rhs
  BY HeadLeft
<1>2. SameShape
  BY <1>1 DEF SameShape
<1>3. ASSUME NEW a, NEW s, NEW b, NEW z \in 1 .. Len(chain) + 1, Following(a, s, b, z)
      PROVE  Following(a, s, b, z)'
  <2>1. Waiting(z) /\ Untouched(a, s, b, z) /\ \A i \in 1 .. Len(chain) - 1 : i < z => Settled(a, s, b, i)
    BY <1>3 DEF Following
  <2>2. /\ Untouched(a, s, b, z)'
        /\ \A i : Settled(a, s, b, i)' <=> Settled(a, s, b, i)
        /\ \A y \in Nodes : Leafy(y)' <=> Leafy(y)
    <3>1. z \in Nat
      OBVIOUS
    <3> QED BY <1>2, <2>1, <3>1, KeptSettled
  <2>3. ~Enters(1, z)
    BY <1>1 DEF Enters
  <2>4. Waiting(z)'
    BY <1>1, <2>1, <2>2, <2>3, WaitingPopped
  <2>5. chain' = chain
    BY <1>1
  <2> QED BY <2>1, <2>2, <2>4, <2>5, Zenon DEF Following
<1> QED BY <1>2, <1>3

LEMMA StartGrouped ==
  ASSUME IInv, StartBuild, Combed
  PROVE  Following(Numbered, Numbered, ToTheEnd, 1)'
<1>1. UNCHANGED <<chain, term, node>> /\ Nodes' = Nodes /\ todo' = Enter(1)
  BY DEF StartBuild, Nodes
<1>2. Nodes = 1 .. Len(chain) /\ Len(chain) \in Nat \ {0} /\ 1 \in Nodes
  BY Shape
<1>3. \A x \in Nodes :
        /\ node[x].lhs = -x
        /\ node[x].rhs = IF x = Len(chain) THEN -(x + 1) ELSE x + 1
  <2> SUFFICES ASSUME NEW x \in Nodes
               PROVE  /\ node[x].lhs = -x
                      /\ node[x].rhs = IF x = Len(chain) THEN -(x + 1) ELSE x + 1
    OBVIOUS
  <2>1. node[x] = Parsed(x)
    BY DEF Combed
  <2>2. Parsed(x).lhs = -x /\ Parsed(x).rhs = IF x = Len(chain) THEN -(x + 1) ELSE x + 1
    BY DEF Parsed
  <2> QED BY <2>1, <2>2
<1>4. Numbered' = Numbered /\ ToTheEnd' = ToTheEnd
  BY <1>1 DEF Numbered, ToTheEnd
<1>5. \A x \in Nodes : Numbered[x] = x /\ ToTheEnd[x] = Len(term)
  BY DEF Numbered, ToTheEnd
<1>6. Untouched(Numbered, Numbered, ToTheEnd, 1)'
  BY <1>1, <1>3, <1>4, <1>5 DEF Untouched
<1>7. Len(todo') = 1 /\ todo'[1] = EnterCall(1)
  BY <1>1 DEF Enter, IsBinary, EnterCall
<1>8. Waiting(1)'
  <2>1. \A x : Enters(1, x)' <=> x = 1
    BY <1>7 DEF Enters, EnterCall
  <2>2. \A i \in 1 .. 1 : i = 1
    OBVIOUS
  <2> QED BY <1>7, <2>1, <2>2 DEF Waiting
<1>9. \A i \in 1 .. Len(chain) - 1 : ~(i < 1)
  OBVIOUS
<1> QED BY <1>1, <1>6, <1>8, <1>9 DEF Following

-----------------------------------------------------------------------------
(* A layout follows the whole building; during the first build it is known how far it has got. *)

Groups(a, s, b) ==
  stage = "build" /\ builds = 1 => \E z \in 1 .. Len(chain) + 1 : Following(a, s, b, z)

TreeInv ==
  stage \in {"parsed", "build"} => \E a, s, b : Laid(a, s, b) /\ Each(s) /\ Groups(a, s, b)

LEMMA StepTree == IInv /\ NInv /\ TreeInv /\ [Next]_vars => TreeInv'
<1> SUFFICES ASSUME IInv, NInv, TreeInv, [Next]_vars PROVE TreeInv'
  OBVIOUS
<1>0. Nodes = 1 .. Len(chain) /\ Len(chain) \in Nat \ {0}
  BY Shape
<1>1. CASE ParseNode
  <2>1. CASE stage' = "parse"
    BY <2>1 DEF TreeInv
  <2>2. CASE stage' # "parse"
    <3>1. stage' = "parsed" /\ IInv' /\ NInv'
      BY <1>1, <2>2, StepIInv, StepNumbers DEF ParseNode
    <3>2. (next = 0)'
      BY <3>1 DEF IInv
    <3>3. Combed'
      <4>1. \A x \in Nodes' : x > next' => (node[x] = Parsed(x))'
        BY <3>1 DEF NInv
      <4>2. Nodes' = Nodes
        BY <1>1 DEF ParseNode, Nodes
      <4> QED BY <1>0, <3>2, <4>1, <4>2 DEF Combed
    <3>4. (Laid(Numbered, Numbered, ToTheEnd) /\ Each(Numbered))'
      BY <3>1, <3>2, <3>3, ParsedLaid, PTL
    <3>5. PICK a, b : a = Numbered' /\ b = ToTheEnd'
      OBVIOUS
    <3>6. Laid(a, a, b)' /\ Each(a)'
      BY <3>4, <3>5
    <3> QED BY <3>1, <3>6 DEF TreeInv, Groups
  <2> QED BY <2>1, <2>2
<1>2. CASE ParseMismatch
  BY <1>2 DEF ParseMismatch, TreeInv
<1>3. CASE StartBuild
  <2>1. /\ UNCHANGED <<chain, term, node, next>> /\ stage \in {"parsed", "build"} /\ stage' = "build"
        /\ builds' = builds + 1 /\ builds \in Nat /\ next = 0 /\ SameShape
    BY <1>3 DEF StartBuild, IInv, SameShape
  <2>2. CASE stage = "parsed"
    <3>1. Combed
      BY <1>0, <2>1, <2>2 DEF NInv, Combed
    <3>2. Laid(Numbered, Numbered, ToTheEnd) /\ Each(Numbered)
      BY <2>1, <3>1, ParsedLaid
    <3>3. Following(Numbered, Numbered, ToTheEnd, 1)'
      BY <1>3, <3>1, StartGrouped
    <3>4. PICK a, b : a = Numbered /\ b = ToTheEnd
      OBVIOUS
    <3>5. a = Numbered' /\ b = ToTheEnd'
      BY <2>1, <3>4 DEF Numbered, ToTheEnd, Nodes
    <3>6. Laid(a, a, b)' /\ Each(a)'
      BY <2>1, <3>2, <3>4, ShapeKept
    <3>7. Following(a, a, b, 1)'
      BY <3>3, <3>5
    <3>8. 1 \in 1 .. Len(chain') + 1
      BY <1>0, <2>1
    <3> QED BY <3>6, <3>7, <3>8 DEF TreeInv, Groups
  <2>3. CASE stage = "build"
    <3>1. builds # 0 /\ builds' # 1
      BY <2>1, <2>3 DEF NInv
    <3>2. PICK a, s, b : Laid(a, s, b) /\ Each(s)
      BY <2>3 DEF TreeInv
    <3>3. Laid(a, s, b)' /\ Each(s)'
      BY <2>1, <3>2, ShapeKept
    <3> QED BY <3>1, <3>3 DEF TreeInv, Groups
  <2> QED BY <2>1, <2>2, <2>3
<1>4. CASE EnterNode
  <2>1. PICK x \in Nodes :
          /\ todo # <<>> /\ todo[1].of = x /\ todo[1].at = "enter"
          /\ next = 0 /\ stage = "build" /\ UNCHANGED <<chain, term, stage, next, builds>>
          /\ Nodes' = Nodes
          /\ node' = IF MustRotate(x) THEN Rotate(x) ELSE node
    BY <1>4, HeadEntered
  <2>2. PICK a, s, b : Laid(a, s, b) /\ Each(s) /\ Groups(a, s, b)
    BY <2>1 DEF TreeInv
  <2>3. CASE builds # 1
    <3>1. CASE MustRotate(x)
      <4>1. PICK y : y = node[x].rhs
        OBVIOUS
      <4>2. y \in Nodes
        BY <2>1, <3>1, <4>1, RotatedFields
      <4>3. /\ Laid(FirstAfter(a, x, y), SplitAfter(s, x, y), LastAfter(s, b, y))'
            /\ Each(SplitAfter(s, x, y))'
        BY <2>1, <2>2, <3>1, <4>1, <4>2, RotatedLaid
      <4>4. PICK a2, s2, b2 : /\ a2 = FirstAfter(a, x, y)' /\ s2 = SplitAfter(s, x, y)'
                              /\ b2 = LastAfter(s, b, y)'
        OBVIOUS
      <4>5. Laid(a2, s2, b2)' /\ Each(s2)'
        BY <4>3, <4>4
      <4> QED BY <2>1, <2>3, <4>5 DEF TreeInv, Groups
    <3>2. CASE ~MustRotate(x)
      <4>1. SameShape
        BY <2>1, <3>2 DEF SameShape
      <4>2. Laid(a, s, b)' /\ Each(s)'
        BY <2>2, <4>1, ShapeKept
      <4> QED BY <2>1, <2>3, <4>2 DEF TreeInv, Groups
    <3> QED BY <3>1, <3>2
  <2>4. CASE builds = 1
    <3>1. PICK z \in 1 .. Len(chain) + 1 : Following(a, s, b, z)
      BY <2>1, <2>2, <2>4 DEF Groups
    <3>2. CASE ~Enters(1, z)
      <4>1. SameShape /\ Following(a, s, b, z)'
        BY <1>4, <3>1, <3>2, EnterTaken
      <4>2. Laid(a, s, b)' /\ Each(s)'
        BY <2>2, <4>1, ShapeKept
      <4>3. z \in 1 .. Len(chain') + 1
        BY <2>1
      <4> QED BY <4>1, <4>2, <4>3 DEF TreeInv, Groups
    <3>3. CASE Enters(1, z)
      <4>1. x = z /\ z \in Nodes
        BY <2>1, <3>3 DEF Enters
      <4>2. CASE ~MustRotate(z)
        <5>1. SameShape /\ Following(a, s, b, z + 1)'
          BY <1>4, <2>2, <3>1, <3>3, <4>1, <4>2, EnterPlain
        <5>2. Laid(a, s, b)' /\ Each(s)'
          BY <2>2, <5>1, ShapeKept
        <5>3. z + 1 \in 1 .. Len(chain') + 1
          BY <1>0, <2>1, <4>1
        <5> QED BY <5>1, <5>2, <5>3 DEF TreeInv, Groups
      <4>3. CASE MustRotate(z)
        <5>1. PICK y : y = node[z].rhs
          OBVIOUS
        <5>2. y \in Nodes
          BY <2>1, <4>1, <4>3, <5>1, RotatedFields
        <5>3. /\ z + 2 \in 1 .. Len(chain) + 1
              /\ Following(FirstAfter(a, z, y), SplitAfter(s, z, y), LastAfter(s, b, y), z + 2)'
          BY <1>4, <2>2, <3>1, <3>3, <4>1, <4>3, <5>1, EnterRotates
        <5>4. /\ Laid(FirstAfter(a, z, y), SplitAfter(s, z, y), LastAfter(s, b, y))'
              /\ Each(SplitAfter(s, z, y))'
          <6>1. node' = Rotate(z)
            BY <2>1, <4>1, <4>3
          <6> QED BY <2>1, <2>2, <4>1, <4>3, <5>1, <5>2, <6>1, RotatedLaid
        <5>5. PICK a2, s2, b2 : /\ a2 = FirstAfter(a, z, y)' /\ s2 = SplitAfter(s, z, y)'
                                /\ b2 = LastAfter(s, b, y)'
          OBVIOUS
        <5>6. Laid(a2, s2, b2)' /\ Each(s2)' /\ Following(a2, s2, b2, z + 2)'
          BY <5>3, <5>4, <5>5
        <5>7. z + 2 \in 1 .. Len(chain') + 1
          BY <2>1, <5>3
        <5> QED BY <5>6, <5>7 DEF TreeInv, Groups
      <4> QED BY <4>2, <4>3
    <3> QED BY <3>2, <3>3
  <2> QED BY <2>3, <2>4
<1>5. CASE LeaveNode
  <2>1. /\ SameShape
        /\ \A a, s, b : \A z \in 1 .. Len(chain) + 1 :
             Following(a, s, b, z) => Following(a, s, b, z)'
    BY <1>5, LeaveGrouped
  <2>2. UNCHANGED <<chain, stage, builds>>
    BY <1>5 DEF LeaveNode
  <2>3. CASE stage \notin {"parsed", "build"}
    BY <2>2, <2>3 DEF TreeInv
  <2>4. CASE stage \in {"parsed", "build"}
    <3>1. PICK a, s, b : Laid(a, s, b) /\ Each(s) /\ Groups(a, s, b)
      BY <2>4 DEF TreeInv
    <3>2. Laid(a, s, b)' /\ Each(s)'
      BY <2>1, <3>1, ShapeKept
    <3>3. Groups(a, s, b)'
      BY <2>1, <2>2, <3>1 DEF Groups
    <3> QED BY <3>2, <3>3 DEF TreeInv
  <2> QED BY <2>3, <2>4
<1>6. CASE UNCHANGED vars
  <2>1. UNCHANGED <<chain, term, node, stage, next, todo, builds>> /\ SameShape /\ Nodes' = Nodes
    BY <1>6 DEF vars, SameShape, Nodes
  <2>2. CASE stage \notin {"parsed", "build"}
    BY <2>1, <2>2 DEF TreeInv
  <2>3. CASE stage \in {"parsed", "build"}
    <3>1. PICK a, s, b : Laid(a, s, b) /\ Each(s) /\ Groups(a, s, b)
      BY <2>3 DEF TreeInv
    <3>2. Laid(a, s, b)' /\ Each(s)'
      BY <2>1, <3>1, ShapeKept
    <3>3. \A i, x : Enters(i, x)' <=> Enters(i, x)
      BY <2>1 DEF Enters
    <3>4. \A x : Leafy(x)' <=> Leafy(x)
      BY <2>1 DEF Leafy
    <3>5. \A z : Waiting(z)' <=> Waiting(z)
      BY <2>1, <3>3, <3>4, Zenon DEF Waiting
    <3>6. \A z : Untouched(a, s, b, z)' <=> Untouched(a, s, b, z)
      BY <2>1 DEF Untouched
    <3>7. \A i : Settled(a, s, b, i)' <=> Settled(a, s, b, i)
      BY <2>1 DEF Settled
    <3>8. \A z : Following(a, s, b, z)' <=> Following(a, s, b, z)
      BY <2>1, <3>5, <3>6, <3>7, Zenon DEF Following
    <3>9. Groups(a, s, b)'
      BY <2>1, <3>1, <3>8 DEF Groups
    <3> QED BY <3>2, <3>9 DEF TreeInv
  <2> QED BY <2>2, <2>3
<1> QED BY <1>1, <1>2, <1>3, <1>4, <1>5, <1>6 DEF Next

LEMMA AlwaysTree == Spec => []TreeInv
<1>1. Init => TreeInv
  BY DEF Init, TreeInv
<1> QED BY <1>1, StepTree, AlwaysIInv, AlwaysNumbers, PTL DEF Spec

(* However often the expression is built and however the tree is regrouped, *)
(* between any two steps the tree holds each operand and operator once and  *)
(* in the order in which they are written (build.cpp 1400-1424).            *)
THEOREM OrderIsKept == Spec => []KeepsOrder
<1>1. IInv /\ TreeInv => KeepsOrder
  <2> SUFFICES ASSUME IInv, TreeInv, stage \in {"parsed", "build"}
               PROVE  Under(1) = Written
    BY DEF KeepsOrder, IsParsed
  <2>1. PICK a, s, b : Laid(a, s, b)
    BY DEF TreeInv
  <2>2. next = 0
    BY DEF IInv
  <2> QED BY <2>1, <2>2, LaidKeepsOrder
<1> QED BY <1>1, AlwaysIInv, AlwaysTree, PTL

(* Holder and Operands read the layout off the tree. *)
LEMMA HolderIs ==
  ASSUME IInv, next = 0, NEW a, NEW s, NEW b, Laid(a, s, b), Each(s), NEW i \in Nodes
  PROVE  Holder(i) \in Nodes /\ s[Holder(i)] = i
<1>1. Nodes = 1 .. Len(chain) /\ Len(chain) \in Nat
  BY Shape
<1>2. ASSUME NEW x \in Nodes PROVE Last(Under(node[x].lhs)) = -s[x]
  <2>1. node[x].lhs \in Nodes \cup Terms
    BY <1>1 DEF IInv, ParsedOK
  <2>2. /\ FirstOf(a, node[x].lhs) = a[x] /\ LastOf(b, node[x].lhs) = s[x] /\ a[x] <= s[x]
        /\ a[x] \in Nat /\ s[x] \in Nat
    BY DEF Laid, Splits
  <2>3. Spells(Under(node[x].lhs), a[x], s[x])
    BY <2>1, <2>2, UnderSpells
  <2>4. PICK q, f, l : q = Under(node[x].lhs) /\ f = a[x] /\ l = s[x]
    OBVIOUS
  <2>5. Spells(q, f, l) /\ f \in Nat /\ l \in Nat /\ f <= l
    BY <2>2, <2>3, <2>4
  <2>6. Len(q) = 2 * (l - f) + 1 /\ l \in f .. l
    BY <2>5 DEF Spells
  <2>7. q[2 * (l - f) + 1] = -l
    BY <2>5, <2>6 DEF Spells
  <2>8. Last(q) = q[Len(q)]
    BY DEF Last
  <2> QED BY <2>4, <2>6, <2>7, <2>8
<1>3. \A x \in Nodes : s[x] \in Nat
  BY DEF Laid
<1>4. \A x \in Nodes : Last(Under(node[x].lhs)) = -i <=> s[x] = i
  BY <1>1, <1>2, <1>3
<1>5. PICK x \in Nodes : s[x] = i
  BY DEF Each
<1>6. Holder(i) \in Nodes /\ Last(Under(node[Holder(i)].lhs)) = -i
  <2>1. \E v \in Nodes : Last(Under(node[v].lhs)) = -i
    BY <1>4, <1>5
  <2> QED BY <2>1 DEF Holder
<1> QED BY <1>4, <1>6

LEMMA OperandsAre ==
  ASSUME IInv, next = 0, NEW a, NEW s, NEW b, Laid(a, s, b), NEW e \in Nodes \cup Terms
  PROVE  Operands(e) = FirstOf(a, e) .. LastOf(b, e)
<1> DEFINE q == Under(e)
           f == FirstOf(a, e)
           l == LastOf(b, e)
<1>1. Spells(q, f, l)
  BY UnderSpells
<1>2. f \in 1 .. Len(term) /\ l \in 1 .. Len(term) /\ f <= l /\ Len(term) \in Nat
  BY LaidRange DEF IInv
<1>3. Nodes = 1 .. Len(chain) /\ Len(chain) \in Nat /\ Len(term) = Len(chain) + 1
  BY Shape DEF IInv
<1> HIDE DEF q, f, l
<1>4. q \in Seq(Int) /\ Len(q) = 2 * (l - f) + 1 /\ DOMAIN q = 1 .. 2 * (l - f) + 1
  BY <1>1, <1>2 DEF Spells
<1>5. ASSUME NEW k \in f .. l PROVE k \in 1 .. Len(term) /\ \E j \in DOMAIN q : q[j] = -k
  <2>1. k \in 1 .. Len(term) /\ 2 * (k - f) + 1 \in DOMAIN q
    BY <1>2, <1>4
  <2>2. q[2 * (k - f) + 1] = -k
    BY <1>1 DEF Spells
  <2> QED BY <2>1, <2>2
<1>6. ASSUME NEW k \in 1 .. Len(term), NEW j \in DOMAIN q, q[j] = -k PROVE k \in f .. l
  <2>1. CASE \E h \in f .. l : j = 2 * (h - f) + 1
    <3>1. PICK h \in f .. l : j = 2 * (h - f) + 1
      BY <2>1
    <3>2. q[j] = -h
      BY <1>1, <3>1 DEF Spells
    <3> QED BY <1>2, <1>6, <3>2
  <2>2. CASE \E h \in f .. l - 1 : j = 2 * (h - f) + 2
    <3>1. PICK h \in f .. l - 1 : j = 2 * (h - f) + 2
      BY <2>2
    <3>2. q[j] = 10 + chain[h]
      BY <1>1, <3>1 DEF Spells
    <3>3. chain[h] \in Operators
      BY <1>2, <1>3, <3>1 DEF IInv
    <3>4. chain[h] \in Arithmetic \cup Comparisons
      BY <3>3, OperatorsAssumption
    <3>5. chain[h] \in Nat
      BY <3>4 DEF Arithmetic, Comparisons
    <3> QED BY <1>2, <1>6, <3>2, <3>5
  <2>3. \/ \E h \in f .. l : j = 2 * (h - f) + 1
        \/ \E h \in f .. l - 1 : j = 2 * (h - f) + 2
    <3>1. j \in 1 .. 2 * (l - f) + 1
      BY <1>4
    <3>2. CASE j % 2 = 1
      <4>1. PICK d \in Int : j = 2 * d + 1
        BY <3>1, <3>2
      <4>2. f + d \in f .. l /\ j = 2 * ((f + d) - f) + 1
        BY <1>2, <3>1, <4>1
      <4> QED BY <4>2
    <3>3. CASE j % 2 # 1
      <4>1. PICK d \in Int : j = 2 * d + 2
        <5>1. j \in Int /\ j % 2 = 0
          BY <3>1, <3>3
        <5>2. PICK c \in Int : j = 2 * c
          BY <5>1
        <5>3. c - 1 \in Int /\ j = 2 * (c - 1) + 2
          BY <5>2
        <5> QED BY <5>3
      <4>2. f + d \in f .. l - 1 /\ j = 2 * ((f + d) - f) + 2
        BY <1>2, <3>1, <4>1
      <4> QED BY <4>2
    <3> QED BY <3>2, <3>3
  <2> QED BY <2>1, <2>2, <2>3
<1>7. Operands(e) = {k \in 1 .. Len(term) : \E j \in DOMAIN q : q[j] = -k}
  BY DEF Operands, q
<1> QED BY <1>2, <1>5, <1>6, <1>7 DEF f, l

(* After the first build of a chain of any length, two neighbouring          *)
(* operators are grouped by their ranks, except where the first of them has  *)
(* become the root of the rest by the rotation of the one before it, and is  *)
(* not compared again (build.cpp 1405-1424).                                 *)
THEOREM NeighboursAreGrouped == Spec => []NeighboursGrouped
<1>1. IInv /\ TreeInv => NeighboursGrouped
  <2> SUFFICES ASSUME IInv, TreeInv, stage = "build", todo = <<>>, builds = 1,
                      NEW i \in 1 .. Len(chain) - 1
               PROVE  IF chain[i] <= chain[i + 1] THEN i + 2 \in Operands(node[Holder(i)].rhs)
                      ELSE \/ i > 1 /\ chain[i - 1] > chain[i]
                           \/ i \in Operands(node[Holder(i + 1)].lhs)
    BY DEF NeighboursGrouped, IsBuilt
  <2>1. next = 0 /\ Nodes = 1 .. Len(chain) /\ Len(chain) \in Nat /\ Len(term) = Len(chain) + 1
    BY Shape DEF IInv
  <2>2. PICK a, s, b : Laid(a, s, b) /\ Each(s) /\ Groups(a, s, b)
    BY DEF TreeInv
  <2>3. PICK z \in 1 .. Len(chain) + 1 : Following(a, s, b, z)
    BY <2>2 DEF Groups
  <2>4. ~(z <= Len(chain))
    <3>1. Len(todo) = 0 /\ \A j \in 1 .. 0 : FALSE
      OBVIOUS
    <3> QED BY <2>3, <3>1 DEF Following, Waiting
  <2>5. Settled(a, s, b, i)
    BY <2>1, <2>3, <2>4 DEF Following
  <2>6. i \in Nodes /\ i + 1 \in Nodes
    BY <2>1
  <2>7. PICK x, y : x = Holder(i) /\ y = Holder(i + 1)
    OBVIOUS
  <2>8. x \in Nodes /\ s[x] = i /\ y \in Nodes /\ s[y] = i + 1
    BY <2>1, <2>2, <2>6, <2>7, HolderIs
  <2>9. /\ node[x].rhs \in Nodes \cup Terms /\ node[y].lhs \in Nodes \cup Terms
        /\ FirstOf(a, node[x].rhs) = i + 1 /\ LastOf(b, node[x].rhs) = b[x]
        /\ FirstOf(a, node[y].lhs) = a[y] /\ LastOf(b, node[y].lhs) = i + 1
        /\ b[x] \in Nat /\ a[y] \in Nat
    <3>1. Splits(a, s, b, x) /\ Splits(a, s, b, y)
      BY <2>2, <2>8 DEF Laid
    <3>2. ParsedOK(x) /\ ParsedOK(y)
      BY <2>1, <2>8 DEF IInv
    <3>3. node[x].rhs \in Nodes \cup Terms /\ node[y].lhs \in Nodes \cup Terms
      BY <3>2 DEF ParsedOK
    <3>4. FirstOf(a, node[x].rhs) = i + 1 /\ LastOf(b, node[x].rhs) = b[x]
      BY <2>8, <3>1 DEF Splits
    <3>5. FirstOf(a, node[y].lhs) = a[y] /\ LastOf(b, node[y].lhs) = i + 1
      BY <2>8, <3>1 DEF Splits
    <3>6. b[x] \in Nat /\ a[y] \in Nat
      BY <2>2, <2>8 DEF Laid
    <3> QED BY <3>3, <3>4, <3>5, <3>6
  <2>10. Operands(node[x].rhs) = i + 1 .. b[x] /\ Operands(node[y].lhs) = a[y] .. i + 1
    <3>1. \A e \in Nodes \cup Terms : Operands(e) = FirstOf(a, e) .. LastOf(b, e)
      BY <2>1, <2>2, OperandsAre
    <3> QED BY <2>9, <3>1, Zenon
  <2>11. CASE chain[i] <= chain[i + 1]
    <3>1. b[x] >= i + 2
      BY <2>5, <2>8, <2>11 DEF Settled
    <3>2. i + 2 \in i + 1 .. b[x]
      BY <2>9, <3>1
    <3> QED BY <2>7, <2>10, <2>11, <3>2
  <2>12. CASE ~(chain[i] <= chain[i + 1])
    <3>1. (i > 1 /\ chain[i - 1] > chain[i]) \/ a[y] <= i
      BY <2>5, <2>8, <2>12 DEF Settled
    <3>2. a[y] <= i => i \in a[y] .. i + 1
      BY <2>9
    <3> QED BY <2>7, <2>10, <2>12, <3>1, <3>2
  <2> QED BY <2>11, <2>12
<1> QED BY <1>1, AlwaysIInv, AlwaysTree, PTL
=============================================================================
