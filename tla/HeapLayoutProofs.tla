-------------------------- MODULE HeapLayoutProofs --------------------------
(***************************************************************************)
(* For types of every nesting and programs of every length: what the       *)
(* storage of variables satisfies.                                         *)
(***************************************************************************)
EXTENDS HeapLayoutInvariant, FiniteSetTheorems, SequenceTheorems, WellFoundedInduction, TLAPS

-----------------------------------------------------------------------------
(* Calls that can be made. *)

LEMMA DefTyped ==
  ASSUME NEW t \in Types
  PROVE  /\ Def[t].class \in Classes /\ Def[t].parts \in Seq(Types) /\ Def[t].sized \in BOOLEAN
         /\ Def[t].size \in Nat /\ Len(Def[t].parts) \in Nat
         /\ DOMAIN Def[t].parts = 1 .. Len(Def[t].parts)
         /\ \A i \in DOMAIN Def[t].parts : Def[t].parts[i] \in Types
         /\ Def[t].class = "vector" => ElementOf(t) \in Types
<1>1. Def[t] \in TypeDef BY DefAssumption
<1>2. /\ Def[t].class \in Classes /\ Def[t].parts \in Seq(Types) /\ Def[t].sized \in BOOLEAN
      /\ Def[t].size \in Nat
  BY <1>1 DEF TypeDef
<1>3. Def[t].class = "vector" => ElementOf(t) \in Types
  <2>1. Def[t].class = "vector" => Len(Def[t].parts) = 1 BY DefAssumption
  <2> QED BY <1>2, <2>1 DEF ElementOf
<1> QED BY <1>2, <1>3

LEMMA PathsAssociate ==
  ASSUME NEW p \in Seq(Nat), NEW q \in Seq(Nat), NEW s \in Seq(Nat)
  PROVE  (p \o q) \o s = p \o (q \o s)
BY p \in Seq(Nat), q \in Seq(Nat), s \in Seq(Nat)

LEMMA ToDoGood ==
  ASSUME NEW do \in Calls, do # "field", NEW t \in Types, NEW at \in Seq(Nat), at # <<>>
  PROVE  ToDo(do, t, at) \in GoodTask
BY DEF ToDo, GoodTask, Task

LEMMA ElementsGood ==
  ASSUME NEW do \in Calls, do # "field", NEW t \in Types, NEW r \in Nat, NEW n \in Nat
  PROVE  /\ Elements(do, t, r, n) \in Seq(GoodTask)
         /\ \A i \in 1 .. Len(Elements(do, t, r, n)) : Elements(do, t, r, n)[i] = ToDo(do, t, <<r, i>>)
<1>1. \A i \in 1 .. n : ToDo(do, t, <<r, i>>) \in GoodTask
  <2> TAKE i \in 1 .. n
  <2>1. <<r, i>> \in Seq(Nat) /\ <<r, i>> # <<>> OBVIOUS
  <2> QED BY <2>1, ToDoGood
<1>2. CASE ClassOf(t) \in {"vector", "collection"}
  <2>1. Elements(do, t, r, n) = [i \in 1 .. n |-> ToDo(do, t, <<r, i>>)] BY <1>2 DEF Elements
  <2> QED BY <1>1, <2>1
<1>3. CASE ~(ClassOf(t) \in {"vector", "collection"})
  <2>1. Elements(do, t, r, n) = <<>> BY <1>3 DEF Elements
  <2> QED BY <2>1
<1> QED BY <1>2, <1>3

LEMMA MembersGood ==
  ASSUME NEW do \in Calls, do # "field", NEW t \in Types, NEW at \in Seq(Nat), at # <<>>
  PROVE  /\ Members(do, t, at) \in Seq(GoodTask)
         /\ Len(Members(do, t, at)) = Len(Def[t].parts)
         /\ \A m \in 1 .. Len(Def[t].parts) :
              /\ Members(do, t, at)[m] = ToDo(do, Def[t].parts[m], at \o <<m>>)
              /\ Def[t].parts[m] \in Types
<1>1. /\ DOMAIN Def[t].parts = 1 .. Len(Def[t].parts) /\ Len(Def[t].parts) \in Nat
      /\ \A m \in 1 .. Len(Def[t].parts) : Def[t].parts[m] \in Types
  BY DefTyped
<1>2. ASSUME NEW m \in 1 .. Len(Def[t].parts)
      PROVE  ToDo(do, Def[t].parts[m], at \o <<m>>) \in GoodTask
  <2>1. at \o <<m>> \in Seq(Nat) /\ at \o <<m>> # <<>> OBVIOUS
  <2> QED BY <1>1, <2>1, ToDoGood
<1>3. Members(do, t, at) = [m \in 1 .. Len(Def[t].parts) |-> ToDo(do, Def[t].parts[m], at \o <<m>>)]
  BY <1>1 DEF Members
<1> QED BY <1>1, <1>2, <1>3

LEMMA FirstKnown ==
  ASSUME Typed, agenda # <<>>
  PROVE  /\ First \in GoodTask /\ First.do \in Calls /\ First.type \in Types
         /\ First.at \in Seq(Nat) /\ First.at # <<>> /\ First.at[1] \in Nat
         /\ Rest \in Seq(GoodTask) /\ Len(agenda) \in Nat /\ Len(agenda) = Len(Rest) + 1
         /\ \A i \in 1 .. Len(Rest) : Rest[i] = agenda[i + 1]
         /\ variables # <<>> /\ Len(variables) \in Nat /\ Len(variables) \in DOMAIN variables
<1>1. agenda \in Seq(GoodTask) /\ variables \in Seq(Variable) /\ variables # <<>> BY DEF Typed, StorageOK
<1>2. /\ First \in GoodTask /\ Rest \in Seq(GoodTask) /\ Len(agenda) \in Nat
      /\ Len(agenda) = Len(Rest) + 1 /\ \A i \in 1 .. Len(Rest) : Rest[i] = agenda[i + 1]
  BY <1>1 DEF First, Rest
<1>3. First.do \in Calls /\ First.type \in Types /\ First.at \in Seq(Nat) /\ First.at # <<>>
  BY <1>2 DEF GoodTask, Task
<1>4. First.at[1] \in Nat BY <1>3
<1>5. Len(variables) \in Nat /\ Len(variables) \in DOMAIN variables BY <1>1
<1> QED BY <1>1, <1>2, <1>3, <1>4, <1>5

LEMMA NumElemTyped ==
  ASSUME Typed, NEW t \in Types
  PROVE  NumElem(t) \in Nat
<1>1. count \in Nat BY CountsAssumption DEF Typed, StorageOK
<1> QED BY <1>1, DefTyped DEF NumElem

-----------------------------------------------------------------------------
(* The places for pointers in a value. *)

LEMMA LowestNumber ==
  ASSUME NEW S, S \subseteq Nat, S # {}
  PROVE  \E n \in S : \A m \in S : n <= m
<1>1. PICK n \in S : \A m \in S : ~(<<m, n>> \in OpToRel(<, Nat)) BY NatLessThanWellFounded, WFMin
<1>2. ASSUME NEW m \in S PROVE n <= m
  <2>1. <<m, n>> \in Nat \X Nat OBVIOUS
  <2>2. <<m, n>> \in OpToRel(<, Nat) <=> m < n BY <2>1 DEF OpToRel
  <2>3. ~(m < n) BY <1>1, <2>2, Zenon
  <2>4. m \in Nat /\ n \in Nat OBVIOUS
  <2> QED BY <2>3, <2>4
<1> QED BY <1>2

LEMMA DepthTyped ==
  /\ \A t \in Types : Depth[t] \in Nat
  /\ \E n \in Nat : \A t \in Types : Depth[t] < n
<1>1. Cardinality(Types) \in Nat BY DepthAssumption, FS_CardinalityType
<1>2. \A t \in Types : Depth[t] \in 0 .. Cardinality(Types) BY DepthAssumption
<1>3. \A t \in Types : Depth[t] \in Nat /\ Depth[t] < Cardinality(Types) + 1 BY <1>1, <1>2
<1> QED BY <1>1, <1>3

LEMMA PlacesAgree ==
  ASSUME NEW t \in Types, NEW f, NEW g,
         \A u \in Types : Depth[u] < Depth[t] => f[u] = g[u]
  PROVE  PlacesOf(t, f) = PlacesOf(t, g)
<1>1. \A m \in DOMAIN Def[t].parts : f[Def[t].parts[m]] = g[Def[t].parts[m]] BY DefTyped, DepthAssumption
<1>2. CASE ClassOf(t) \in {"vector", "table"} BY <1>2, Zenon DEF PlacesOf
<1>3. CASE ClassOf(t) \notin {"vector", "table"}
  <2>1. /\ PlacesOf(t, f) = UNION {InMember(m, f[Def[t].parts[m]]) : m \in DOMAIN Def[t].parts}
        /\ PlacesOf(t, g) = UNION {InMember(m, g[Def[t].parts[m]]) : m \in DOMAIN Def[t].parts}
    BY <1>3, Zenon DEF PlacesOf
  <2>2. {InMember(m, f[Def[t].parts[m]]) : m \in DOMAIN Def[t].parts}
          = {InMember(m, g[Def[t].parts[m]]) : m \in DOMAIN Def[t].parts}
    BY <1>1
  <2> QED BY <2>1, <2>2
<1> QED BY <1>2, <1>3

LEMMA PlacesDeeper ==
  ASSUME NEW n \in Nat, NEW f, PlacesUpTo(f, n)
  PROVE  \E g : PlacesUpTo(g, n + 1)
<1> DEFINE g == [t \in Types |-> IF Depth[t] = n THEN PlacesOf(t, f) ELSE f[t]]
<1>1. /\ g = [t \in Types |-> g[t]]
      /\ \A t \in Types : g[t] = IF Depth[t] = n THEN PlacesOf(t, f) ELSE f[t]
  OBVIOUS
<1> HIDE DEF g
<1>2. ASSUME NEW t \in Types, Depth[t] < n + 1 PROVE g[t] = PlacesOf(t, g)
  <2>1. Depth[t] \in Nat /\ \A u \in Types : Depth[u] \in Nat BY DepthTyped
  <2>2. Depth[t] <= n /\ \A u \in Types : Depth[u] < Depth[t] => Depth[u] # n BY <1>2, <2>1
  <2>3. PlacesOf(t, f) = PlacesOf(t, g) BY <1>1, <2>2, PlacesAgree
  <2>4. Depth[t] # n => f[t] = PlacesOf(t, f) BY <2>1, <2>2 DEF PlacesUpTo
  <2> QED BY <1>1, <2>3, <2>4
<1>3. PlacesUpTo(g, n + 1) BY <1>1, <1>2, Zenon DEF PlacesUpTo
<1> QED BY <1>3

LEMMA PlacesExist ==
  \E f : f = [t \in Types |-> PlacesOf(t, f)]
<1>1. PICK n \in Nat : \A t \in Types : Depth[t] < n BY DepthTyped
<1> DEFINE S == {k \in Nat : ~\E f : PlacesUpTo(f, k)}
<1>2. S = {}
  <2>1. SUFFICES ASSUME S # {} PROVE FALSE OBVIOUS
  <2>2. PICK k \in S : \A m \in S : k <= m BY <2>1, LowestNumber
  <2>3. k # 0
    <3> DEFINE f == [t \in Types |-> 0]
    <3>1. PlacesUpTo(f, 0) BY DepthTyped DEF PlacesUpTo
    <3> HIDE DEF f
    <3> QED BY <2>2, <3>1
  <2>4. k - 1 \in Nat /\ k - 1 + 1 = k /\ ~(k <= k - 1) BY <2>2, <2>3
  <2>5. k - 1 \notin S BY <2>2, <2>4
  <2>6. PICK f : PlacesUpTo(f, k - 1) BY <2>4, <2>5
  <2>7. \E g : PlacesUpTo(g, k - 1 + 1) BY <2>4, <2>6, PlacesDeeper
  <2> QED BY <2>2, <2>4, <2>7
<1>3. PICK f : PlacesUpTo(f, n) BY <1>2
<1>4. f = [t \in Types |-> PlacesOf(t, f)] BY <1>1, <1>3 DEF PlacesUpTo
<1> QED BY <1>4

LEMMA PlacesAre ==
  ASSUME NEW t \in Types
  PROVE  Places[t] = PlacesOf(t, Places)
<1>1. Places = CHOOSE f : f = [u \in Types |-> PlacesOf(u, f)] BY DEF Places, PlacesOf
<1>2. Places = [u \in Types |-> PlacesOf(u, Places)] BY <1>1, PlacesExist
<1> QED BY <1>2

LEMMA PlacesKinds ==
  ASSUME NEW t \in Types
  PROVE  /\ ClassOf(t) = "vector" => Places[t] = {[path |-> <<>>, type |-> t]}
         /\ ClassOf(t) = "table" =>
              Places[t] = {[path |-> <<f>>, type |-> t] : f \in DOMAIN Def[t].parts}
         /\ ClassOf(t) \notin {"vector", "table"} =>
              Places[t] = UNION {InMember(m, Places[Def[t].parts[m]]) : m \in DOMAIN Def[t].parts}
         /\ ClassOf(t) \in {"primitive", "address"} => Places[t] = {}
<1>1. ClassOf(t) \in {"primitive", "address"} => DOMAIN Def[t].parts = {} BY DefAssumption DEF ClassOf
<1>2. ClassOf(t) = "vector" => Places[t] = {[path |-> <<>>, type |-> t]} BY PlacesAre, Zenon DEF PlacesOf
<1>3. ClassOf(t) = "table" => Places[t] = {[path |-> <<f>>, type |-> t] : f \in DOMAIN Def[t].parts}
  BY PlacesAre DEF PlacesOf
<1>4. ClassOf(t) \notin {"vector", "table"} =>
        Places[t] = UNION {InMember(m, Places[Def[t].parts[m]]) : m \in DOMAIN Def[t].parts}
  BY PlacesAre DEF PlacesOf
<1>5. ASSUME ClassOf(t) \in {"primitive", "address"} PROVE Places[t] = {}
  <2>1. Places[t] = UNION {InMember(m, Places[Def[t].parts[m]]) : m \in DOMAIN Def[t].parts} BY <1>4, <1>5
  <2> QED BY <1>1, <1>5, <2>1
<1> QED BY <1>2, <1>3, <1>4, <1>5

LEMMA PlacesTypedUpTo ==
  ASSUME NEW t \in Types, \A u \in Types : Depth[u] < Depth[t] => Places[u] \subseteq Place
  PROVE  Places[t] \subseteq Place
<1>1. CASE ClassOf(t) = "vector"
  <2>1. [path |-> <<>>, type |-> t] \in Place BY <1>1 DEF Place, Pointers
  <2> QED BY <1>1, <2>1, PlacesKinds
<1>2. CASE ClassOf(t) = "table"
  <2>1. ASSUME NEW f \in DOMAIN Def[t].parts PROVE [path |-> <<f>>, type |-> t] \in Place
    <3>1. t \in Pointers /\ f \in Nat BY <1>2, DefTyped DEF Pointers
    <3> QED BY <3>1 DEF Place
  <2> QED BY <1>2, <2>1, PlacesKinds
<1>3. CASE ClassOf(t) \notin {"vector", "table"}
  <2>1. ASSUME NEW m \in DOMAIN Def[t].parts PROVE InMember(m, Places[Def[t].parts[m]]) \subseteq Place
    <3>1. Places[Def[t].parts[m]] \subseteq Place BY DefTyped, DepthAssumption
    <3>2. m \in Nat BY DefTyped
    <3>3. ASSUME NEW p \in Place PROVE [path |-> <<m>> \o p.path, type |-> p.type] \in Place BY <3>2 DEF Place
    <3> QED BY <3>1, <3>3 DEF InMember
  <2>2. Places[t] = UNION {InMember(m, Places[Def[t].parts[m]]) : m \in DOMAIN Def[t].parts}
    BY <1>3, PlacesKinds
  <2> QED BY <2>1, <2>2
<1> QED BY <1>1, <1>2, <1>3

LEMMA PlacesTyped ==
  \A t \in Types : Places[t] \subseteq Place
<1> DEFINE S == {Depth[t] : t \in {u \in Types : ~(Places[u] \subseteq Place)}}
<1>1. SUFFICES ASSUME S # {} PROVE FALSE OBVIOUS
<1>2. S \subseteq Nat BY DepthTyped
<1>3. PICK n \in S : \A m \in S : n <= m BY <1>1, <1>2, LowestNumber
<1>4. PICK t \in Types : ~(Places[t] \subseteq Place) /\ Depth[t] = n BY <1>3
<1>5. ASSUME NEW u \in Types, Depth[u] < Depth[t] PROVE Places[u] \subseteq Place
  <2>1. Depth[u] \in Nat /\ n \in Nat BY DepthTyped, <1>4
  <2>2. Depth[u] \notin S BY <1>3, <1>4, <1>5, <2>1
  <2> QED BY <2>2
<1> QED BY <1>4, <1>5, PlacesTypedUpTo

(* A table or a vector within a value has a longer path. *)
LEMMA PlacesInMembers ==
  ASSUME NEW t \in Types, ClassOf(t) \notin {"vector", "table"}, NEW p \in Places[t]
  PROVE  \E m \in DOMAIN Def[t].parts : \E q \in Places[Def[t].parts[m]] :
           p = [path |-> <<m>> \o q.path, type |-> q.type]
<1>1. PICK m \in DOMAIN Def[t].parts : p \in InMember(m, Places[Def[t].parts[m]]) BY PlacesKinds
<1> QED BY <1>1 DEF InMember

LEMMA TablePaths ==
  ASSUME NEW t \in Types, NEW p \in Places[t], ClassOf(p.type) = "table"
  PROVE  Len(p.path) > 0
<1>2. CASE ClassOf(t) = "vector" BY <1>2, PlacesKinds
<1>3. CASE ClassOf(t) = "table" BY <1>3, PlacesKinds
<1>4. CASE ClassOf(t) \notin {"vector", "table"}
  <2>1. PICK m \in DOMAIN Def[t].parts : \E q \in Places[Def[t].parts[m]] :
           p = [path |-> <<m>> \o q.path, type |-> q.type]
    BY <1>4, PlacesInMembers
  <2>2. PICK q \in Places[Def[t].parts[m]] : p = [path |-> <<m>> \o q.path, type |-> q.type] BY <2>1
  <2>3. q \in Place /\ m \in Nat BY DefTyped, PlacesTyped
  <2>4. Len(<<m>> \o q.path) = 1 + Len(q.path) /\ Len(q.path) \in Nat BY <2>3 DEF Place
  <2> QED BY <2>2, <2>4
<1> QED BY <1>2, <1>3, <1>4

LEMMA MemberPaths ==
  ASSUME NEW t \in Types, ClassOf(t) \notin {"vector", "table"}, NEW p \in Places[t]
  PROVE  /\ Len(p.path) > 0
         /\ ClassOf(p.type) = "table" => Len(p.path) > 1
<1>1. PICK m \in DOMAIN Def[t].parts : \E q \in Places[Def[t].parts[m]] :
         p = [path |-> <<m>> \o q.path, type |-> q.type]
  BY PlacesInMembers
<1>2. PICK q \in Places[Def[t].parts[m]] : p = [path |-> <<m>> \o q.path, type |-> q.type] BY <1>1
<1>3. q \in Place /\ m \in Nat /\ Def[t].parts[m] \in Types BY DefTyped, PlacesTyped
<1>4. Len(<<m>> \o q.path) = 1 + Len(q.path) /\ Len(q.path) \in Nat BY <1>3 DEF Place
<1>5. ClassOf(q.type) = "table" => Len(q.path) > 0 BY <1>3, TablePaths
<1> QED BY <1>2, <1>4, <1>5

LEMMA SpotsTyped ==
  ASSUME NEW t \in Types, NEW at \in Seq(Nat), at # <<>>, NEW p \in Spots(at, t)
  PROVE  /\ p \in Spot /\ p.at # <<>> /\ p.at[1] = at[1]
         /\ ClassOf(p.type) = "table" => Len(p.at) > Len(at)
         /\ ClassOf(t) = "vector" => p = [at |-> at, type |-> t]
         /\ ClassOf(t) = "table" =>
              p.type = t /\ \E f \in DOMAIN Def[t].parts : p.at = at \o <<f>>
         /\ ClassOf(t) \notin {"vector", "table"} => Len(p.at) > Len(at)
         /\ ClassOf(t) \notin {"vector", "table"} /\ ClassOf(p.type) = "table" =>
              Len(p.at) > Len(at) + 1
         /\ ClassOf(t) \notin {"primitive", "address"}
<1>1. PICK q \in Places[t] : p = [at |-> at \o q.path, type |-> q.type] BY DEF Spots
<1>2. q \in Place /\ q.path \in Seq(Nat) /\ q.type \in Pointers BY PlacesTyped DEF Place
<1>3. /\ at \o q.path \in Seq(Nat) /\ Len(at \o q.path) = Len(at) + Len(q.path)
      /\ Len(at) \in Nat /\ Len(at) > 0 /\ Len(q.path) \in Nat
      /\ (at \o q.path)[1] = at[1] /\ at \o q.path # <<>>
  BY <1>2
<1>4. ClassOf(t) = "vector" => p = [at |-> at, type |-> t]
  <2> SUFFICES ASSUME ClassOf(t) = "vector" PROVE p = [at |-> at, type |-> t]
    OBVIOUS
  <2>1. q = [path |-> <<>>, type |-> t] BY PlacesKinds
  <2>2. at \o <<>> = at OBVIOUS
  <2> QED BY <1>1, <2>1, <2>2
<1>5. ClassOf(t) = "table" => p.type = t /\ \E f \in DOMAIN Def[t].parts : p.at = at \o <<f>>
  <2> SUFFICES ASSUME ClassOf(t) = "table"
               PROVE  p.type = t /\ \E f \in DOMAIN Def[t].parts : p.at = at \o <<f>>
    OBVIOUS
  <2>1. PICK f \in DOMAIN Def[t].parts : q = [path |-> <<f>>, type |-> t] BY PlacesKinds
  <2> QED BY <1>1, <2>1
<1>6. ClassOf(p.type) = "table" => Len(q.path) > 0 BY <1>1, TablePaths
<1>7. ClassOf(t) \notin {"vector", "table"} =>
        Len(q.path) > 0 /\ (ClassOf(p.type) = "table" => Len(q.path) > 1)
  BY <1>1, MemberPaths
<1>8. ClassOf(t) \notin {"primitive", "address"} BY PlacesKinds
<1>9. p.at = at \o q.path /\ p \in Spot BY <1>1, <1>2, <1>3 DEF Spot
<1>10. /\ ClassOf(p.type) = "table" => Len(p.at) > Len(at)
       /\ ClassOf(t) \notin {"vector", "table"} => Len(p.at) > Len(at)
       /\ ClassOf(t) \notin {"vector", "table"} /\ ClassOf(p.type) = "table" => Len(p.at) > Len(at) + 1
  BY <1>3, <1>6, <1>7, <1>9
<1> QED BY <1>3, <1>4, <1>5, <1>8, <1>9, <1>10

LEMMA SpotsOfMember ==
  ASSUME NEW t \in Types, ClassOf(t) \notin {"vector", "table"}, NEW at \in Seq(Nat), NEW p \in Spots(at, t)
  PROVE  \E m \in DOMAIN Def[t].parts : p \in Spots(at \o <<m>>, Def[t].parts[m])
<1>1. PICK q \in Places[t] : p = [at |-> at \o q.path, type |-> q.type] BY DEF Spots
<1>2. PICK m \in DOMAIN Def[t].parts : \E u \in Places[Def[t].parts[m]] :
         q = [path |-> <<m>> \o u.path, type |-> u.type]
  BY PlacesInMembers
<1>3. PICK u \in Places[Def[t].parts[m]] : q = [path |-> <<m>> \o u.path, type |-> u.type] BY <1>2
<1>4. u.path \in Seq(Nat) /\ <<m>> \in Seq(Nat) BY DefTyped, PlacesTyped DEF Place
<1> DEFINE m1 == <<m>>
           path == u.path
<1>5. at \in Seq(Nat) /\ m1 \in Seq(Nat) /\ path \in Seq(Nat) BY <1>4
<1> HIDE DEF m1, path
<1>6. (at \o m1) \o path = at \o (m1 \o path) BY <1>5, PathsAssociate
<1> USE DEF m1, path
<1>7. p = [at |-> (at \o <<m>>) \o u.path, type |-> u.type] BY <1>1, <1>3, <1>6
<1> QED BY <1>7 DEF Spots

LEMMA PlacesInAt ==
  ASSUME NEW r
  PROVE  PlacesIn(r) = PlacesAt(r, regions[r].role, regions[r].type, regions[r].len)
BY DEF PlacesIn, PlacesAt, Spots

LEMMA PlacesInPrimed ==
  ASSUME NEW r
  PROVE  PlacesIn(r)' = PlacesAt(r, regions'[r].role, regions'[r].type, regions'[r].len)
BY DEF PlacesIn, PlacesAt, Spots

LEMMA PlacesAtTyped ==
  ASSUME NEW r \in Nat, NEW role, NEW t \in Types, NEW n \in Nat, NEW p \in PlacesAt(r, role, t, n)
  PROVE  p \in Spot /\ p.at # <<>> /\ p.at[1] = r
<1>1. CASE role = "base"
  <2> DEFINE at == <<r>>
  <2>1. p \in Spots(at, t) BY <1>1 DEF PlacesAt
  <2>2. at \in Seq(Nat) /\ at # <<>> /\ at[1] = r OBVIOUS
  <2> HIDE DEF at
  <2>3. p \in Spot /\ p.at # <<>> /\ p.at[1] = at[1] BY <2>1, <2>2, SpotsTyped
  <2> QED BY <2>2, <2>3
<1>2. CASE role = "array" /\ ClassOf(t) # "table"
  <2>0. PICK i \in 1 .. n : p \in Spots(<<r, i>>, t) BY <1>2 DEF PlacesAt
  <2> DEFINE at == <<r, i>>
  <2>1. p \in Spots(at, t) BY <2>0
  <2>2. at \in Seq(Nat) /\ at # <<>> /\ at[1] = r OBVIOUS
  <2> HIDE DEF at
  <2>3. p \in Spot /\ p.at # <<>> /\ p.at[1] = at[1] BY <2>1, <2>2, SpotsTyped
  <2> QED BY <2>2, <2>3
<1> QED BY <1>1, <1>2 DEF PlacesAt

LEMMA PlacesInTyped ==
  ASSUME Typed, NEW r \in DOMAIN regions, NEW p \in PlacesIn(r)
  PROVE  p \in Spot /\ p.at # <<>> /\ p.at[1] = r
<1>1. r \in Nat /\ regions[r].type \in Types /\ regions[r].len \in Nat
  <2>1. regions \in Seq(Region) BY DEF Typed, StorageOK
  <2>2. r \in Nat /\ regions[r] \in Region BY <2>1
  <2> QED BY <2>2 DEF Region
<1>2. p \in PlacesAt(r, regions[r].role, regions[r].type, regions[r].len) BY PlacesInAt, Zenon
<1> QED BY <1>1, <1>2, PlacesAtTyped

-----------------------------------------------------------------------------
(* The types within a type, along a relation between a type and some of its parts. *)

LEMMA ReachDeeper ==
  ASSUME NEW of, Deepens(of), NEW n \in Nat, NEW f, ReachUpTo(of, f, n)
  PROVE  \E g : ReachUpTo(of, g, n + 1)
<1> DEFINE g == [t \in Types |-> IF Depth[t] = n THEN ReachOf(t, of, f) ELSE f[t]]
<1>1. /\ g = [t \in Types |-> g[t]]
      /\ \A t \in Types : g[t] = IF Depth[t] = n THEN ReachOf(t, of, f) ELSE f[t]
  OBVIOUS
<1> HIDE DEF g
<1>2. ASSUME NEW t \in Types, Depth[t] < n + 1 PROVE g[t] = ReachOf(t, of, g)
  <2>1. Depth[t] \in Nat /\ \A u \in Types : Depth[u] \in Nat BY DepthTyped
  <2>2. Depth[t] <= n /\ \A u \in Types : Depth[u] < Depth[t] => Depth[u] # n BY <1>2, <2>1
  <2>3. \A u \in of[t] : g[u] = f[u] BY <1>1, <2>2 DEF Deepens
  <2>4. {f[u] : u \in of[t]} = {g[u] : u \in of[t]} BY <2>3
  <2>5. ReachOf(t, of, f) = ReachOf(t, of, g) BY <2>4, Zenon DEF ReachOf
  <2>6. Depth[t] # n => f[t] = ReachOf(t, of, f) BY <2>1, <2>2 DEF ReachUpTo
  <2> QED BY <1>1, <2>5, <2>6
<1>3. ReachUpTo(of, g, n + 1) BY <1>1, <1>2, Zenon DEF ReachUpTo
<1> QED BY <1>3

LEMMA ReachExists ==
  ASSUME NEW of, Deepens(of)
  PROVE  \E f : f = [t \in Types |-> ReachOf(t, of, f)]
<1>1. PICK n \in Nat : \A t \in Types : Depth[t] < n BY DepthTyped
<1> DEFINE S == {k \in Nat : ~\E f : ReachUpTo(of, f, k)}
<1>2. S = {}
  <2>1. SUFFICES ASSUME S # {} PROVE FALSE OBVIOUS
  <2>2. PICK k \in S : \A m \in S : k <= m BY <2>1, LowestNumber
  <2>3. k # 0
    <3> DEFINE f == [t \in Types |-> 0]
    <3>1. ReachUpTo(of, f, 0) BY DepthTyped DEF ReachUpTo
    <3> HIDE DEF f
    <3> QED BY <2>2, <3>1
  <2>4. k - 1 \in Nat /\ k - 1 + 1 = k /\ ~(k <= k - 1) BY <2>2, <2>3
  <2>5. k - 1 \notin S BY <2>2, <2>4
  <2>6. PICK f : ReachUpTo(of, f, k - 1) BY <2>4, <2>5
  <2>7. \E g : ReachUpTo(of, g, k - 1 + 1) BY <2>4, <2>6, ReachDeeper
  <2> QED BY <2>2, <2>4, <2>7
<1>3. PICK f : ReachUpTo(of, f, n) BY <1>2
<1>4. f = [t \in Types |-> ReachOf(t, of, f)] BY <1>1, <1>3 DEF ReachUpTo
<1> QED BY <1>4

LEMMA ReachingIs ==
  ASSUME NEW of, Deepens(of), NEW t \in Types
  PROVE  \A u : u \in Reaching(of)[t] <=> u = t \/ \E s \in of[t] : u \in Reaching(of)[s]
<1> DEFINE all == Reaching(of)
<1>1. all = CHOOSE f : f = [u \in Types |-> ReachOf(u, of, f)] BY DEF Reaching, ReachOf
<1> HIDE DEF all
<1>2. all = [u \in Types |-> ReachOf(u, of, all)] BY <1>1, ReachExists
<1>3. all[t] = ReachOf(t, of, all) BY <1>2
<1>4. all[t] = {t} \cup UNION {all[s] : s \in of[t]} BY <1>3 DEF ReachOf
<1>5. \A u : u \in all[t] <=> u = t \/ \E s \in of[t] : u \in all[s] BY <1>4
<1> QED BY <1>5 DEF all

(* A type that is nested least among those that are not as claimed. *)
LEMMA LeastNested ==
  ASSUME NEW S, S \subseteq Types, S # {}
  PROVE  \E t \in S : \A u \in Types : Depth[u] < Depth[t] => u \notin S
<1> DEFINE N == {Depth[t] : t \in S}
<1>1. N \subseteq Nat /\ N # {} BY DepthTyped
<1>2. PICK n \in N : \A m \in N : n <= m BY <1>1, LowestNumber
<1>3. PICK t \in S : Depth[t] = n BY <1>2
<1>4. ASSUME NEW u \in Types, Depth[u] < Depth[t] PROVE u \notin S
  <2>1. Depth[u] \in Nat /\ n \in Nat BY DepthTyped, <1>3
  <2>2. Depth[u] \notin N BY <1>2, <1>3, <1>4, <2>1
  <2> QED BY <2>2
<1> QED BY <1>3, <1>4

(* What is reached from a type of a closed set is in the set. *)
LEMMA ReachingStays ==
  ASSUME NEW of, Deepens(of), NEW S, S \subseteq Types, \A t \in S : of[t] \subseteq S
  PROVE  \A t \in S : Reaching(of)[t] \subseteq S
<1> DEFINE T == {t \in S : ~(Reaching(of)[t] \subseteq S)}
<1>1. SUFFICES ASSUME T # {} PROVE FALSE OBVIOUS
<1>2. PICK t \in T : \A u \in Types : Depth[u] < Depth[t] => u \notin T BY <1>1, LeastNested
<1>3. ASSUME NEW s \in of[t] PROVE Reaching(of)[s] \subseteq S BY <1>2 DEF Deepens
<1>4. Reaching(of)[t] \subseteq S BY <1>2, <1>3, ReachingIs
<1> QED BY <1>2, <1>4

LEMMA ReachingClosed ==
  ASSUME NEW of, Deepens(of)
  PROVE  \A t \in Types : \A u \in Reaching(of)[t] : u \in Types /\ of[u] \subseteq Reaching(of)[t]
<1> DEFINE T == {t \in Types : ~(\A u \in Reaching(of)[t] : u \in Types /\ of[u] \subseteq Reaching(of)[t])}
<1>1. SUFFICES ASSUME T # {} PROVE FALSE OBVIOUS
<1>2. PICK t \in T : \A u \in Types : Depth[u] < Depth[t] => u \notin T BY <1>1, LeastNested
<1>3. ASSUME NEW s \in of[t], NEW u \in Reaching(of)[s]
      PROVE  u \in Types /\ of[u] \subseteq Reaching(of)[s]
  BY <1>2 DEF Deepens
<1>4. ASSUME NEW s \in Types PROVE s \in Reaching(of)[s] BY ReachingIs
<1>5. ASSUME NEW u \in Reaching(of)[t] PROVE u \in Types /\ of[u] \subseteq Reaching(of)[t]
  <2>1. CASE u = t
    <3>1. ASSUME NEW s \in of[t] PROVE s \in Reaching(of)[t]
      <4>1. s \in Types BY <1>2 DEF Deepens
      <4> QED BY <1>2, <1>4, <4>1, ReachingIs
    <3> QED BY <1>2, <2>1, <3>1
  <2>2. CASE \E s \in of[t] : u \in Reaching(of)[s]
    <3>1. PICK s \in of[t] : u \in Reaching(of)[s] BY <2>2
    <3>2. u \in Types /\ of[u] \subseteq Reaching(of)[s] BY <1>3, <3>1
    <3>3. Reaching(of)[s] \subseteq Reaching(of)[t] BY <1>2, <3>1, ReachingIs
    <3> QED BY <3>2, <3>3
  <2> QED BY <1>2, <2>1, <2>2, ReachingIs
<1> QED BY <1>2, <1>5

LEMMA PartsDeepen ==
  Deepens([t \in Types |-> Reached(t)]) /\ Deepens([t \in Types |-> PartsOf(t)])
<1>1. ASSUME NEW t \in Types, NEW u \in PartsOf(t) PROVE u \in Types /\ Depth[u] < Depth[t]
  BY DefTyped, DepthAssumption DEF PartsOf
<1>2. \A t \in Types : Reached(t) \subseteq PartsOf(t) BY DEF Reached
<1>3. Deepens([t \in Types |-> Reached(t)]) BY <1>1, <1>2 DEF Deepens
<1>4. Deepens([t \in Types |-> PartsOf(t)]) BY <1>1 DEF Deepens
<1> QED BY <1>3, <1>4

(* The types outside of tables, and all types, that are within a type. *)
LEMMA OutsideIs ==
  ASSUME NEW t \in Types
  PROVE  /\ t \in OutsideTables[t] /\ OutsideTables[t] \subseteq Types
         /\ \A u : u \in OutsideTables[t] <=> u = t \/ \E s \in Reached(t) : u \in OutsideTables[s]
         /\ \A u \in OutsideTables[t] : Reached(u) \subseteq OutsideTables[t]
         /\ t \in Literal => OutsideTables[t] \subseteq Literal
<1> DEFINE of == [u \in Types |-> Reached(u)]
<1>1. Deepens(of) /\ OutsideTables = Reaching(of) /\ \A u \in Types : of[u] = Reached(u)
  BY PartsDeepen DEF OutsideTables
<1> HIDE DEF of
<1>2. /\ \A u : u \in OutsideTables[t] <=> u = t \/ \E s \in Reached(t) : u \in OutsideTables[s]
      /\ \A u \in OutsideTables[t] : u \in Types /\ of[u] \subseteq OutsideTables[t]
  BY <1>1, ReachingIs, ReachingClosed
<1>3. ASSUME NEW u \in Literal PROVE of[u] \subseteq Literal
  <2>1. u \in Types /\ of[u] = Reached(u) BY <1>1, LiteralAssumption
  <2>2. \A s \in PartsOf(u) : s \in Literal BY LiteralAssumption DEF PartsOf
  <2> QED BY <2>1, <2>2 DEF Reached
<1>4. t \in Literal => OutsideTables[t] \subseteq Literal BY <1>1, <1>3, LiteralAssumption, ReachingStays
<1> QED BY <1>1, <1>2, <1>4

(* Nothing is reached from a type that is neither a vector nor a collection. *)
LEMMA OutsideLeaf ==
  ASSUME NEW t \in Types, ClassOf(t) \notin {"vector", "collection"}
  PROVE  OutsideTables[t] = {t} /\ Reached(t) = {}
<1>1. ClassOf(t) \in {"primitive", "address", "table"} BY DefTyped DEF ClassOf, Classes
<1>2. Reached(t) = {}
  <2>1. CASE ClassOf(t) = "table" BY <2>1 DEF Reached
  <2>2. CASE ClassOf(t) \in {"primitive", "address"}
    <3>1. DOMAIN Def[t].parts = {} BY <2>2, DefAssumption DEF ClassOf
    <3> QED BY <3>1 DEF Reached, PartsOf
  <2> QED BY <1>1, <2>1, <2>2
<1> QED BY <1>2, OutsideIs

LEMMA PartReached ==
  ASSUME NEW t \in Types, ClassOf(t) # "table", NEW m \in DOMAIN Def[t].parts
  PROVE  Def[t].parts[m] \in Reached(t) /\ Def[t].parts[m] \in OutsideTables[t]
<1>1. Def[t].parts[m] \in Reached(t) BY DEF Reached, PartsOf
<1> QED BY <1>1, OutsideIs

LEMMA ElementIsPart ==
  ASSUME NEW t \in Types, ClassOf(t) = "vector"
  PROVE  /\ Reached(t) = {ElementOf(t)} /\ ElementOf(t) \in Types
         /\ ElementOf(t) \in OutsideTables[t]
<1>1. DOMAIN Def[t].parts = {1} BY DefTyped, DefAssumption DEF ClassOf
<1>2. Reached(t) = {ElementOf(t)} BY <1>1 DEF Reached, PartsOf, ElementOf
<1> QED BY <1>2, OutsideIs

(* The places within a value belong to types that are within its type. *)
LEMMA PlacesTypes ==
  \A t \in Types : \A p \in Places[t] : p.type \in OutsideTables[t]
<1> DEFINE T == {t \in Types : ~(\A p \in Places[t] : p.type \in OutsideTables[t])}
<1>1. SUFFICES ASSUME T # {} PROVE FALSE OBVIOUS
<1>2. PICK t \in T : \A u \in Types : Depth[u] < Depth[t] => u \notin T BY <1>1, LeastNested
<1>3. ASSUME NEW p \in Places[t] PROVE p.type \in OutsideTables[t]
  <2>1. CASE ClassOf(t) \in {"vector", "table"}
    <3>1. p.type = t BY <2>1, PlacesKinds
    <3> QED BY <3>1, OutsideIs
  <2>2. CASE ClassOf(t) \notin {"vector", "table"}
    <3>1. PICK m \in DOMAIN Def[t].parts : \E q \in Places[Def[t].parts[m]] :
             p = [path |-> <<m>> \o q.path, type |-> q.type]
      BY <2>2, PlacesInMembers
    <3>2. PICK q \in Places[Def[t].parts[m]] : p.type = q.type BY <3>1
    <3>3. /\ Def[t].parts[m] \in Types /\ Depth[Def[t].parts[m]] < Depth[t]
          /\ Def[t].parts[m] \in Reached(t)
      BY <2>2, DefTyped, DepthAssumption, PartReached
    <3>4. q.type \in OutsideTables[Def[t].parts[m]] BY <1>2, <3>2, <3>3
    <3> QED BY <3>2, <3>3, <3>4, OutsideIs
  <2> QED BY <2>1, <2>2
<1> QED BY <1>2, <1>3

(* Where spots are. *)
LEMMA SpotPrefix ==
  ASSUME NEW t \in Types, NEW at \in Seq(Nat), NEW p \in Spots(at, t)
  PROVE  /\ p.at \in Seq(Nat) /\ Len(p.at) >= Len(at) /\ \A k \in 1 .. Len(at) : p.at[k] = at[k]
         /\ p.type \in OutsideTables[t]
<1>1. PICK q \in Places[t] : p = [at |-> at \o q.path, type |-> q.type] BY DEF Spots
<1>2. q.path \in Seq(Nat) /\ q.type \in OutsideTables[t] BY PlacesTyped, PlacesTypes DEF Place
<1>3. p.at = at \o q.path /\ p.type = q.type BY <1>1
<1> QED BY <1>2, <1>3

LEMMA VectorSpots ==
  ASSUME NEW t \in Types, ClassOf(t) = "vector", NEW at \in Seq(Nat)
  PROVE  Spots(at, t) = {[at |-> at, type |-> t]}
<1>1. at \o <<>> = at OBVIOUS
<1>2. Places[t] = {[path |-> <<>>, type |-> t]} BY PlacesKinds
<1>3. Spots(at, t) = {[at |-> at \o <<>>, type |-> t]} BY <1>2 DEF Spots
<1> QED BY <1>1, <1>3

LEMMA TableSpots ==
  ASSUME NEW t \in Types, ClassOf(t) = "table", NEW at, NEW f \in DOMAIN Def[t].parts
  PROVE  [at |-> at \o <<f>>, type |-> t] \in Spots(at, t)
<1> DEFINE q == [path |-> <<f>>, type |-> t]
<1>1. q \in Places[t] BY PlacesKinds
<1>2. q.path = <<f>> /\ q.type = t OBVIOUS
<1> HIDE DEF q
<1>3. [at |-> at \o q.path, type |-> q.type] \in Spots(at, t) BY <1>1, Zenon DEF Spots
<1> QED BY <1>2, <1>3

LEMMA MemberSpots ==
  ASSUME NEW t \in Types, ClassOf(t) \notin {"vector", "table"}, NEW at \in Seq(Nat),
         NEW m \in DOMAIN Def[t].parts, NEW p \in Spots(at \o <<m>>, Def[t].parts[m])
  PROVE  p \in Spots(at, t)
<1>1. PICK u \in Places[Def[t].parts[m]] : p = [at |-> (at \o <<m>>) \o u.path, type |-> u.type] BY DEF Spots
<1>2. u.path \in Seq(Nat) /\ m \in Nat BY DefTyped, PlacesTyped DEF Place
<1> DEFINE m1 == <<m>>
           path == u.path
<1>3. at \in Seq(Nat) /\ m1 \in Seq(Nat) /\ path \in Seq(Nat) BY <1>2
<1> HIDE DEF m1, path
<1>4. (at \o m1) \o path = at \o (m1 \o path) BY <1>3, PathsAssociate
<1> USE DEF m1, path
<1>5. p = [at |-> at \o (<<m>> \o u.path), type |-> u.type] BY <1>1, <1>4
<1>6. Places[t] = UNION {InMember(k, Places[Def[t].parts[k]]) : k \in DOMAIN Def[t].parts} BY PlacesKinds
<1> DEFINE q == [path |-> <<m>> \o u.path, type |-> u.type]
<1>7. q \in InMember(m, Places[Def[t].parts[m]]) BY DEF InMember
<1>8. q \in Places[t] BY <1>6, <1>7
<1>9. p = [at |-> at \o q.path, type |-> q.type] BY <1>5
<1> HIDE DEF q
<1> QED BY <1>8, <1>9, Zenon DEF Spots

LEMMA HeadOf ==
  ASSUME NEW x \in Nat, NEW c \in Seq(Nat), NEW e \in Seq(Nat), e = <<x>> \o c
  PROVE  /\ Len(e) = Len(c) + 1 /\ Len(c) \in Nat /\ e[1] = x
         /\ \A i \in 1 .. Len(c) : e[i + 1] = c[i]
<1>1. Len(e) = Len(c) + 1 /\ Len(c) \in Nat /\ e[1] = x OBVIOUS
<1>2. \A i \in 1 .. Len(c) : e[i + 1] = c[i] OBVIOUS
<1> QED BY <1>1, <1>2

LEMMA HeadAndRest ==
  ASSUME NEW x \in Nat, NEW y \in Nat, NEW c \in Seq(Nat), NEW d \in Seq(Nat),
         NEW e \in Seq(Nat), e = <<x>> \o c, e = <<y>> \o d
  PROVE  x = y /\ c = d
<1>1. /\ Len(e) = Len(c) + 1 /\ Len(c) \in Nat /\ e[1] = x
      /\ \A i \in 1 .. Len(c) : e[i + 1] = c[i]
  BY HeadOf
<1>2. /\ Len(e) = Len(d) + 1 /\ Len(d) \in Nat /\ e[1] = y
      /\ \A i \in 1 .. Len(d) : e[i + 1] = d[i]
  BY HeadOf
<1>3. x = y /\ Len(c) = Len(d) BY <1>1, <1>2
<1>4. \A i \in 1 .. Len(c) : c[i] = d[i] BY <1>1, <1>2, <1>3
<1> QED BY <1>3, <1>4, SeqEqual

(* At one place there is one pointer. *)
LEMMA SamePlace ==
  \A t \in Types : \A p, q \in Places[t] : p.path = q.path => p.type = q.type
<1> DEFINE T == {t \in Types : ~(\A p, q \in Places[t] : p.path = q.path => p.type = q.type)}
<1>1. SUFFICES ASSUME T # {} PROVE FALSE OBVIOUS
<1>2. PICK t \in T : \A u \in Types : Depth[u] < Depth[t] => u \notin T BY <1>1, LeastNested
<1>3. ASSUME NEW p \in Places[t], NEW q \in Places[t], p.path = q.path PROVE p.type = q.type
  <2>1. CASE ClassOf(t) \in {"vector", "table"} BY <2>1, PlacesKinds
  <2>2. CASE ClassOf(t) \notin {"vector", "table"}
    <3>1. PICK m \in DOMAIN Def[t].parts : \E u \in Places[Def[t].parts[m]] :
             p = [path |-> <<m>> \o u.path, type |-> u.type]
      BY <2>2, PlacesInMembers
    <3>2. PICK u \in Places[Def[t].parts[m]] : p = [path |-> <<m>> \o u.path, type |-> u.type] BY <3>1
    <3>3. PICK k \in DOMAIN Def[t].parts : \E w \in Places[Def[t].parts[k]] :
             q = [path |-> <<k>> \o w.path, type |-> w.type]
      BY <2>2, PlacesInMembers
    <3>4. PICK w \in Places[Def[t].parts[k]] : q = [path |-> <<k>> \o w.path, type |-> w.type] BY <3>3
    <3>5. /\ Def[t].parts[m] \in Types /\ Depth[Def[t].parts[m]] < Depth[t] /\ m \in Nat
          /\ Def[t].parts[k] \in Types /\ k \in Nat
      BY DefTyped, DepthAssumption
    <3>6. u.path \in Seq(Nat) /\ w.path \in Seq(Nat) BY <3>5, PlacesTyped DEF Place
    <3>7. <<m>> \o u.path = <<k>> \o w.path BY <1>3, <3>2, <3>4
    <3>8. m = k /\ u.path = w.path
      <4>1. PICK a : a = u.path OBVIOUS
      <4>2. PICK b : b = w.path OBVIOUS
      <4>3. a \in Seq(Nat) /\ b \in Seq(Nat) /\ <<m>> \o a = <<k>> \o b BY <3>6, <3>7, <4>1, <4>2
      <4>5. m \in Nat /\ k \in Nat /\ a \in Seq(Nat) /\ b \in Seq(Nat) BY <3>5, <4>3
      <4>6. PICK e : e = <<m>> \o a OBVIOUS
      <4>7. e \in Seq(Nat) /\ e = <<k>> \o b BY <4>3, <4>5, <4>6
      <4>4. m = k /\ a = b BY <4>5, <4>6, <4>7, HeadAndRest
      <4> QED BY <4>1, <4>2, <4>4
    <3>9. u.type = w.type BY <1>2, <3>5, <3>8
    <3> QED BY <3>2, <3>4, <3>9
  <2> QED BY <2>1, <2>2
<1> QED BY <1>2, <1>3

LEMMA SameSpot ==
  ASSUME NEW t \in Types, NEW at \in Seq(Nat), NEW p \in Spots(at, t), NEW q \in Spots(at, t),
         p.at = q.at
  PROVE  p = q
<1>1. PICK u \in Places[t] : p = [at |-> at \o u.path, type |-> u.type] BY DEF Spots
<1>2. PICK w \in Places[t] : q = [at |-> at \o w.path, type |-> w.type] BY DEF Spots
<1>3. u.path \in Seq(Nat) /\ w.path \in Seq(Nat) BY PlacesTyped DEF Place
<1>4. PICK a : a = u.path OBVIOUS
<1>5. PICK b : b = w.path OBVIOUS
<1>6. a \in Seq(Nat) /\ b \in Seq(Nat) /\ at \o a = at \o b BY <1>1, <1>2, <1>3, <1>4, <1>5
<1>7. a = b
  <2>1. /\ Len(a) \in Nat /\ Len(b) \in Nat /\ Len(at) \in Nat
        /\ Len(at \o a) = Len(at) + Len(a) /\ Len(at \o b) = Len(at) + Len(b)
    BY <1>6
  <2>2. Len(a) = Len(b) BY <1>6, <2>1
  <2>3. ASSUME NEW i \in 1 .. Len(a) PROVE a[i] = b[i]
    <3>1. (at \o a)[Len(at) + i] = a[i] BY <1>6
    <3>2. (at \o b)[Len(at) + i] = b[i] BY <1>6, <2>2
    <3> QED BY <1>6, <3>1, <3>2
  <2> QED BY <1>6, <2>2, <2>3, SeqEqual
<1>8. u.type = w.type
  <2>1. u.path = w.path /\ u \in Places[t] /\ w \in Places[t] /\ t \in Types BY <1>4, <1>5, <1>7
  <2> QED BY <2>1, SamePlace, Zenon
<1> QED BY <1>1, <1>2, <1>4, <1>5, <1>7, <1>8

(* The places in a region are distinct. *)
LEMMA SamePlaceAt ==
  ASSUME NEW r \in Nat, NEW role, NEW t \in Types, NEW n \in Nat,
         NEW p \in PlacesAt(r, role, t, n), NEW q \in PlacesAt(r, role, t, n), p.at = q.at
  PROVE  p = q
<1>1. CASE role = "base"
  <2> DEFINE at == <<r>>
  <2>1. at \in Seq(Nat) /\ p \in Spots(at, t) /\ q \in Spots(at, t) BY <1>1 DEF PlacesAt
  <2> HIDE DEF at
  <2> QED BY <2>1, SameSpot
<1>2. CASE role = "array" /\ ClassOf(t) # "table"
  <2>1. PICK i \in 1 .. n : p \in Spots(<<r, i>>, t) BY <1>2 DEF PlacesAt
  <2>2. PICK j \in 1 .. n : q \in Spots(<<r, j>>, t) BY <1>2 DEF PlacesAt
  <2>3. <<r, i>> \in Seq(Nat) /\ Len(<<r, i>>) = 2 /\ <<r, i>>[2] = i OBVIOUS
  <2>4. <<r, j>> \in Seq(Nat) /\ Len(<<r, j>>) = 2 /\ <<r, j>>[2] = j OBVIOUS
  <2>5. PICK a : a = <<r, i>> OBVIOUS
  <2>6. PICK b : b = <<r, j>> OBVIOUS
  <2>7. p.at[2] = i
    <3>1. a \in Seq(Nat) /\ Len(a) = 2 /\ a[2] = i /\ p \in Spots(a, t) BY <2>1, <2>3, <2>5
    <3>2. \A k \in 1 .. Len(a) : p.at[k] = a[k] BY <3>1, SpotPrefix
    <3> QED BY <3>1, <3>2
  <2>8. q.at[2] = j
    <3>1. b \in Seq(Nat) /\ Len(b) = 2 /\ b[2] = j /\ q \in Spots(b, t) BY <2>2, <2>4, <2>6
    <3>2. \A k \in 1 .. Len(b) : q.at[k] = b[k] BY <3>1, SpotPrefix
    <3> QED BY <3>1, <3>2
  <2>9. i = j BY <2>7, <2>8
  <2>10. a \in Seq(Nat) /\ p \in Spots(a, t) /\ q \in Spots(a, t) BY <2>1, <2>2, <2>3, <2>5, <2>9
  <2> QED BY <2>10, SameSpot
<1> QED BY <1>1, <1>2 DEF PlacesAt

LEMMA SamePlaceIn ==
  ASSUME Typed, NEW r \in DOMAIN regions, NEW p \in PlacesIn(r), NEW q \in PlacesIn(r), p.at = q.at
  PROVE  p = q
<1>1. r \in Nat /\ regions[r].type \in Types /\ regions[r].len \in Nat
  <2>1. regions \in Seq(Region) BY DEF Typed, StorageOK
  <2>2. r \in Nat /\ regions[r] \in Region BY <2>1
  <2> QED BY <2>2 DEF Region
<1>2. /\ p \in PlacesAt(r, regions[r].role, regions[r].type, regions[r].len)
      /\ q \in PlacesAt(r, regions[r].role, regions[r].type, regions[r].len)
  BY PlacesInAt, Zenon
<1> QED BY <1>1, <1>2, SamePlaceAt

-----------------------------------------------------------------------------
(* The inductive invariant. *)

(* The invariant holds what is promised. *)
LEMMA InvSuffices == Inv /\ shared = {} => StorageOK /\ EachItsOwnArray
<1> SUFFICES ASSUME Inv, shared = {} PROVE StorageOK /\ EachItsOwnArray
  OBVIOUS
<1>1. Typed /\ StorageKnown /\ PlacesSettled /\ StorageOK BY DEF Inv, Typed
<1> DEFINE pointers == UNION {{p.at : p \in {q \in PlacesIn(r) : SeenTo(q, OwnerOf(r).place)}} :
                                r \in {s \in DOMAIN regions : OwnerOf(s).live}}
<1>2. ASSUME Idle PROVE /\ \A at \in pointers :
                             /\ Live(PointsTo(at))
                             /\ regions[PointsTo(at)].role \in {"array", "field"}
                             /\ regions[PointsTo(at)].owner = regions[at[1]].owner
                        /\ \A at, bt \in pointers : PointsTo(at) = PointsTo(bt) => at = bt
  <2>1. status = "ok" /\ \A p : ~Pending(p) BY <1>2 DEF Idle, Pending
  <2>2. \A at \in pointers : \E r \in DOMAIN regions : \E p \in PlacesIn(r) :
           p.at = at /\ SeenIn(p, r) /\ OwnerOf(r).live
    BY <2>1 DEF SeenIn
  <2> HIDE DEF pointers
  <2>3. \A r \in DOMAIN regions : \A p \in PlacesIn(r) :
          SeenIn(p, r) => p.at \in DOMAIN memory /\ Own(p.at)
    BY <1>1, <2>1 DEF PlacesSettled
  <2>4. ASSUME NEW at \in pointers
        PROVE  /\ Live(PointsTo(at)) /\ PointsTo(at) = memory[at]
               /\ regions[PointsTo(at)].role \in {"array", "field"}
               /\ regions[PointsTo(at)].owner = regions[at[1]].owner
    <3>1. PICK r \in DOMAIN regions : \E p \in PlacesIn(r) : p.at = at /\ SeenIn(p, r) /\ OwnerOf(r).live
      BY <2>2
    <3>2. PICK p \in PlacesIn(r) : p.at = at /\ SeenIn(p, r) BY <3>1
    <3>3. at \in DOMAIN memory /\ Own(at) BY <2>3, <3>2
    <3>4. at[1] = r BY <1>1, <3>2, PlacesInTyped
    <3>5. PointsTo(at) = memory[at] /\ memory[at] \in DOMAIN regions BY <1>1, <3>3 DEF PointsTo, StorageOK
    <3>6. OwnerOf(memory[at]).live BY <3>1, <3>3, <3>4 DEF Own, OwnerOf
    <3>7. regions[memory[at]].live /\ regions[memory[at]].role \in {"array", "field"}
      BY <1>1, <3>3, <3>5, <3>6 DEF StorageKnown
    <3> QED BY <3>3, <3>5, <3>7 DEF Live, Own
  <2>5. ASSUME NEW at \in pointers, NEW bt \in pointers, PointsTo(at) = PointsTo(bt)
        PROVE  at = bt
    <3>1. memory[at] = memory[bt] BY <2>4, <2>5
    <3>2. PICK r \in DOMAIN regions : \E p \in PlacesIn(r) : p.at = at /\ SeenIn(p, r) BY <2>2
    <3>3. PICK s \in DOMAIN regions : \E p \in PlacesIn(s) : p.at = bt /\ SeenIn(p, s) BY <2>2
    <3> QED BY <1>1, <2>1, <3>1, <3>2, <3>3 DEF PlacesSettled
  <2> QED BY <2>4, <2>5
<1> QED BY <1>1, <1>2 DEF EachItsOwnArray

-----------------------------------------------------------------------------

LEMMA RegionsGrow ==
  ASSUME Typed, NEW new \in Seq(Region), regions' = regions \o new, variables' = variables,
         \A i \in DOMAIN new : new[i].owner = Len(variables) /\ new[i].live, variables # <<>>
  PROVE  /\ regions' \in Seq(Region) /\ DOMAIN regions \subseteq DOMAIN regions'
         /\ \A r \in DOMAIN regions :
              regions'[r] = regions[r] /\ OwnerOf(r)' = OwnerOf(r) /\ PlacesIn(r)' = PlacesIn(r)
         /\ \A r \in DOMAIN regions' \ DOMAIN regions :
              /\ regions'[r].owner = Len(variables) /\ regions'[r].live
              /\ OwnerOf(r)' = variables[Len(variables)]
         /\ \A r \in DOMAIN regions' : regions'[r].owner \in DOMAIN variables
         /\ \A r \in DOMAIN regions' \ DOMAIN regions : \E i \in DOMAIN new : regions'[r] = new[i]
<1>1. /\ regions \in Seq(Region) /\ \A r \in DOMAIN regions : regions[r].owner \in DOMAIN variables
      /\ variables \in Seq(Variable)
  BY DEF Typed, StorageOK
<1>2. /\ regions' \in Seq(Region) /\ DOMAIN regions \subseteq DOMAIN regions'
      /\ \A r \in DOMAIN regions : regions'[r] = regions[r]
  BY <1>1
<1>3. ASSUME NEW r \in DOMAIN regions' \ DOMAIN regions
      PROVE  /\ regions'[r].owner = Len(variables) /\ regions'[r].live
             /\ \E i \in DOMAIN new : regions'[r] = new[i]
  <2>1. r - Len(regions) \in DOMAIN new /\ regions'[r] = new[r - Len(regions)] BY <1>1
  <2> QED BY <2>1
<1>4. \A r \in DOMAIN regions : OwnerOf(r)' = OwnerOf(r) BY <1>2 DEF OwnerOf
<1>5. ASSUME NEW r \in DOMAIN regions PROVE PlacesIn(r)' = PlacesIn(r)
  <2>1. PlacesIn(r)' = PlacesAt(r, regions'[r].role, regions'[r].type, regions'[r].len)
    BY DEF PlacesIn, PlacesAt, Spots
  <2>2. PlacesIn(r) = PlacesAt(r, regions[r].role, regions[r].type, regions[r].len) BY PlacesInAt, Zenon
  <2> QED BY <1>2, <2>1, <2>2
<1>6. \A r \in DOMAIN regions' \ DOMAIN regions : OwnerOf(r)' = variables[Len(variables)] BY <1>3 DEF OwnerOf
<1>7. Len(variables) \in DOMAIN variables BY <1>1
<1> QED BY <1>1, <1>2, <1>3, <1>4, <1>5, <1>6, <1>7

(* The invariant is kept by every call that allocates. *)
LEMMA AllocKeepsTyped ==
  ASSUME Typed, NEW new, NEW tasks, NEW D, NEW C, AllocStep(new, tasks, D, C)
  PROVE  Typed'
<1>1. agenda # <<>> /\ variables # <<>> /\ Rest \in Seq(GoodTask) BY FirstKnown DEF AllocStep
<1>2. /\ regions' \in Seq(Region) /\ DOMAIN regions \subseteq DOMAIN regions'
      /\ \A r \in DOMAIN regions' : regions'[r].owner \in DOMAIN variables
  BY <1>1, RegionsGrow, Zenon DEF AllocStep
<1>3. agenda' \in Seq(GoodTask) BY <1>1 DEF AllocStep
<1>4. agenda' \in Seq(Task) BY <1>3 DEF GoodTask
<1>5. ASSUME NEW a \in DOMAIN memory'
      PROVE  a \in Seq(Nat) /\ a # <<>> /\ memory'[a] \in DOMAIN regions'
  <2>1. a \in D \/ a \in C \/ a \in DOMAIN memory \ (D \cup C) BY <1>5 DEF AllocStep
  <2>2. CASE a \in D BY <2>2 DEF AllocStep
  <2>3. CASE a \in C BY <1>2, <2>3 DEF AllocStep
  <2>4. CASE a \in DOMAIN memory \ (D \cup C)
    <3>1. memory'[a] = memory[a] BY <2>4 DEF AllocStep
    <3>2. a \in Seq(Nat) /\ a # <<>> /\ memory[a] \in DOMAIN regions BY <2>4 DEF Typed, StorageOK
    <3> QED BY <1>2, <3>1, <3>2
  <2> QED BY <2>1, <2>2, <2>3, <2>4
<1>6. /\ variables' = variables /\ count' = count /\ status' = "ok"
      /\ built' \subseteq Types \X {"heaped", "stacked", "context", "argument"}
  BY DEF AllocStep
<1>7. /\ variables \in Seq(Variable) /\ \A v \in DOMAIN variables : variables[v].base \in DOMAIN regions
      /\ count \in Counts
      /\ \A v \in DOMAIN variables :
           /\ variables[v].count \in Counts
           /\ variables[v].place \in {"context", "argument"} => variables[v].type \in Literal
  BY DEF Typed, StorageOK
<1>8. StorageOK' BY <1>2, <1>4, <1>5, <1>6, <1>7 DEF StorageOK
<1> QED BY <1>1, <1>3, <1>6, <1>7, <1>8 DEF Typed

LEMMA AllocKeepsCharged ==
  ASSUME Typed, AllCharged, NEW new, NEW tasks, NEW D, NEW C, AllocStep(new, tasks, D, C)
  PROVE  AllCharged'
<1>1. /\ agenda # <<>> /\ variables # <<>> /\ Rest \in Seq(GoodTask)
      /\ \A i \in 1 .. Len(Rest) : Rest[i] = agenda[i + 1] /\ i + 1 \in DOMAIN agenda
  BY FirstKnown DEF AllocStep
<1>2. /\ \A r \in DOMAIN regions : regions'[r] = regions[r] /\ r \in DOMAIN regions'
      /\ \A r \in DOMAIN regions' \ DOMAIN regions : OwnerOf(r)' = variables[Len(variables)]
      /\ \A r \in DOMAIN regions : OwnerOf(r)' = OwnerOf(r) /\ PlacesIn(r)' = PlacesIn(r)
  BY <1>1, RegionsGrow, Zenon DEF AllocStep
<1>3. ASSUME NEW x, Charged(x) PROVE Charged(x)'
  <2>1. variables' = variables BY DEF AllocStep
  <2>2. CASE x.do \in Allocates BY <1>2, <1>3, <2>1, <2>2 DEF Charged, Declared, Latest, AllocStep
  <2>3. CASE x.do \notin Allocates BY <1>2, <1>3, <2>3 DEF Charged
  <2> QED BY <2>2, <2>3
<1>4. ASSUME NEW i \in DOMAIN tasks PROVE Charged(tasks[i])'
  <2>1. ForDeclared(tasks[i]) /\ variables' = variables BY DEF AllocStep
  <2>2. tasks[i].do \in Allocates BY <2>1 DEF ForDeclared, DoneFor
  <2>3. count' = count /\ count = Latest.count
    <3>1. Charged(First) BY <1>1, FirstKnown DEF AllCharged, First
    <3> QED BY <3>1 DEF AllocStep, Charged
  <2>4. Spots(tasks[i].at, tasks[i].type) \subseteq PlacesIn(tasks[i].at[1])'
    BY <2>1, PlacesInPrimed DEF ForDeclared, PlacesThen
  <2> QED BY <2>1, <2>2, <2>3, <2>4 DEF ForDeclared, Charged, Declared, Latest
<1>5. \A i \in DOMAIN agenda : Charged(agenda[i]) BY DEF AllCharged
<1>6. ASSUME NEW i \in DOMAIN agenda' PROVE \E x : x = agenda'[i] /\ Charged(x)'
  <2>1. agenda' = tasks \o Rest /\ tasks \in Seq(GoodTask) BY DEF AllocStep
  <2>2. CASE i <= Len(tasks)
    <3>1. i \in DOMAIN tasks /\ agenda'[i] = tasks[i] BY <1>1, <2>1, <2>2
    <3> QED BY <1>4, <3>1
  <2>3. CASE ~(i <= Len(tasks))
    <3>1. /\ i - Len(tasks) \in 1 .. Len(Rest) /\ agenda'[i] = Rest[i - Len(tasks)] BY <1>1, <2>1, <2>3
    <3>2. Charged(Rest[i - Len(tasks)]) BY <1>1, <1>5, <3>1
    <3> QED BY <1>3, <3>1, <3>2
  <2> QED BY <2>2, <2>3
<1> QED BY <1>6 DEF AllCharged, Charged, Declared, Latest, OwnerOf

LEMMA AllocKeepsStorage ==
  ASSUME Typed, StorageKnown, NEW new, NEW tasks, NEW D, NEW C, AllocStep(new, tasks, D, C)
  PROVE  /\ StorageKnown'
         /\ \A a \in D : Own(a)'
         /\ \A a \in DOMAIN memory \ (D \cup C) : (Own(a))' <=> Own(a)
<1>1. agenda # <<>> /\ variables # <<>> BY FirstKnown DEF AllocStep
<1>2. /\ \A r \in DOMAIN regions : regions'[r] = regions[r] /\ r \in DOMAIN regions'
      /\ \A r \in DOMAIN regions' \ DOMAIN regions :
           /\ regions'[r].owner = Len(variables) /\ regions'[r].live
           /\ OwnerOf(r)' = variables[Len(variables)]
      /\ \A r \in DOMAIN regions : OwnerOf(r)' = OwnerOf(r)
      /\ \A r \in DOMAIN regions' \ DOMAIN regions : \E i \in DOMAIN new : regions'[r] = new[i]
  BY <1>1, RegionsGrow, Zenon DEF AllocStep
<1>3. variables' = variables /\ DOMAIN memory' = DOMAIN memory \cup D \cup C BY DEF AllocStep
<1>4. /\ \A v \in DOMAIN variables : variables[v].base \in DOMAIN regions
      /\ \A a \in DOMAIN memory : memory[a] \in DOMAIN regions
  BY DEF Typed, StorageOK
<1>5. ASSUME NEW v \in DOMAIN variables'
      PROVE  /\ regions'[variables'[v].base].owner = v /\ regions'[variables'[v].base].role = "base"
             /\ regions'[variables'[v].base].type = variables'[v].type
  BY <1>2, <1>3, <1>4 DEF StorageKnown
<1>12. ASSUME NEW r \in DOMAIN regions', OwnerOf(r)'.place = "heaped" PROVE regions'[r].place = "heap"
  <2>1. CASE r \in DOMAIN regions BY <1>2, <1>12, <2>1 DEF StorageKnown
  <2>2. CASE r \notin DOMAIN regions
    <3>1. PICK i \in DOMAIN new : regions'[r] = new[i] BY <1>2, <2>2
    <3>2. Declared = "heaped" BY <1>2, <1>12, <2>2 DEF Declared, Latest
    <3> QED BY <3>1, <3>2 DEF AllocStep
  <2> QED BY <2>1, <2>2
<1>6. ASSUME NEW r \in DOMAIN regions', OwnerOf(r)'.live PROVE regions'[r].live BY <1>2, <1>6 DEF StorageKnown
<1>7. ASSUME NEW a \in D
      PROVE  /\ a[1] \in DOMAIN regions' /\ regions'[memory'[a]].role \in {"array", "field"}
             /\ Own(a)'
  <2>1. /\ a[1] \in DOMAIN regions /\ regions[a[1]].owner = Len(variables)
        /\ memory'[a] \in DOMAIN regions' \ DOMAIN regions
        /\ regions'[memory'[a]].role \in {"array", "field"}
    BY DEF AllocStep
  <2> QED BY <1>2, <2>1 DEF Own
<1>8. ASSUME NEW a \in C
      PROVE  /\ a[1] \in DOMAIN regions' /\ regions'[memory'[a]].role \in {"array", "field"}
             /\ OwnerOf(a[1])'.place = "argument"
  <2>1. /\ a[1] \in DOMAIN regions' \ DOMAIN regions /\ Declared = "argument"
        /\ memory'[a] \in DOMAIN regions /\ regions[memory'[a]].role \in {"array", "field"}
    BY DEF AllocStep
  <2> QED BY <1>2, <2>1 DEF Declared, Latest
<1>9. ASSUME NEW a \in DOMAIN memory \ (D \cup C)
      PROVE  /\ a[1] \in DOMAIN regions' /\ regions'[memory'[a]].role \in {"array", "field"}
             /\ Own(a)' <=> Own(a)
             /\ OwnerOf(a[1])'.place = "argument" \/ Own(a)'
  <2>1. /\ a[1] \in DOMAIN regions /\ regions[memory[a]].role \in {"array", "field"}
        /\ OwnerOf(a[1]).place = "argument" \/ Own(a)
    BY DEF StorageKnown
  <2>2. memory'[a] = memory[a] /\ memory[a] \in DOMAIN regions BY <1>4 DEF AllocStep
  <2>3. Own(a)' <=> Own(a) BY <1>2, <2>1, <2>2 DEF Own
  <2> QED BY <1>2, <2>1, <2>2, <2>3
<1>10. ASSUME NEW a \in DOMAIN memory'
       PROVE  /\ a[1] \in DOMAIN regions' /\ regions'[memory'[a]].role \in {"array", "field"}
              /\ OwnerOf(a[1])'.place = "argument" \/ Own(a)'
  BY <1>3, <1>7, <1>8, <1>9
<1>11. StorageKnown' BY <1>5, <1>6, <1>10, <1>12 DEF StorageKnown, OwnerOf, Own
<1> QED BY <1>7, <1>9, <1>11

LEMMA AllocKeepsSettled ==
  ASSUME Inv, NEW new, NEW tasks, NEW D, NEW C, AllocStep(new, tasks, D, C)
  PROVE  PlacesSettled'
<1>0. Typed /\ AllCharged /\ StorageKnown /\ PlacesSettled BY DEF Inv
<1>1. /\ agenda # <<>> /\ variables # <<>> /\ Rest \in Seq(GoodTask) /\ Len(agenda) = Len(Rest) + 1
      /\ Len(agenda) \in Nat /\ agenda \in Seq(GoodTask)
      /\ \A i \in 1 .. Len(Rest) : Rest[i] = agenda[i + 1] /\ i + 1 \in DOMAIN agenda
  BY <1>0, FirstKnown DEF AllocStep, Typed
<1>2. /\ \A r \in DOMAIN regions : r \in DOMAIN regions' /\ OwnerOf(r)' = OwnerOf(r)
                                     /\ PlacesIn(r)' = PlacesIn(r)
      /\ \A r \in DOMAIN regions' \ DOMAIN regions : OwnerOf(r)' = variables[Len(variables)]
  BY <1>0, <1>1, RegionsGrow, Zenon DEF AllocStep
<1>3. tasks \in Seq(GoodTask) /\ agenda' = tasks \o Rest BY DEF AllocStep
<1>4. ASSUME NEW p, ~Pending(p)'
      PROVE  /\ \A i \in DOMAIN tasks : p \notin Cover(tasks[i])
             /\ Pending(p) => p \in Cover(First)
  <2>1. \A i \in DOMAIN agenda' : p \notin Cover(agenda'[i]) BY <1>4 DEF Pending
  <2>2. ASSUME NEW i \in DOMAIN tasks PROVE p \notin Cover(tasks[i])
    <3>1. i \in DOMAIN agenda' /\ agenda'[i] = tasks[i] BY <1>1, <1>3
    <3> QED BY <2>1, <3>1
  <2>3. ASSUME NEW i \in DOMAIN agenda, p \in Cover(agenda[i]) PROVE p \in Cover(First)
    <3>1. CASE i = 1 BY <2>3, <3>1 DEF First
    <3>2. CASE i # 1
      <4>1. i - 1 \in 1 .. Len(Rest) /\ Rest[i - 1] = agenda[i] BY <1>1, <3>2
      <4>2. /\ Len(tasks) + (i - 1) \in DOMAIN agenda'
            /\ agenda'[Len(tasks) + (i - 1)] = Rest[i - 1]
        BY <1>1, <1>3, <4>1
      <4> QED BY <2>1, <2>3, <4>1, <4>2
    <3> QED BY <3>1, <3>2
  <2> QED BY <2>2, <2>3 DEF Pending
<1>5. ASSUME NEW r \in DOMAIN regions', NEW p \in PlacesIn(r)', SeenIn(p, r)'
      PROVE  /\ r \in DOMAIN regions /\ p \in PlacesIn(r) /\ p.at[1] = r
             /\ p.at \in D \/ SeenIn(p, r)
  <2>1. SeenTo(p, OwnerOf(r)'.place) /\ ~Pending(p)' BY <1>5 DEF SeenIn
  <2>2. r \in DOMAIN regions
    <3>1. SUFFICES ASSUME r \notin DOMAIN regions PROVE FALSE OBVIOUS
    <3>2. SeenTo(p, Declared) BY <1>2, <2>1, <3>1 DEF Declared, Latest
    <3>3. \E i \in DOMAIN tasks : p \in Cover(tasks[i]) BY <1>5, <3>1, <3>2 DEF AllocStep
    <3> QED BY <1>4, <2>1, <3>3
  <2>3. p \in PlacesIn(r) /\ SeenTo(p, OwnerOf(r).place) BY <1>2, <1>5, <2>1, <2>2
  <2>4. p.at[1] = r BY <1>0, <2>2, <2>3, PlacesInTyped
  <2>5. ASSUME Pending(p) PROVE p.at \in D
    <3>1. p \in Cover(First) BY <1>4, <2>1, <2>5
    <3>2. OwnerOf(r).place = Declared
      <4>1. p \in Spots(First.at, First.type) BY <3>1 DEF Cover
      <4>2. First.at \in Seq(Nat) /\ First.at # <<>> /\ First.type \in Types /\ First = agenda[1]
        BY <1>0, <1>1, FirstKnown DEF First
      <4>3. First.at[1] = r BY <2>4, <4>1, <4>2, SpotsTyped
      <4>4. First.do \in Allocates BY DEF AllocStep
      <4>5. 1 \in DOMAIN agenda BY <1>1
      <4>6. Charged(First) BY <1>0, <4>2, <4>5, Zenon DEF AllCharged
      <4> QED BY <4>3, <4>4, <4>6 DEF Charged, OwnerOf, Declared, Latest
    <3>3. SeenTo(p, Declared) BY <2>3, <3>2
    <3>4. \A i \in DOMAIN tasks : p \notin Cover(tasks[i]) BY <1>4, <2>1
    <3> QED BY <3>1, <3>3, <3>4 DEF AllocStep
  <2> QED BY <2>2, <2>3, <2>4, <2>5 DEF SeenIn
<1>6. /\ DOMAIN memory' = DOMAIN memory \cup D \cup C
      /\ \A c \in C : c[1] \notin DOMAIN regions
      /\ \A d \in D : memory'[d] \notin DOMAIN regions
      /\ \A d, e \in D : memory'[d] = memory'[e] => d = e
      /\ \A a \in DOMAIN memory \ (D \cup C) : memory'[a] = memory[a]
      /\ status = "ok"
  BY DEF AllocStep
<1>7. /\ \A a \in D : Own(a)'
      /\ \A a \in DOMAIN memory \ (D \cup C) : (Own(a))' <=> Own(a)
  BY <1>0, AllocKeepsStorage, Zenon
<1>8. /\ \A r \in DOMAIN regions : \A p \in PlacesIn(r) :
           SeenIn(p, r) => p.at \in DOMAIN memory /\ Own(p.at)
      /\ \A r, s \in DOMAIN regions : \A p \in PlacesIn(r), q \in PlacesIn(s) :
           SeenIn(p, r) /\ SeenIn(q, s) /\ memory[p.at] = memory[q.at] => p.at = q.at
  BY <1>0, <1>6 DEF PlacesSettled
<1>9. ASSUME NEW r \in DOMAIN regions', NEW p \in PlacesIn(r)', SeenIn(p, r)', p.at \notin D
      PROVE  /\ p.at \in DOMAIN memory \ (D \cup C) /\ r \in DOMAIN regions /\ p \in PlacesIn(r)
             /\ SeenIn(p, r) /\ memory'[p.at] = memory[p.at] /\ memory[p.at] \in DOMAIN regions
             /\ Own(p.at)
  <2>1. r \in DOMAIN regions /\ p \in PlacesIn(r) /\ p.at[1] = r /\ SeenIn(p, r) BY <1>5, <1>9
  <2>2. p.at \in DOMAIN memory /\ Own(p.at) BY <1>8, <2>1
  <2>3. p.at \notin C BY <1>6, <2>1
  <2>4. memory[p.at] \in DOMAIN regions BY <1>0, <2>2 DEF Typed, StorageOK
  <2> QED BY <1>6, <1>9, <2>1, <2>2, <2>3, <2>4
<1>10. ASSUME NEW r \in DOMAIN regions', NEW p \in PlacesIn(r)', SeenIn(p, r)'
       PROVE  p.at \in DOMAIN memory' /\ Own(p.at)'
  BY <1>6, <1>7, <1>9, <1>10, Zenon
<1>11. ASSUME NEW r \in DOMAIN regions', NEW s \in DOMAIN regions', NEW p \in PlacesIn(r)',
              NEW q \in PlacesIn(s)', SeenIn(p, r)', SeenIn(q, s)', memory'[p.at] = memory'[q.at]
       PROVE  p.at = q.at
  <2>1. CASE p.at \in D /\ q.at \in D BY <1>6, <1>11, <2>1
  <2>2. CASE p.at \in D /\ q.at \notin D BY <1>6, <1>9, <1>11, <2>2, Zenon
  <2>3. CASE p.at \notin D /\ q.at \in D BY <1>6, <1>9, <1>11, <2>3, Zenon
  <2>4. CASE p.at \notin D /\ q.at \notin D
    <3>1. /\ r \in DOMAIN regions /\ p \in PlacesIn(r) /\ SeenIn(p, r) /\ memory'[p.at] = memory[p.at]
      BY <1>9, <1>11, <2>4
    <3>2. /\ s \in DOMAIN regions /\ q \in PlacesIn(s) /\ SeenIn(q, s) /\ memory'[q.at] = memory[q.at]
      BY <1>9, <1>11, <2>4
    <3>3. memory[p.at] = memory[q.at] BY <1>11, <3>1, <3>2
    <3> QED BY <1>8, <3>1, <3>2, <3>3, Zenon
  <2> QED BY <2>1, <2>2, <2>3, <2>4
<1> QED BY <1>10, <1>11 DEF PlacesSettled, SeenIn, Own, Pending, OwnerOf

(* A pointer that stays leads to what it led to. *)
LEMMA LeadStays ==
  ASSUME NEW p, Leads(p), memory'[p.at] = memory[p.at],
         LET r == memory[p.at]
         IN /\ regions'[r].role = regions[r].role /\ regions'[r].type = regions[r].type
            /\ regions'[r].len = regions[r].len /\ OwnerOf(r)'.count = OwnerOf(r).count
  PROVE  Leads(p)'
BY DEF Leads, SizeFor

LEMMA AllocKeepsLead ==
  ASSUME Inv, NEW new, NEW tasks, NEW D, NEW C, AllocStep(new, tasks, D, C)
  PROVE  PointersLead'
<1>1. Typed /\ AllCharged /\ StorageKnown /\ PointersLead BY DEF Inv
<1>2. /\ agenda # <<>> /\ variables # <<>> /\ First = agenda[1] /\ 1 \in DOMAIN agenda
      /\ First.at \in Seq(Nat) /\ First.at # <<>> /\ First.type \in Types
  <2>1. agenda # <<>> BY DEF AllocStep
  <2>2. agenda \in Seq(GoodTask) BY <1>1 DEF Typed
  <2> QED BY <1>1, <2>1, <2>2, FirstKnown DEF First
<1>3. /\ regions' \in Seq(Region)
      /\ \A r \in DOMAIN regions : /\ regions'[r] = regions[r] /\ OwnerOf(r)' = OwnerOf(r)
                                  /\ PlacesIn(r)' = PlacesIn(r)
  BY <1>1, <1>2, RegionsGrow, Zenon DEF AllocStep
<1>4. /\ First.at[1] \in DOMAIN regions /\ Spots(First.at, First.type) \subseteq PlacesIn(First.at[1])
  <2>1. First.do \in Allocates BY DEF AllocStep
  <2>2. Charged(First) BY <1>1, <1>2, Zenon DEF AllCharged
  <2> QED BY <2>1, <2>2 DEF Charged
<1>5. /\ DOMAIN memory' = DOMAIN memory \cup D \cup C
      /\ \A d \in D : /\ d[1] \in DOMAIN regions
                      /\ \E q \in Spots(First.at, First.type) : q.at = d /\ Leads(q)'
      /\ \A c \in C : c[1] \in DOMAIN regions' \ DOMAIN regions
      /\ \A r \in DOMAIN regions' \ DOMAIN regions : \A p \in PlacesIn(r)' : p.at \in C => Leads(p)'
      /\ \A a \in DOMAIN memory \ (D \cup C) : memory'[a] = memory[a]
  BY DEF AllocStep
<1>6. ASSUME NEW r \in DOMAIN regions', NEW p \in PlacesIn(r)', p.at \in DOMAIN memory'
      PROVE  Leads(p)'
  <2>1. p.at[1] = r
    <3>1. p \in PlacesAt(r, regions'[r].role, regions'[r].type, regions'[r].len) BY PlacesInPrimed, Zenon
    <3>2. r \in Nat /\ regions'[r].type \in Types /\ regions'[r].len \in Nat
      <4>1. r \in Nat /\ regions'[r] \in Region BY <1>3
      <4> QED BY <4>1 DEF Region
    <3> QED BY <3>1, <3>2, PlacesAtTyped
  <2>2. CASE r \notin DOMAIN regions
    <3>1. p.at \notin DOMAIN memory BY <1>1, <2>1, <2>2 DEF StorageKnown
    <3> QED BY <1>5, <1>6, <2>1, <2>2, <3>1
  <2>3. CASE r \in DOMAIN regions
    <3>1. p \in PlacesIn(r) /\ p.at \notin C BY <1>3, <1>5, <2>1, <2>3
    <3>2. CASE p.at \in D
      <4>1. PICK q \in Spots(First.at, First.type) : q.at = p.at /\ Leads(q)' BY <1>5, <3>2
      <4>2. q \in PlacesIn(First.at[1]) BY <1>4, <4>1
      <4>3. First.at[1] = r BY <1>1, <1>4, <2>1, <4>1, <4>2, PlacesInTyped
      <4>4. p = q BY <1>1, <2>3, <3>1, <4>1, <4>2, <4>3, SamePlaceIn
      <4> QED BY <4>1, <4>4
    <3>3. CASE p.at \notin D
      <4>1. p.at \in DOMAIN memory /\ memory'[p.at] = memory[p.at] BY <1>5, <1>6, <3>1, <3>3
      <4>2. memory[p.at] \in DOMAIN regions BY <1>1, <4>1 DEF Typed, StorageOK
      <4>3. Leads(p) BY <1>1, <2>3, <3>1, <4>1 DEF PointersLead
      <4> QED BY <1>3, <4>1, <4>2, <4>3, LeadStays
    <3> QED BY <3>2, <3>3
  <2> QED BY <2>2, <2>3
<1>7. \A b \in built' : Def[b[1]].sized BY <1>1 DEF AllocStep, PointersLead
<1> QED BY <1>6, <1>7 DEF PointersLead, Leads, SizeFor, OwnerOf

LEMMA AllocStepKeeps ==
  ASSUME Inv, NEW new, NEW tasks, NEW D, NEW C, AllocStep(new, tasks, D, C)
  PROVE  Inv'
<1>1. Typed /\ AllCharged /\ StorageKnown BY DEF Inv
<1> QED BY <1>1, AllocKeepsTyped, AllocKeepsCharged, AllocKeepsStorage, AllocKeepsSettled,
       AllocKeepsLead, Zenon DEF Inv

-----------------------------------------------------------------------------
(* The calls that allocate make such a step. *)

LEMMA AllocSteppedKeeps == Inv /\ AllocStepped => Inv'
BY AllocStepKeeps DEF AllocStepped

(* What is known of a call that allocates. *)
LEMMA CallKnown ==
  ASSUME Inv, agenda # <<>>, First.do \in Allocates
  PROVE  /\ First.type \in Types /\ First.at \in Seq(Nat) /\ First.at # <<>> /\ First.at[1] \in Nat
         /\ Len(First.at) \in Nat /\ Len(First.at) >= 1
         /\ First.at[1] \in DOMAIN regions /\ regions[First.at[1]].owner = Len(variables)
         /\ First.do \in DoneFor(Declared)
         /\ First.do = "copy" /\ ClassOf(First.type) = "table" => Len(First.at) > 1
         /\ regions \in Seq(Region) /\ Len(regions) \in Nat /\ DOMAIN regions = 1 .. Len(regions)
         /\ variables # <<>> /\ built \subseteq Types \X {"heaped", "stacked", "context", "argument"}
         /\ variables[Len(variables)].place \in {"heaped", "stacked", "context", "argument"}
         /\ Latest.type \in Types /\ First.type \in OutsideTables[Latest.type]
         /\ count = Latest.count
         /\ Spots(First.at, First.type) \subseteq PlacesIn(First.at[1])
         /\ Declared \in {"context", "argument"} => Latest.type \in Literal
<1>1. Typed /\ AllCharged BY DEF Inv
<1>2. /\ First.type \in Types /\ First.at \in Seq(Nat) /\ First.at # <<>> /\ First.at[1] \in Nat
      /\ variables # <<>> /\ Len(agenda) \in Nat /\ agenda \in Seq(GoodTask)
      /\ Len(variables) \in DOMAIN variables
  BY <1>1, FirstKnown DEF Typed
<1>3. 1 \in DOMAIN agenda BY <1>2
<1>4. Charged(First) BY <1>1, <1>3 DEF AllCharged, First
<1>5. regions \in Seq(Region) /\ built \subseteq Types \X {"heaped", "stacked", "context", "argument"}
  BY <1>1 DEF Typed, StorageOK
<1>6. Len(regions) \in Nat /\ DOMAIN regions = 1 .. Len(regions) BY <1>5
<1>7. Len(First.at) \in Nat /\ Len(First.at) >= 1 BY <1>2
<1>8. /\ variables[Len(variables)].place \in {"heaped", "stacked", "context", "argument"}
      /\ Latest.type \in Types
  <2>1. variables \in Seq(Variable) BY <1>1 DEF Typed, StorageOK
  <2>2. variables[Len(variables)] \in Variable BY <1>2, <2>1
  <2> QED BY <2>2 DEF Variable, Latest
<1>9. /\ First.at[1] \in DOMAIN regions /\ regions[First.at[1]].owner = Len(variables)
      /\ First.do \in DoneFor(Declared)
      /\ First.type \in OutsideTables[Latest.type] /\ count = Latest.count
      /\ Spots(First.at, First.type) \subseteq PlacesIn(First.at[1])
      /\ First.do = "copy" /\ ClassOf(First.type) = "table" => Len(First.at) > 1
  BY <1>4 DEF Charged
<1>10. Declared \in {"context", "argument"} => Latest.type \in Literal
  BY <1>1, <1>2 DEF Typed, Declared, Latest
<1> QED BY <1>2, <1>5, <1>6, <1>7, <1>8, <1>9, <1>10

LEMMA ElementsCover ==
  ASSUME NEW do \in {"heap", "stack", "context", "copy"}, NEW t \in Types, ClassOf(t) # "table",
         NEW r \in Nat, NEW n \in Nat, NEW i \in 1 .. n, NEW p \in Spots(<<r, i>>, t)
  PROVE  \E j \in DOMAIN Elements(do, t, r, n) : p \in Cover(Elements(do, t, r, n)[j])
<1> DEFINE at == <<r, i>>
<1>1. at \in Seq(Nat) /\ at # <<>> /\ p \in Spots(at, t) OBVIOUS
<1>2. ClassOf(t) \in {"vector", "collection"}
  <2> HIDE DEF at
  <2>1. ClassOf(t) \notin {"primitive", "address"} BY <1>1, SpotsTyped
  <2> QED BY <2>1, DefTyped DEF ClassOf, Classes
<1>3. Elements(do, t, r, n) = [k \in 1 .. n |-> ToDo(do, t, <<r, k>>)] BY <1>2 DEF Elements
<1>4. i \in DOMAIN Elements(do, t, r, n) /\ Elements(do, t, r, n)[i] = ToDo(do, t, at) BY <1>3
<1>5. p \in Cover(ToDo(do, t, at))
  <2> HIDE DEF at
  <2> QED BY <1>1 DEF Cover, ToDo
<1> QED BY <1>4, <1>5

LEMMA MembersCover ==
  ASSUME NEW do \in {"heap", "stack", "context", "copy"}, NEW t \in Types,
         ClassOf(t) \notin {"vector", "table"}, NEW at \in Seq(Nat), NEW p \in Spots(at, t)
  PROVE  \E j \in DOMAIN Members(do, t, at) : p \in Cover(Members(do, t, at)[j])
<1>1. PICK m \in DOMAIN Def[t].parts : p \in Spots(at \o <<m>>, Def[t].parts[m]) BY SpotsOfMember
<1>2. m \in DOMAIN Members(do, t, at) /\ Members(do, t, at)[m] = ToDo(do, Def[t].parts[m], at \o <<m>>)
  BY DEF Members
<1>3. p \in Cover(ToDo(do, Def[t].parts[m], at \o <<m>>)) BY <1>1 DEF Cover, ToDo
<1> QED BY <1>2, <1>3

(* Nothing within a stacked variable is seen to. *)
LEMMA StackedPlaces ==
  ASSUME NEW t \in Types, NEW at \in Seq(Nat), at # <<>>, NEW p \in Spots(at, t),
         Len(at) >= 2 \/ ClassOf(t) \notin {"vector", "table"}
  PROVE  ~SeenTo(p, "stacked")
<1>1. /\ Len(at) \in Nat /\ Len(at) >= 1 /\ Len(p.at) \in Nat
      /\ ClassOf(p.type) = "table" => Len(p.at) > Len(at)
      /\ ClassOf(t) \notin {"vector", "table"} => Len(p.at) > Len(at)
      /\ ClassOf(t) \notin {"vector", "table"} /\ ClassOf(p.type) = "table" =>
           Len(p.at) > Len(at) + 1
      /\ ClassOf(t) = "vector" => p = [at |-> at, type |-> t]
      /\ ClassOf(t) = "table" => p.type = t
  BY SpotsTyped DEF Spot
<1>2. p.type \in Types /\ ClassOf(p.type) \in {"vector", "table"} BY SpotsTyped DEF Spot, Pointers
<1>6. Len(p.at) \in Nat BY <1>1
<1>3. CASE ClassOf(t) = "vector"
  <2>1. Len(p.at) = Len(at) /\ ClassOf(p.type) = "vector" /\ Len(at) >= 2 BY <1>1, <1>3
  <2>2. Len(p.at) # 1 BY <1>6, <2>1
  <2> QED BY <2>1, <2>2, Zenon DEF SeenTo
<1>4. CASE ClassOf(t) = "table"
  <2>1. Len(p.at) > 2 /\ ClassOf(p.type) = "table" BY <1>1, <1>4
  <2>2. ClassOf(p.type) # "vector" BY <2>1, Zenon
  <2>3. \A n \in Nat : n > 2 => n # 2 OBVIOUS
  <2> QED BY <1>6, <2>1, <2>2, <2>3, Zenon DEF SeenTo
<1>5. CASE ClassOf(t) \notin {"vector", "table"}
  <2>1. Len(p.at) > 1 /\ (ClassOf(p.type) = "table" => Len(p.at) > 2) BY <1>1, <1>5
  <2>5. \A n \in Nat : (n > 1 => n # 1) /\ (n > 2 => n # 2) OBVIOUS
  <2>2. Len(p.at) # 1 /\ (ClassOf(p.type) = "table" => Len(p.at) # 2) BY <1>6, <2>1, <2>5, Zenon
  <2>3. CASE ClassOf(p.type) = "vector" BY <2>2, <2>3, Zenon DEF SeenTo
  <2>4. CASE ClassOf(p.type) = "table"
    <3>1. Len(p.at) # 2 /\ ClassOf(p.type) # "vector" BY <2>2, <2>4, Zenon
    <3> QED BY <3>1, Zenon DEF SeenTo
  <2> QED BY <1>2, <2>3, <2>4
<1> QED BY <1>3, <1>4, <1>5

LEMMA NotSeen ==
  ASSUME NEW p \in Spot, NEW place
  PROVE  /\ ClassOf(p.type) = "vector" /\ ~Def[p.type].sized => ~SeenTo(p, place)
         /\ ClassOf(p.type) = "table" /\ Len(p.at) > 2 /\ place # "heaped" => ~SeenTo(p, place)
<1>1. ASSUME ClassOf(p.type) = "vector", ~Def[p.type].sized PROVE ~SeenTo(p, place) BY <1>1, Zenon DEF SeenTo
<1>2. ASSUME ClassOf(p.type) = "table", Len(p.at) > 2, place # "heaped" PROVE ~SeenTo(p, place)
  <2>1. Len(p.at) \in Nat BY DEF Spot
  <2>2. Len(p.at) # 2
    <3>1. \A n \in Nat : n > 2 => n # 2 OBVIOUS
    <3> QED BY <1>2, <2>1, <3>1, Zenon
  <2>3. ClassOf(p.type) # "vector" BY <1>2, Zenon
  <2> QED BY <1>2, <2>2, <2>3, Zenon DEF SeenTo
<1> QED BY <1>1, <1>2

(* A collection hands on to its members. *)
LEMMA MembersStep ==
  ASSUME Inv, status = "ok", agenda # <<>>, First.do \in Allocates,
         ClassOf(First.type) \notin {"vector", "table"}, NEW do \in DoneFor(Declared),
         do = First.do \/ do = "member",
         GoOn(Members(do, First.type, First.at)),
         UNCHANGED <<regions, memory, built, variables, count, status>>
  PROVE  AllocStepped
<1> DEFINE tasks == Members(do, First.type, First.at)
<1>1. /\ First.type \in Types /\ First.at \in Seq(Nat) /\ First.at # <<>> /\ First.at[1] \in Nat
      /\ Len(First.at) \in Nat /\ Len(First.at) >= 1
      /\ First.at[1] \in DOMAIN regions /\ regions[First.at[1]].owner = Len(variables)
      /\ First.do \in DoneFor(Declared) /\ regions \in Seq(Region) /\ variables # <<>>
      /\ built \subseteq Types \X {"heaped", "stacked", "context", "argument"}
  BY CallKnown
<1>2. do \in Calls /\ do # "field" BY DEF DoneFor, Allocates, Calls
<1>3. /\ tasks \in Seq(GoodTask)
      /\ \A m \in 1 .. Len(Def[First.type].parts) :
           tasks[m] = ToDo(do, Def[First.type].parts[m], First.at \o <<m>>)
      /\ DOMAIN tasks = 1 .. Len(Def[First.type].parts)
  <2>1. /\ tasks \in Seq(GoodTask)
        /\ \A m \in 1 .. Len(Def[First.type].parts) :
             tasks[m] = ToDo(do, Def[First.type].parts[m], First.at \o <<m>>)
    BY <1>1, <1>2, MembersGood, Zenon
  <2>2. DOMAIN tasks = 1 .. Len(Def[First.type].parts) BY <1>1, DefTyped DEF Members
  <2> QED BY <2>1, <2>2
<1> HIDE DEF tasks
<1>4. ASSUME NEW m \in DOMAIN tasks PROVE ForDeclared(tasks[m])
  <2>1. m \in Nat /\ tasks[m] = ToDo(do, Def[First.type].parts[m], First.at \o <<m>>)
    <3>1. m \in 1 .. Len(Def[First.type].parts) BY <1>3
    <3> QED BY <1>3, <3>1, DefTyped
  <2>2. (First.at \o <<m>>)[1] = First.at[1] /\ Len(First.at \o <<m>>) > 1 BY <1>1, <2>1
  <2>3. /\ tasks[m].do = do /\ tasks[m].at[1] = First.at[1] /\ Len(tasks[m].at) > 1 BY <2>1, <2>2 DEF ToDo
  <2>4. tasks[m].at[1] \in DOMAIN regions' /\ regions'[tasks[m].at[1]].owner = Len(variables) BY <1>1, <2>3
  <2>5. tasks[m].type \in OutsideTables[Latest.type]
    <3>1. tasks[m].type = Def[First.type].parts[m] /\ m \in DOMAIN Def[First.type].parts
      BY <1>1, <1>3, <2>1, DefTyped DEF ToDo
    <3>2. tasks[m].type \in PartsOf(First.type) BY <3>1, Zenon DEF PartsOf
    <3>3. tasks[m].type \in Reached(First.type) BY <3>2 DEF Reached
    <3>4. Latest.type \in Types /\ First.type \in OutsideTables[Latest.type] BY CallKnown
    <3> QED BY <3>3, <3>4, OutsideIs
  <2>6. Spots(tasks[m].at, tasks[m].type) \subseteq PlacesThen(tasks[m].at[1])
    <3>5. tasks[m].type = Def[First.type].parts[m] /\ m \in DOMAIN Def[First.type].parts
      BY <1>1, <1>3, <2>1, DefTyped DEF ToDo
    <3>6. tasks[m].at = First.at \o <<m>> BY <2>1 DEF ToDo
    <3>1. /\ tasks[m].type = Def[First.type].parts[m] /\ m \in DOMAIN Def[First.type].parts
          /\ tasks[m].at = First.at \o <<m>>
      BY <3>5, <3>6
    <3>2. Spots(tasks[m].at, tasks[m].type) \subseteq Spots(First.at, First.type) BY <1>1, <3>1, MemberSpots
    <3>3. Spots(First.at, First.type) \subseteq PlacesIn(First.at[1]) BY CallKnown
    <3>4. PlacesThen(First.at[1]) = PlacesIn(First.at[1]) BY PlacesInAt DEF PlacesThen
    <3> QED BY <2>3, <3>2, <3>3, <3>4
  <2> QED BY <2>3, <2>4, <2>5, <2>6 DEF ForDeclared
<1>5. ASSUME NEW p \in Cover(First), SeenTo(p, Declared)
      PROVE  \E m \in DOMAIN tasks : p \in Cover(tasks[m])
  <2>1. p \in Spots(First.at, First.type) /\ First.do \in {"heap", "stack", "context", "copy"} BY DEF Cover
  <2>2. Declared # "stacked" BY <1>1, <1>5, <2>1, StackedPlaces
  <2>3. do # "member" BY <2>2 DEF DoneFor
  <2> QED BY <1>1, <2>1, <2>3, MembersCover DEF tasks
<1>8. ASSUME NEW i \in DOMAIN tasks, NEW p \in Cover(tasks[i])
      PROVE  p \in Cover(First) /\ i \in Nat /\ p.at[Len(First.at) + 1] = i
  <2>1. /\ i \in DOMAIN Def[First.type].parts /\ i \in Nat
        /\ tasks[i] = ToDo(do, Def[First.type].parts[i], First.at \o <<i>>)
    BY <1>1, <1>3, DefTyped
  <2>2. PICK at : at = First.at \o <<i>> OBVIOUS
  <2>3. /\ at \in Seq(Nat) /\ Len(at) = Len(First.at) + 1 /\ at[Len(First.at) + 1] = i
        /\ Len(First.at) + 1 \in 1 .. Len(at)
    BY <1>1, <2>1, <2>2
  <2>4. /\ p \in Spots(at, Def[First.type].parts[i]) /\ do # "member"
        /\ do \in {"heap", "stack", "context", "copy"}
    BY <2>1, <2>2 DEF Cover, ToDo
  <2>5. p \in Spots(First.at, First.type) BY <1>1, <2>1, <2>2, <2>4, MemberSpots
  <2>6. p \in Cover(First) BY <2>4, <2>5 DEF Cover
  <2>7. p.at[Len(First.at) + 1] = at[Len(First.at) + 1]
    <3>1. Def[First.type].parts[i] \in Types BY <1>1, <2>1, DefTyped
    <3> QED BY <2>3, <2>4, <3>1, SpotPrefix, Zenon
  <2> QED BY <2>1, <2>3, <2>6, <2>7
<1>9. /\ \A i, j \in DOMAIN tasks : \A p \in Cover(tasks[i]), q \in Cover(tasks[j]) :
           p.at = q.at => i = j
      /\ \A i \in DOMAIN tasks : \A p \in Cover(tasks[i]) : p \in Cover(First)
  BY <1>8
<1>6. regions' = regions \o <<>> /\ <<>> \in Seq(Region) BY <1>1
<1>7. AllocStep(<<>>, tasks, {}, {})
  <2> HIDE DEF tasks
  <2>1. agenda' = tasks \o Rest BY DEF GoOn, tasks
  <2>2. \A r \in DOMAIN regions' \ DOMAIN regions : FALSE OBVIOUS
  <2> QED BY <1>1, <1>3, <1>4, <1>5, <1>6, <1>9, <2>1, <2>2 DEF AllocStep
<1> QED BY <1>7 DEF AllocStepped

LEMMA HandlesStep ==
  ASSUME Inv, status = "ok", agenda # <<>>, First.do \in Allocates,
         NEW handles, IsHandles(handles), regions' = regions \o handles, GoOn(<<>>),
         \A p \in Cover(First) : ~SeenTo(p, Declared),
         UNCHANGED <<memory, built, variables, count, status>>
  PROVE  AllocStepped
<1>1. regions \in Seq(Region) /\ built \subseteq Types \X {"heaped", "stacked", "context", "argument"}
  BY CallKnown
<1>2. ASSUME NEW r \in DOMAIN regions' \ DOMAIN regions PROVE PlacesIn(r)' = {} /\ regions'[r].role = "handle"
  <2>1. r - Len(regions) \in DOMAIN handles /\ regions'[r] = handles[r - Len(regions)] BY <1>1 DEF IsHandles
  <2>2. regions'[r].role = "handle" BY <2>1 DEF IsHandles
  <2> QED BY <2>2 DEF PlacesIn
<1>3. <<>> \in Seq(GoodTask) /\ agenda' = <<>> \o Rest /\ DOMAIN <<>> = {} BY DEF GoOn
<1>4. AllocStep(handles, <<>>, {}, {}) BY <1>1, <1>2, <1>3 DEF AllocStep, IsHandles
<1> QED BY <1>4 DEF AllocStepped

(* The calls that are made for the elements of a new array. *)
LEMMA ElementCalls ==
  ASSUME NEW do \in DoneFor(Declared), NEW t \in Types, NEW r \in Nat, NEW n \in Nat,
         r \in DOMAIN regions', regions'[r].owner = Len(variables), regions'[r].role = "array",
         regions'[r].type = t, regions'[r].len = n, t \in OutsideTables[Latest.type]
  PROVE  /\ Elements(do, t, r, n) \in Seq(GoodTask)
         /\ \A i \in DOMAIN Elements(do, t, r, n) : ForDeclared(Elements(do, t, r, n)[i])
<1>1. do \in Calls /\ do # "field" BY DEF DoneFor, Allocates, Calls
<1>2. /\ Elements(do, t, r, n) \in Seq(GoodTask)
      /\ \A i \in 1 .. Len(Elements(do, t, r, n)) : Elements(do, t, r, n)[i] = ToDo(do, t, <<r, i>>)
  BY <1>1, ElementsGood, Zenon
<1> DEFINE tasks == Elements(do, t, r, n)
<1>3. ASSUME NEW i \in DOMAIN tasks PROVE ForDeclared(tasks[i])
  <2>1. tasks[i] = ToDo(do, t, <<r, i>>)
    <3>1. tasks \in Seq(GoodTask) BY <1>2
    <3> HIDE DEF tasks
    <3>2. i \in 1 .. Len(tasks) BY <3>1
    <3> QED BY <1>2, <3>2 DEF tasks
  <2>2. /\ tasks[i].do = do /\ tasks[i].at[1] = r /\ Len(tasks[i].at) = 2 /\ tasks[i].type = t
        /\ tasks[i].at = <<r, i>>
    BY <2>1 DEF ToDo
  <2>4. i \in 1 .. n /\ ClassOf(t) # "table" BY DEF Elements
  <2>5. PlacesThen(r) = UNION {Spots(<<r, k>>, t) : k \in 1 .. n} BY <2>4 DEF PlacesAt, PlacesThen
  <2> HIDE DEF tasks
  <2>6. Spots(tasks[i].at, tasks[i].type) \subseteq PlacesThen(tasks[i].at[1]) BY <2>2, <2>4, <2>5
  <2>3. Len(tasks[i].at) > 1 BY <2>2
  <2> QED BY <2>2, <2>3, <2>6 DEF ForDeclared
<1> QED BY <1>2, <1>3

(* The places in a new array are left to the calls for its elements, or never seen to. *)
LEMMA ArrayCovered ==
  ASSUME NEW do \in {"heap", "stack", "context", "copy", "member"}, NEW t \in Types,
         NEW r \in Nat, NEW n \in Nat, NEW place, do = "member" => place = "stacked",
         NEW p \in PlacesAt(r, "array", t, n), SeenTo(p, place)
  PROVE  \E i \in DOMAIN Elements(do, t, r, n) : p \in Cover(Elements(do, t, r, n)[i])
<1>1. PICK i \in 1 .. n : ClassOf(t) # "table" /\ p \in Spots(<<r, i>>, t) BY DEF PlacesAt
<1>2. do # "member"
  <2> DEFINE at == <<r, i>>
  <2>1. at \in Seq(Nat) /\ at # <<>> /\ Len(at) >= 2 /\ p \in Spots(at, t) BY <1>1
  <2> HIDE DEF at
  <2>2. ~SeenTo(p, "stacked") BY <2>1, StackedPlaces
  <2> QED BY <2>2
<1> QED BY <1>1, <1>2, ElementsCover

(* After its handles, the array is the last new region. *)
LEMMA ArrayAppended ==
  ASSUME regions \in Seq(Region), NEW handles, IsHandles(handles), NEW region \in Region,
         region.owner = Len(variables), region.live, Declared = "heaped" => region.place = "heap",
         regions' = regions \o (handles \o <<region>>)
  PROVE  /\ handles \o <<region>> \in Seq(Region)
         /\ \A i \in DOMAIN (handles \o <<region>>) :
              /\ (handles \o <<region>>)[i].owner = Len(variables)
              /\ (handles \o <<region>>)[i].live
              /\ Declared = "heaped" => (handles \o <<region>>)[i].place = "heap"
         /\ regions' \in Seq(Region)
         /\ Len(regions) + Len(handles) + 1 \in DOMAIN regions' \ DOMAIN regions
         /\ regions'[Len(regions) + Len(handles) + 1] = region
         /\ \A r \in DOMAIN regions' \ DOMAIN regions :
              r # Len(regions) + Len(handles) + 1 => regions'[r].role = "handle"
<1> DEFINE new == handles \o <<region>>
           array == Len(regions) + Len(handles) + 1
<1>1. /\ handles \in Seq(Region) /\ Len(handles) \in Nat /\ <<region>> \in Seq(Region)
      /\ Len(regions) \in Nat /\ DOMAIN regions = 1 .. Len(regions)
  BY DEF IsHandles
<1>2. /\ new \in Seq(Region) /\ Len(new) = Len(handles) + 1 /\ new[Len(handles) + 1] = region
      /\ \A i \in 1 .. Len(handles) : new[i] = handles[i]
  BY <1>1
<1> HIDE DEF new
<1>3. \A i \in DOMAIN new : i \in 1 .. Len(handles) \/ i = Len(handles) + 1 BY <1>1, <1>2
<1>4. \A i \in 1 .. Len(handles) : /\ handles[i].role = "handle" /\ handles[i].live
                                   /\ handles[i].owner = Len(variables)
                                   /\ Declared = "heaped" => handles[i].place = "heap"
  BY <1>1 DEF IsHandles
<1>5. \A i \in DOMAIN new : /\ new[i].owner = Len(variables) /\ new[i].live
                            /\ Declared = "heaped" => new[i].place = "heap"
  BY <1>2, <1>3, <1>4
<1>6. new \in Seq(Region) /\ regions' = regions \o new BY <1>2 DEF new
<1>7. /\ regions' \in Seq(Region) /\ Len(regions') = Len(regions) + Len(new)
      /\ DOMAIN regions' = 1 .. Len(regions')
      /\ \A i \in DOMAIN new : regions'[Len(regions) + i] = new[i]
      /\ \A r \in DOMAIN regions' \ DOMAIN regions :
           r - Len(regions) \in DOMAIN new /\ regions'[r] = new[r - Len(regions)]
  <2>1. /\ regions' \in Seq(Region) /\ Len(regions') = Len(regions) + Len(new)
        /\ Len(new) \in Nat /\ DOMAIN new = 1 .. Len(new)
        /\ \A i \in 1 .. Len(new) : regions'[Len(regions) + i] = new[i]
    <3>1. /\ regions \o new \in Seq(Region) /\ Len(regions \o new) = Len(regions) + Len(new)
          /\ Len(new) \in Nat /\ DOMAIN new = 1 .. Len(new)
      BY <1>6
    <3>2. \A i \in 1 .. Len(new) : (regions \o new)[Len(regions) + i] = new[i] BY <1>6
    <3> QED BY <1>6, <3>1, <3>2
  <2>2. DOMAIN regions' = 1 .. Len(regions') BY <2>1
  <2>3. ASSUME NEW r \in DOMAIN regions' \ DOMAIN regions
        PROVE  r - Len(regions) \in DOMAIN new /\ regions'[r] = new[r - Len(regions)]
    <3>1. r \in Nat /\ r - Len(regions) \in 1 .. Len(new) /\ Len(regions) + (r - Len(regions)) = r
      BY <1>1, <2>1, <2>2
    <3> QED BY <2>1, <3>1
  <2> QED BY <2>1, <2>2, <2>3
<1>8. /\ array \in DOMAIN regions' \ DOMAIN regions
      /\ regions'[array] = region
  BY <1>1, <1>2, <1>7
<1>9. ASSUME NEW r \in DOMAIN regions' \ DOMAIN regions, r # array PROVE regions'[r].role = "handle"
  <2>1. r \in Nat /\ r > Len(regions) /\ r <= Len(regions) + Len(handles) + 1 BY <1>1, <1>2, <1>7
  <2>4. r # Len(regions) + Len(handles) + 1 BY <1>9
  <2> HIDE DEF array
  <2>2. r - Len(regions) \in 1 .. Len(handles)
    <3>1. PICK k : k = Len(regions) OBVIOUS
    <3>2. PICK h : h = Len(handles) OBVIOUS
    <3>3. r \in Nat /\ k \in Nat /\ h \in Nat /\ r > k /\ r <= k + h + 1 /\ r # k + h + 1
      BY <1>1, <2>1, <2>4, <3>1, <3>2
    <3>4. r - k \in 1 .. h BY <3>3
    <3> QED BY <3>1, <3>2, <3>4
  <2>3. regions'[r] = new[r - Len(regions)] BY <1>7
  <2> QED BY <1>2, <1>4, <2>2, <2>3
<1> HIDE DEF array
<1>10. \A r \in DOMAIN regions' \ DOMAIN regions : r # array => regions'[r].role = "handle" BY <1>9
<1> QED BY <1>2, <1>5, <1>7, <1>8, <1>10 DEF new, array

(* The elements of a vector are of a type that is reached. *)
LEMMA ElementReached ==
  ASSUME Inv, agenda # <<>>, First.do \in Allocates, ClassOf(First.type) = "vector"
  PROVE  ElementOf(First.type) \in OutsideTables[Latest.type]
<1>1. First.type \in Types /\ Latest.type \in Types /\ First.type \in OutsideTables[Latest.type] BY CallKnown
<1>2. 1 \in DOMAIN Def[First.type].parts BY <1>1, DefTyped, DefAssumption DEF ClassOf
<1>3. ElementOf(First.type) \in PartsOf(First.type) BY <1>2 DEF PartsOf, ElementOf
<1>4. ElementOf(First.type) \in Reached(First.type) BY <1>3 DEF Reached
<1> QED BY <1>1, <1>4, OutsideIs

LEMMA ElementCovers ==
  ASSUME NEW do, NEW t \in Types, NEW r \in Nat, NEW n \in Nat,
         NEW i \in DOMAIN Elements(do, t, r, n), NEW p \in Cover(Elements(do, t, r, n)[i])
  PROVE  p.at[1] = r /\ p.at[2] = i
<1>1. i \in 1 .. n /\ Elements(do, t, r, n)[i] = ToDo(do, t, <<r, i>>) BY DEF Elements
<1>2. PICK at : at = <<r, i>> OBVIOUS
<1>3. at \in Seq(Nat) /\ Len(at) = 2 /\ at[1] = r /\ at[2] = i BY <1>1, <1>2
<1>4. p \in Spots(at, t) BY <1>1, <1>2 DEF Cover, ToDo
<1>5. \A k \in 1 .. Len(at) : p.at[k] = at[k] BY <1>3, <1>4, SpotPrefix
<1> QED BY <1>3, <1>5

(* A vector gets its array. *)
LEMMA VectorStep ==
  ASSUME Inv, status = "ok", agenda # <<>>, First.do \in Allocates, First.do # "member", ClassOf(First.type) = "vector",
         NEW handles, IsHandles(handles), NEW do \in DoneFor(Declared),
         do = "member" => Declared = "stacked",
         NEW place \in {"heap", "stack", "global"}, Declared = "heaped" => place = "heap",
         AllocateVector(place, handles, do), UNCHANGED <<variables, count, status>>
  PROVE  AllocStepped
<1> DEFINE t == First.type
           n == NumElem(t)
           array == Len(regions) + Len(handles) + 1
           region == NewRegion(place, "array", ElementOf(t), n)
           new == handles \o <<region>>
           tasks == Elements(do, ElementOf(t), array, n)
<1>1. /\ First.type \in Types /\ First.at \in Seq(Nat) /\ First.at # <<>> /\ First.at[1] \in Nat
      /\ First.at[1] \in DOMAIN regions /\ regions[First.at[1]].owner = Len(variables)
      /\ regions \in Seq(Region) /\ Len(regions) \in Nat /\ DOMAIN regions = 1 .. Len(regions)
      /\ built \subseteq Types \X {"heaped", "stacked", "context", "argument"}
      /\ variables[Len(variables)].place \in {"heaped", "stacked", "context", "argument"}
  BY CallKnown
<1>2. Typed BY DEF Inv
<1>3. /\ ElementOf(t) \in Types /\ n \in Nat BY <1>1, <1>2, DefTyped, NumElemTyped DEF ClassOf
<1>4. CASE ~Def[t].sized
  <2>1. /\ regions' = regions \o handles /\ GoOn(<<>>) /\ UNCHANGED <<memory, built>>
    BY <1>4 DEF AllocateVector
  <2>2. ASSUME NEW p \in Cover(First) PROVE ~SeenTo(p, Declared)
    <3>1. p \in Spots(First.at, First.type) BY DEF Cover
    <3>2. p \in Spot /\ p = [at |-> First.at, type |-> First.type] BY <1>1, <3>1, SpotsTyped
    <3>3. p.type = First.type BY <3>2
    <3> QED BY <1>4, <3>2, <3>3, NotSeen
  <2> QED BY <2>1, <2>2, HandlesStep
<1>5. CASE Def[t].sized
  <2>1. /\ regions' = regions \o handles \o <<region>>
        /\ memory' = Stored(First.at, array)
        /\ built' = built \cup {<<t, variables[Len(variables)].place>>}
        /\ agenda' = tasks \o Rest
    BY <1>5 DEF AllocateVector, GoOn
  <2>2. /\ region \in Region /\ region.role = "array" /\ region.type = ElementOf(t) /\ region.len = n
        /\ region.owner = Len(variables) /\ region.live /\ region.place = place
    <3> HIDE DEF n, t
    <3>1. ElementOf(t) \in Types /\ n \in Nat /\ Len(variables) \in Nat BY <1>2, <1>3 DEF Typed, StorageOK
    <3> QED BY <3>1 DEF NewRegion, Region
  <2> HIDE DEF region, n
  <2>3. /\ new \in Seq(Region)
        /\ \A i \in DOMAIN new : /\ new[i].owner = Len(variables) /\ new[i].live
                                 /\ Declared = "heaped" => new[i].place = "heap"
        /\ regions' = regions \o new /\ regions' \in Seq(Region)
        /\ array \in DOMAIN regions' \ DOMAIN regions /\ regions'[array] = region
        /\ \A r \in DOMAIN regions' \ DOMAIN regions : r # array => regions'[r].role = "handle"
    <3>5. Declared = "heaped" => region.place = "heap" BY <2>2
    <3>1. handles \in Seq(Region) /\ <<region>> \in Seq(Region) /\ regions \in Seq(Region)
      BY <1>1, <2>2 DEF IsHandles
    <3> DEFINE one == <<region>>
    <3>2. regions' = (regions \o handles) \o one /\ new = handles \o one /\ one \in Seq(Region) BY <2>1, <3>1
    <3> HIDE DEF one, new
    <3>3. regions' = regions \o new BY <3>1, <3>2, ConcatAssociative
    <3>4. regions' = regions \o (handles \o <<region>>) BY <3>3 DEF new
    <3>6. PICK all : all = handles \o <<region>> OBVIOUS
    <3>7. PICK r0 : r0 = region OBVIOUS
    <3>8. /\ r0 \in Region /\ r0.owner = Len(variables) /\ r0.live
          /\ Declared = "heaped" => r0.place = "heap"
          /\ all = handles \o <<r0>> /\ regions' = regions \o (handles \o <<r0>>)
      BY <2>2, <3>4, <3>5, <3>6, <3>7
    <3>9. /\ all \in Seq(Region)
          /\ \A i \in DOMAIN all : /\ all[i].owner = Len(variables) /\ all[i].live
                                   /\ Declared = "heaped" => all[i].place = "heap"
          /\ regions' \in Seq(Region)
          /\ Len(regions) + Len(handles) + 1 \in DOMAIN regions' \ DOMAIN regions
          /\ regions'[Len(regions) + Len(handles) + 1] = r0
          /\ \A r \in DOMAIN regions' \ DOMAIN regions :
               r # Len(regions) + Len(handles) + 1 => regions'[r].role = "handle"
      BY <1>1, <3>8, ArrayAppended, Zenon
    <3> QED BY <3>3, <3>6, <3>7, <3>9 DEF new
  <2>4. /\ array \in Nat /\ regions'[array].owner = Len(variables)
        /\ regions'[array].role = "array" /\ regions'[array].type = ElementOf(t)
        /\ regions'[array].len = n
    BY <2>2, <2>3
  <2> HIDE DEF array, new
  <2>5. tasks \in Seq(GoodTask) /\ \A i \in DOMAIN tasks : ForDeclared(tasks[i])
    BY <1>3, <2>3, <2>4, ElementCalls, ElementReached
  <2>6. /\ DOMAIN memory' = DOMAIN memory \cup {First.at}
        /\ memory'[First.at] = array
        /\ \A a \in DOMAIN memory \ {First.at} : memory'[a] = memory[a]
    BY <2>1 DEF Stored
  <2>7. ASSUME NEW r \in DOMAIN regions' \ DOMAIN regions, NEW p \in PlacesIn(r)', SeenTo(p, Declared)
        PROVE  \E i \in DOMAIN tasks : p \in Cover(tasks[i])
    <3>1. p \in PlacesAt(r, regions'[r].role, regions'[r].type, regions'[r].len) BY <2>7, PlacesInPrimed
    <3>2. r = array BY <2>3, <3>1 DEF PlacesAt
    <3>3. p \in PlacesAt(array, "array", ElementOf(t), n) BY <2>2, <2>3, <3>1, <3>2
    <3>4. do \in {"heap", "stack", "context", "copy", "member"} BY DEF DoneFor, Allocates
    <3> QED BY <1>3, <2>4, <2>7, <3>3, <3>4, ArrayCovered
  <2>8. ASSUME NEW p \in Cover(First) PROVE p.at \in {First.at}
    <3>1. p \in Spots(First.at, First.type) BY DEF Cover
    <3>2. p = [at |-> First.at, type |-> First.type] BY <1>1, <3>1, SpotsTyped
    <3> QED BY <3>2
  <2>9. /\ built' \subseteq Types \X {"heaped", "stacked", "context", "argument"}
        /\ \A b \in built' : b \in built \/ Def[b[1]].sized
    BY <1>1, <1>5, <2>1
  <2>13. \E p \in Spots(First.at, First.type) : p.at = First.at /\ Leads(p)'
    <3>10. [at |-> First.at, type |-> First.type] \in Spots(First.at, First.type) BY <1>1, VectorSpots
    <3>1. PICK p \in Spots(First.at, First.type) : p.at = First.at /\ p.type = First.type BY <3>10
    <3>2. PICK a : a = array OBVIOUS
    <3>3. PICK s : s = First.type OBVIOUS
    <3>4. memory'[p.at] = a BY <2>6, <3>1, <3>2
    <3>5. OwnerOf(a)'.count = count
      <4>1. count = Latest.count BY CallKnown
      <4>2. regions'[a].owner = Len(variables) /\ variables' = variables BY <2>4, <3>2
      <4> QED BY <4>1, <4>2 DEF OwnerOf, Latest
    <3>6. regions'[a].len = SizeFor(s, a)'
      <4>1. regions'[a].len = NumElem(s) BY <2>4, <3>2, <3>3 DEF n
      <4> QED BY <3>5, <4>1 DEF NumElem, SizeFor
    <3>7. regions'[a].role = "array" /\ regions'[a].type = ElementOf(s) BY <2>4, <3>2, <3>3
    <3>8. p.type = s /\ Def[s].sized /\ ClassOf(s) # "table" BY <1>5, <3>1, <3>3
    <3> HIDE DEF array, t
    <3>9. Leads(p)' BY <3>4, <3>6, <3>7, <3>8 DEF Leads
    <3> QED BY <3>1, <3>9
  <2>14. ASSUME NEW i \in DOMAIN tasks, NEW p \in Cover(tasks[i])
         PROVE  p.at[1] = array /\ p.at[2] = i
    BY <1>3, <2>4, ElementCovers
  <2>15. /\ \A i, j \in DOMAIN tasks : \A p \in Cover(tasks[i]), q \in Cover(tasks[j]) :
              p.at = q.at => i = j
         /\ \A i \in DOMAIN tasks : \A p \in Cover(tasks[i]) : p.at[1] \notin DOMAIN regions
         /\ \A r \in DOMAIN regions' \ DOMAIN regions :
              /\ regions'[r].role # "base"
              /\ regions'[r].role \in {"array", "field"} => \E d \in {First.at} : memory'[d] = r
    <3>1. array \notin DOMAIN regions BY <2>3
    <3>2. \A r \in DOMAIN regions' \ DOMAIN regions :
            r = array \/ regions'[r].role = "handle"
      BY <2>3
    <3>3. ASSUME NEW r \in DOMAIN regions' \ DOMAIN regions
          PROVE  /\ regions'[r].role # "base"
                 /\ regions'[r].role \in {"array", "field"} => \E d \in {First.at} : memory'[d] = r
      <4>1. CASE r = array BY <2>4, <2>6, <4>1
      <4>2. CASE regions'[r].role = "handle" BY <4>2
      <4> QED BY <3>2, <4>1, <4>2
    <3> HIDE DEF tasks
    <3>4. \A i, j \in DOMAIN tasks : \A p \in Cover(tasks[i]), q \in Cover(tasks[j]) :
            p.at = q.at => i = j
      BY <2>14
    <3> QED BY <2>14, <3>1, <3>3, <3>4
  <2> HIDE DEF tasks, t
  <2> DEFINE D == {First.at}
  <2>11. /\ DOMAIN memory' = DOMAIN memory \cup D \cup {}
         /\ \A d \in D :
              /\ d \in Seq(Nat) /\ d # <<>>
              /\ d[1] \in DOMAIN regions /\ regions[d[1]].owner = Len(variables)
              /\ memory'[d] \in DOMAIN regions' \ DOMAIN regions
              /\ regions'[memory'[d]].role \in {"array", "field"}
              /\ \E p \in Spots(First.at, First.type) : p.at = d /\ Leads(p)'
         /\ \A d, e \in D : memory'[d] = memory'[e] => d = e
         /\ \A a \in DOMAIN memory \ (D \cup {}) : memory'[a] = memory[a]
    BY <1>1, <2>2, <2>3, <2>6, <2>13
  <2>12. /\ \A p \in Cover(First) :
              SeenTo(p, Declared) => p.at \in D \/ \E i \in DOMAIN tasks : p \in Cover(tasks[i])
         /\ \A r \in DOMAIN regions' \ DOMAIN regions : \A p \in PlacesIn(r)' :
              SeenTo(p, Declared) => \E i \in DOMAIN tasks : p \in Cover(tasks[i])
    BY <2>7, <2>8
  <2>16. /\ \A i, j \in DOMAIN tasks : \A p \in Cover(tasks[i]), q \in Cover(tasks[j]) :
              p.at = q.at => i = j
         /\ \A i \in DOMAIN tasks : \A p \in Cover(tasks[i]) : p.at[1] \notin DOMAIN regions
         /\ \A r \in DOMAIN regions' \ DOMAIN regions :
              /\ regions'[r].role # "base"
              /\ regions'[r].role \in {"array", "field"} => \E d \in D : memory'[d] = r
         /\ built \subseteq built'
    BY <2>1, <2>15
  <2> HIDE DEF D
  <2>10. AllocStep(new, tasks, D, {})
    BY <1>1, <2>1, <2>3, <2>5, <2>9, <2>11, <2>12, <2>16, Zenon DEF AllocStep
  <2> QED BY <2>10 DEF AllocStepped
<1> QED BY <1>4, <1>5

(* A table gets the array of each of its fields. *)
LEMMA TableStep ==
  ASSUME Inv, status = "ok", agenda # <<>>, First.do \in Allocates,
         First.do # "member", ClassOf(First.type) = "table",
         NEW handles, IsHandles(handles), NEW place \in {"heap", "stack", "global"},
         Declared = "heaped" => place = "heap", AllocateTable(place, handles), UNCHANGED <<variables, count, status>>
  PROVE  AllocStepped
<1> DEFINE t == First.type
           n == NumElem(t)
           fields == DOMAIN Def[t].parts
           before == Len(regions) + Len(handles)
           at(f) == First.at \o <<f>>
           columns == [f \in fields |-> NewRegion(place, "field", Def[t].parts[f], n)]
           new == handles \o columns
           D == {at(f) : f \in fields}
<1>1. /\ First.type \in Types /\ First.at \in Seq(Nat) /\ First.at # <<>> /\ First.at[1] \in Nat
      /\ Len(First.at) \in Nat
      /\ First.at[1] \in DOMAIN regions /\ regions[First.at[1]].owner = Len(variables)
      /\ regions \in Seq(Region) /\ Len(regions) \in Nat /\ DOMAIN regions = 1 .. Len(regions)
      /\ built \subseteq Types \X {"heaped", "stacked", "context", "argument"}
  BY CallKnown
<1>2. Typed BY DEF Inv
<1>3. /\ n \in Nat /\ fields = 1 .. Len(Def[t].parts) /\ Len(Def[t].parts) \in Nat
      /\ \A f \in fields : Def[t].parts[f] \in Types
  BY <1>1, <1>2, DefTyped, NumElemTyped
<1>4. /\ regions' = regions \o handles \o columns
      /\ memory' = [b \in DOMAIN memory \cup D |-> IF b \in D THEN before + b[Len(b)] ELSE memory[b]]
      /\ agenda' = <<>> \o Rest /\ built' = built
  BY DEF AllocateTable, GoOn
<1>5. ASSUME NEW f \in fields
      PROVE  /\ columns[f] \in Region /\ columns[f].role = "field"
             /\ columns[f].owner = Len(variables) /\ columns[f].live /\ columns[f].place = place
  <2>1. columns[f] = NewRegion(place, "field", Def[t].parts[f], n) OBVIOUS
  <2>2. Def[t].parts[f] \in Types /\ Len(variables) \in Nat BY <1>2, <1>3 DEF Typed, StorageOK
  <2> HIDE DEF n, t, columns, fields
  <2> QED BY <1>3, <2>1, <2>2 DEF NewRegion, Region
<1>6. columns \in Seq(Region) /\ Len(columns) = Len(Def[t].parts) /\ DOMAIN columns = fields
  <2>1. columns = [f \in fields |-> columns[f]] /\ DOMAIN columns = fields OBVIOUS
  <2> DEFINE k == Len(Def[t].parts)
  <2>2. fields = 1 .. k /\ k \in Nat BY <1>3
  <2> HIDE DEF columns, fields, k
  <2>3. columns \in Seq(Region) /\ Len(columns) = k BY <1>5, <2>1, <2>2
  <2> QED BY <2>1, <2>3 DEF k
<1>7. handles \in Seq(Region) /\ Len(handles) \in Nat /\ DOMAIN handles = 1 .. Len(handles) BY DEF IsHandles
<1> HIDE DEF columns, fields
<1>8. new \in Seq(Region) /\ Len(new) = Len(handles) + Len(columns)
  <2>1. columns \in Seq(Region) /\ handles \in Seq(Region) BY <1>6, <1>7
  <2> QED BY <2>1
<1>9. /\ \A i \in 1 .. Len(handles) : new[i] = handles[i]
      /\ \A f \in fields : Len(handles) + f \in DOMAIN new /\ new[Len(handles) + f] = columns[f]
      /\ \A i \in DOMAIN new : i \in 1 .. Len(handles) \/ i - Len(handles) \in fields
  <2>1. fields = 1 .. Len(columns) /\ Len(columns) \in Nat BY <1>3, <1>6
  <2> QED BY <1>6, <1>7, <2>1
<1>10. ASSUME NEW i \in DOMAIN new
       PROVE  /\ new[i].owner = Len(variables) /\ new[i].live /\ new[i].role \in {"handle", "field"}
              /\ Declared = "heaped" => new[i].place = "heap"
  <2>1. CASE i \in 1 .. Len(handles) BY <1>7, <1>9, <2>1 DEF IsHandles
  <2>2. CASE i - Len(handles) \in fields
    <3>1. i \in Nat BY <1>8
    <3>2. new[i] = columns[i - Len(handles)]
      <4>1. new[Len(handles) + (i - Len(handles))] = columns[i - Len(handles)] BY <1>9, <2>2
      <4>2. Len(handles) + (i - Len(handles)) = i BY <1>7, <3>1
      <4> QED BY <4>1, <4>2
    <3> QED BY <1>5, <2>2, <3>2
  <2> QED BY <1>9, <2>1, <2>2
<1>11. regions' = regions \o new
  <2>1. regions \in Seq(Region) /\ columns \in Seq(Region) /\ handles \in Seq(Region) BY <1>1, <1>6, <1>7
  <2>2. regions' = (regions \o handles) \o columns BY <1>4
  <2> QED BY <2>1, <2>2, ConcatAssociative
<1> HIDE DEF new
<1>12. /\ regions' \in Seq(Region) /\ Len(regions') = Len(regions) + Len(new)
       /\ DOMAIN regions' = 1 .. Len(regions') /\ Len(new) \in Nat
       /\ \A i \in DOMAIN new : Len(regions) + i \in DOMAIN regions' /\ regions'[Len(regions) + i] = new[i]
       /\ \A r \in DOMAIN regions' \ DOMAIN regions :
            r - Len(regions) \in DOMAIN new /\ regions'[r] = new[r - Len(regions)]
  <2>1. regions \in Seq(Region) /\ new \in Seq(Region) BY <1>1, <1>8
  <2> QED BY <1>11, <2>1
<1>13. ASSUME NEW r \in DOMAIN regions' \ DOMAIN regions PROVE PlacesIn(r)' = {}
  <2>1. regions'[r].role \in {"handle", "field"} BY <1>10, <1>12
  <2> QED BY <2>1 DEF PlacesIn
<1>14. ASSUME NEW f \in fields
       PROVE  /\ at(f) \in Seq(Nat) /\ at(f) # <<>> /\ at(f)[1] = First.at[1]
              /\ at(f) \in D /\ memory'[at(f)] = before + f
              /\ before + f \in DOMAIN regions' \ DOMAIN regions
              /\ regions'[before + f].role = "field"
  <2>1. f \in Nat /\ f >= 1 BY <1>3
  <2>2. /\ at(f) \in Seq(Nat) /\ at(f) # <<>> /\ at(f)[1] = First.at[1]
        /\ Len(at(f)) = Len(First.at) + 1 /\ at(f)[Len(First.at) + 1] = f
    BY <1>1, <2>1
  <2>3. at(f) \in D OBVIOUS
  <2>4. memory'[at(f)] = before + at(f)[Len(at(f))]
    <3> HIDE DEF at, before, D
    <3> QED BY <1>4, <2>3
  <2>5. at(f)[Len(at(f))] = f BY <2>2
  <2>6. Len(handles) + f \in DOMAIN new /\ new[Len(handles) + f] = columns[f] /\ columns[f].role = "field"
    BY <1>5, <1>9
  <2>7. before + f = Len(regions) + (Len(handles) + f) /\ before + f > Len(regions) BY <1>1, <1>7, <2>1
  <2>8. before + f \in DOMAIN regions' /\ regions'[before + f] = new[Len(handles) + f] BY <1>12, <2>6, <2>7
  <2>9. before + f \notin DOMAIN regions BY <1>1, <1>7, <2>1, <2>7
  <2> HIDE DEF at, before, D
  <2> QED BY <2>2, <2>3, <2>4, <2>5, <2>6, <2>8, <2>9
<1>15. /\ DOMAIN memory' = DOMAIN memory \cup D \cup {}
       /\ \A a \in DOMAIN memory \ (D \cup {}) : memory'[a] = memory[a]
  <2> HIDE DEF before, D
  <2> QED BY <1>4
<1>16. \A d \in D : \E f \in fields : d = at(f) OBVIOUS
<1>17. before \in Nat BY <1>1, <1>7
<1> HIDE DEF D, before
<1>18. /\ \A d \in D :
            /\ d \in Seq(Nat) /\ d # <<>>
            /\ d[1] \in DOMAIN regions /\ regions[d[1]].owner = Len(variables)
            /\ memory'[d] \in DOMAIN regions' \ DOMAIN regions
            /\ regions'[memory'[d]].role \in {"array", "field"}
            /\ \E p \in Spots(First.at, First.type) : p.at = d /\ Leads(p)'
       /\ \A d, e \in D : memory'[d] = memory'[e] => d = e
  <2>1. ASSUME NEW d \in D
        PROVE  /\ d \in Seq(Nat) /\ d # <<>>
               /\ d[1] \in DOMAIN regions /\ regions[d[1]].owner = Len(variables)
               /\ memory'[d] \in DOMAIN regions' \ DOMAIN regions
               /\ regions'[memory'[d]].role \in {"array", "field"}
               /\ \E p \in Spots(First.at, First.type) : p.at = d /\ Leads(p)'
    <3>1. PICK f \in fields : d = at(f) BY <1>16
    <3>2. [at |-> at(f), type |-> First.type] \in Spots(First.at, First.type) BY <1>1, TableSpots DEF fields
    <3>3. PICK p \in Spots(First.at, First.type) : p.at = d /\ ClassOf(p.type) = "table" BY <3>1, <3>2
    <3> HIDE DEF at
    <3>6. regions'[memory'[p.at]].role = "field" BY <1>14, <3>1, <3>3
    <3>4. Leads(p)' BY <3>3, <3>6 DEF Leads
    <3>5. \E q \in Spots(First.at, First.type) : q.at = d /\ Leads(q)' BY <3>3, <3>4
    <3> QED BY <1>1, <1>14, <3>1, <3>5
  <2>2. ASSUME NEW d \in D, NEW e \in D, memory'[d] = memory'[e] PROVE d = e
    <3>1. PICK f \in fields : d = at(f) BY <1>16
    <3>2. PICK g \in fields : e = at(g) BY <1>16
    <3> HIDE DEF at
    <3>3. before + f = before + g BY <1>14, <2>2, <3>1, <3>2
    <3>4. f \in Nat /\ g \in Nat BY <1>3
    <3>5. f = g BY <1>17, <3>3, <3>4
    <3> QED BY <3>1, <3>2, <3>5
  <2> QED BY <2>1, <2>2
<1>19. ASSUME NEW p \in Cover(First) PROVE p.at \in D
  <2>1. p \in Spots(First.at, First.type) BY DEF Cover
  <2>2. PICK f \in fields : p.at = First.at \o <<f>> BY <1>1, <2>1, SpotsTyped, Zenon DEF fields
  <2> QED BY <1>14, <2>2
<1>22. ASSUME NEW r \in DOMAIN regions' \ DOMAIN regions
       PROVE  /\ regions'[r].role # "base"
              /\ regions'[r].role \in {"array", "field"} => \E d \in D : memory'[d] = r
  <2>1. /\ r - Len(regions) \in DOMAIN new /\ regions'[r] = new[r - Len(regions)] /\ r \in Nat BY <1>12
  <2>2. regions'[r].role \in {"handle", "field"} BY <1>10, <2>1
  <2>3. ASSUME regions'[r].role = "field" PROVE \E d \in D : memory'[d] = r
    <3>1. r - Len(regions) \notin 1 .. Len(handles) BY <1>9, <2>1, <2>3 DEF IsHandles
    <3>2. PICK f \in fields : f = r - Len(regions) - Len(handles) BY <1>9, <2>1, <3>1
    <3>3. f \in Nat BY <1>3
    <3>4. before + f = r BY <1>1, <1>7, <2>1, <3>2, <3>3 DEF before
    <3> QED BY <1>14, <3>4
  <2> QED BY <2>2, <2>3
<1>20. <<>> \in Seq(GoodTask) /\ DOMAIN <<>> = {} OBVIOUS
<1>21. AllocStep(new, <<>>, D, {})
  <2> HIDE DEF t, at
  <2> QED BY <1>1, <1>4, <1>8, <1>10, <1>11, <1>13, <1>15, <1>18, <1>19, <1>20, <1>22 DEF AllocStep
<1> QED BY <1>21 DEF AllocStepped

(* As long as no region gets other contents, pointers lead to what they led to. *)
LEMMA SameStorageLeads ==
  ASSUME Typed, PointersLead, memory' = memory, built' = built, DOMAIN regions' = DOMAIN regions,
         \A r \in DOMAIN regions :
           /\ regions'[r].role = regions[r].role /\ regions'[r].type = regions[r].type
           /\ regions'[r].len = regions[r].len /\ OwnerOf(r)'.count = OwnerOf(r).count
  PROVE  PointersLead'
<1>1. ASSUME NEW r \in DOMAIN regions', NEW p \in PlacesIn(r)', p.at \in DOMAIN memory'
      PROVE  Leads(p)'
  <2>1. r \in DOMAIN regions /\ p \in PlacesIn(r) BY <1>1, PlacesInPrimed, PlacesInAt
  <2>2. Leads(p) /\ memory[p.at] \in DOMAIN regions BY <1>1, <2>1 DEF PointersLead, Typed, StorageOK
  <2> QED BY <2>2, LeadStays
<1>2. \A b \in built' : Def[b[1]].sized BY DEF PointersLead
<1> QED BY <1>1, <1>2 DEF PointersLead, Leads, SizeFor, OwnerOf

(* A call stays charged as long as neither variables nor storage change. *)
LEMMA ChargedStays ==
  ASSUME NEW x, Charged(x), UNCHANGED <<regions, variables, count>>
  PROVE  Charged(x)'
<1>1. \A r : PlacesIn(r)' = PlacesIn(r) BY DEF PlacesIn
<1> QED BY <1>1 DEF Charged, Declared, Latest, OwnerOf

LEMMA AllStayCharged ==
  ASSUME UNCHANGED <<regions, variables, count>>, \A i \in DOMAIN agenda' : Charged(agenda'[i])
  PROVE  AllCharged'
<1>1. ASSUME NEW i \in DOMAIN agenda' PROVE \E x : x = agenda'[i] /\ Charged(x)'
  <2>1. PICK x : x = agenda'[i] OBVIOUS
  <2> QED BY <2>1, ChargedStays
<1> QED BY <1>1 DEF AllCharged, Charged, Declared, Latest, OwnerOf

(* Nothing that ends the behaviour breaks what is promised while it goes on. *)
LEMMA StuckStep ==
  ASSUME Inv, UNCHANGED <<regions, memory, variables, agenda, count, built>>,
         status' \in {"wild", "crashed"}
  PROVE  Inv'
<1>1. Typed /\ AllCharged /\ StorageKnown /\ PointersLead BY DEF Inv
<1>2. Typed' BY <1>1 DEF Typed, StorageOK
<1>3. AllCharged' BY <1>1, AllStayCharged DEF AllCharged
<1>4. StorageKnown' BY <1>1 DEF StorageKnown, Own, OwnerOf
<1>5. PlacesSettled' BY DEF PlacesSettled
<1>6. PointersLead' BY <1>1, SameStorageLeads DEF OwnerOf
<1> QED BY <1>2, <1>3, <1>4, <1>5, <1>6 DEF Inv

LEMMA PairJoined ==
  ASSUME NEW S, NEW x \in S, NEW y \in S
  PROVE  <<x>> \o <<y>> = <<x, y>>
<1> DEFINE s == <<x>> \o <<y>>
           t == <<x, y>>
<1>1. s \in Seq(S) /\ Len(s) = 2 /\ s[1] = x /\ s[2] = y OBVIOUS
<1>2. t \in Seq(S) /\ Len(t) = 2 /\ t[1] = x /\ t[2] = y OBVIOUS
<1> HIDE DEF s, t
<1>3. \A i \in 1 .. Len(s) : s[i] = t[i] BY <1>1, <1>2
<1>4. s = t BY <1>1, <1>2, <1>3, SeqEqual
<1> QED BY <1>4 DEF s, t

LEMMA NothingJoined ==
  ASSUME NEW x \in Nat
  PROVE  <<x>> \o <<>> = <<x>>
<1> DEFINE one == <<x>>
<1>1. one \in Seq(Nat) OBVIOUS
<1> HIDE DEF one
<1>2. one \o <<>> = one BY <1>1
<1> QED BY <1>2 DEF one

(* The same place in a copy. *)
LEMMA SpotMoves ==
  ASSUME NEW t \in Types, NEW at \in Seq(Nat), at # <<>>, NEW p \in Spots(at, t), NEW b \in Nat
  PROVE  [at |-> <<b>> \o Tail(p.at), type |-> p.type] \in Spots(<<b>> \o Tail(at), t)
<1>1. PICK q \in Places[t] : p = [at |-> at \o q.path, type |-> q.type] BY DEF Spots
<1>2. PICK path : path = q.path OBVIOUS
<1>3. path \in Seq(Nat) BY <1>2, PlacesTyped DEF Place
<1>4. PICK front : front = <<b>> OBVIOUS
<1>5. PICK rest : rest = Tail(at) OBVIOUS
<1>6. front \in Seq(Nat) /\ rest \in Seq(Nat) BY <1>4, <1>5
<1>7. Tail(at \o path) = rest \o path BY <1>3, <1>5
<1>8. (front \o rest) \o path = front \o (rest \o path) BY <1>3, <1>6, PathsAssociate
<1>9. p.at = at \o path /\ p.type = q.type BY <1>1, <1>2
<1>10. front \o Tail(p.at) = (front \o rest) \o q.path BY <1>2, <1>7, <1>8, <1>9
<1>11. [at |-> front \o Tail(p.at), type |-> p.type] = [at |-> (front \o rest) \o q.path, type |-> q.type]
  BY <1>9, <1>10
<1> QED BY <1>4, <1>5, <1>11 DEF Spots

LEMMA HandleOnly ==
  ASSUME Inv, NEW place \in {"heap", "stack", "global"}, NEW t \in Types
  PROVE  /\ (Declared = "heaped" => place = "heap") => IsHandles(<<NewRegion(place, "handle", t, 1)>>)
         /\ IsHandles(<<>>)
<1>1. /\ NewRegion(place, "handle", t, 1) \in Region
      /\ NewRegion(place, "handle", t, 1).owner = Len(variables)
      /\ NewRegion(place, "handle", t, 1).live = TRUE
      /\ NewRegion(place, "handle", t, 1).role = "handle"
      /\ NewRegion(place, "handle", t, 1).place = place
  <2>1. Len(variables) \in Nat BY DEF Inv, Typed, StorageOK
  <2> QED BY <2>1 DEF NewRegion, Region
<1> QED BY <1>1 DEF IsHandles

(* The vector in an argument gets an array of its own, with what the old array held. *)
LEMMA CopyVectorStep ==
  ASSUME Inv, CopyVector
  PROVE  \/ AllocStepped
         \/ status' = "wild" /\ UNCHANGED <<regions, memory, variables, agenda, count, built>>
<1> DEFINE t == First.type
           n == NumElem(t)
           old == PointsTo(First.at)
           handles == CopyHandles
           array == Len(regions) + Len(handles) + 1
           region == NewRegion("stack", "array", ElementOf(t), n)
           new == handles \o <<region>>
           tasks == Elements("copy", ElementOf(t), array, n)
           slots == {b \in DOMAIN memory : b[1] = old}
           C == {<<array>> \o Tail(b) : b \in slots}
           D == {First.at}
<1>1. /\ agenda # <<>> /\ First.do = "copy" /\ First.do \in Allocates /\ ClassOf(t) = "vector"
      /\ status = "ok" /\ UNCHANGED <<variables, count, built>>
  BY DEF CopyVector, Doing, Class, Allocates
<1>2. /\ First.type \in Types /\ First.at \in Seq(Nat) /\ First.at # <<>> /\ First.at[1] \in Nat
      /\ First.at[1] \in DOMAIN regions /\ regions[First.at[1]].owner = Len(variables)
      /\ First.do \in DoneFor(Declared)
      /\ regions \in Seq(Region) /\ Len(regions) \in Nat /\ DOMAIN regions = 1 .. Len(regions)
      /\ built \subseteq Types \X {"heaped", "stacked", "context", "argument"}
  BY <1>1, CallKnown
<1>3. Typed /\ Declared = "argument" /\ StorageKnown /\ PointersLead BY <1>1, <1>2 DEF Inv, DoneFor
<1>4. CASE ~Live(old)
  <2>1. status' = "wild" /\ UNCHANGED <<regions, memory, variables, agenda, count, built>>
    BY <1>4 DEF CopyVector
  <2> QED BY <2>1
<1>5. CASE Live(old)
  <2>1. /\ regions' = regions \o handles \o <<region>>
        /\ memory' = [b \in DOMAIN memory \cup C \cup D |->
                        IF b = First.at THEN array
                        ELSE IF b \in C THEN memory[<<old>> \o Tail(b)] ELSE memory[b]]
        /\ agenda' = tasks \o Rest /\ status' = "ok"
    BY <1>1, <1>5, Zenon DEF CopyVector, GoOn
  <2>2. ElementOf(t) \in Types /\ n \in Nat /\ Len(variables) \in Nat
    BY <1>1, <1>2, <1>3, DefTyped, NumElemTyped DEF ClassOf, Typed, StorageOK
  <2>3. /\ region \in Region /\ region.role = "array" /\ region.type = ElementOf(t) /\ region.len = n
        /\ region.owner = Len(variables) /\ region.live
    <3> HIDE DEF n, t
    <3> QED BY <1>2, <2>2 DEF NewRegion, Region, t
  <2> HIDE DEF region, n
  <2>4. IsHandles(handles) BY <1>2, <1>3, HandleOnly DEF CopyHandles
  <2> HIDE DEF handles
  <2>5. regions' = regions \o (handles \o <<region>>) /\ array = Len(regions) + Len(handles) + 1
    <3>1. handles \in Seq(Region) /\ regions \in Seq(Region) BY <1>2, <2>4 DEF IsHandles
    <3>2. PICK one : one = <<region>> OBVIOUS
    <3>3. one \in Seq(Region) /\ regions' = (regions \o handles) \o one BY <2>1, <2>3, <3>2
    <3>4. regions' = regions \o (handles \o one) BY <3>1, <3>3, ConcatAssociative
    <3> QED BY <3>2, <3>4
  <2>6. /\ new \in Seq(Region)
        /\ \A i \in DOMAIN new : /\ new[i].owner = Len(variables) /\ new[i].live
                                 /\ Declared = "heaped" => new[i].place = "heap"
        /\ regions' \in Seq(Region)
        /\ array \in DOMAIN regions' \ DOMAIN regions /\ regions'[array] = region
        /\ \A r \in DOMAIN regions' \ DOMAIN regions : r # array => regions'[r].role = "handle"
    <3>1. PICK all : all = handles \o <<region>> OBVIOUS
    <3>2. PICK r0 : r0 = region OBVIOUS
    <3>3. /\ r0 \in Region /\ r0.owner = Len(variables) /\ r0.live
          /\ Declared = "heaped" => r0.place = "heap"
          /\ all = handles \o <<r0>> /\ regions' = regions \o (handles \o <<r0>>)
      BY <1>3, <2>3, <2>5, <3>1, <3>2
    <3>4. /\ all \in Seq(Region)
          /\ \A i \in DOMAIN all : /\ all[i].owner = Len(variables) /\ all[i].live
                                   /\ Declared = "heaped" => all[i].place = "heap"
          /\ regions' \in Seq(Region)
          /\ Len(regions) + Len(handles) + 1 \in DOMAIN regions' \ DOMAIN regions
          /\ regions'[Len(regions) + Len(handles) + 1] = r0
          /\ \A r \in DOMAIN regions' \ DOMAIN regions :
               r # Len(regions) + Len(handles) + 1 => regions'[r].role = "handle"
      BY <1>2, <2>4, <3>3, ArrayAppended
    <3>5. new = all /\ array = Len(regions) + Len(handles) + 1 BY <2>5, <3>1 DEF new
    <3> HIDE DEF array, new
    <3> QED BY <3>2, <3>4, <3>5
  <2>15. regions' = regions \o new BY <2>5 DEF new
  <2>7. /\ array \in Nat /\ array \notin DOMAIN regions /\ regions'[array].owner = Len(variables)
        /\ regions'[array].role = "array" /\ regions'[array].type = ElementOf(t)
        /\ regions'[array].len = n
    BY <1>2, <2>3, <2>6
  <2> HIDE DEF array, new
  <2>8. tasks \in Seq(GoodTask) /\ \A i \in DOMAIN tasks : ForDeclared(tasks[i])
    <3>1. "copy" \in DoneFor(Declared) BY <1>1, <1>2
    <3>2. ElementOf(t) \in OutsideTables[Latest.type] BY <1>1, ElementReached
    <3> QED BY <2>2, <2>6, <2>7, <3>1, <3>2, ElementCalls
  <2>9. ASSUME NEW b \in slots
        PROVE  LET c == <<array>> \o Tail(b)
               IN /\ c \in Seq(Nat) /\ c # <<>> /\ c[1] = array
                  /\ <<old>> \o Tail(c) = b /\ b \in DOMAIN memory
    <3>1. b \in Seq(Nat) /\ b # <<>> /\ b[1] = old /\ b \in DOMAIN memory BY <1>3 DEF Typed, StorageOK
    <3> HIDE DEF old
    <3> DEFINE c == <<array>> \o Tail(b)
    <3>2. c \in Seq(Nat) /\ c # <<>> /\ c[1] = array BY <2>7, <3>1
    <3>3. Tail(c) = Tail(b) BY <2>7, <3>1
    <3>4. <<old>> \o Tail(b) = b BY <3>1
    <3> QED BY <3>1, <3>2, <3>3, <3>4
  <2>10. ASSUME NEW c \in C
         PROVE  /\ c \in Seq(Nat) /\ c # <<>> /\ c[1] = array /\ c # First.at
                /\ memory'[c] \in DOMAIN regions
                /\ regions[memory'[c]].role \in {"array", "field"}
    <3>1. PICK b \in slots : c = <<array>> \o Tail(b) OBVIOUS
    <3>2. /\ c \in Seq(Nat) /\ c # <<>> /\ c[1] = array /\ <<old>> \o Tail(c) = b
          /\ b \in DOMAIN memory
      BY <2>9, <3>1
    <3>3. c # First.at BY <1>2, <2>7, <3>2
    <3> HIDE DEF slots, old, C
    <3>4. memory'[c] = memory[b] BY <2>1, <3>2, <3>3
    <3>5. memory[b] \in DOMAIN regions /\ regions[memory[b]].role \in {"array", "field"}
      BY <1>3, <3>2 DEF Typed, StorageOK, StorageKnown
    <3> QED BY <3>2, <3>3, <3>4, <3>5
  <2> HIDE DEF C, old
  <2>11. /\ DOMAIN memory' = DOMAIN memory \cup D \cup C
         /\ memory'[First.at] = array
         /\ \A a \in DOMAIN memory \ (D \cup C) : memory'[a] = memory[a]
    BY <2>1
  <2>12. ASSUME NEW r \in DOMAIN regions' \ DOMAIN regions, NEW p \in PlacesIn(r)', SeenTo(p, Declared)
         PROVE  \E i \in DOMAIN tasks : p \in Cover(tasks[i])
    <3>1. p \in PlacesAt(r, regions'[r].role, regions'[r].type, regions'[r].len) BY <2>12, PlacesInPrimed
    <3>2. r = array BY <2>6, <3>1 DEF PlacesAt
    <3>3. p \in PlacesAt(array, "array", ElementOf(t), n) BY <2>3, <2>6, <3>1, <3>2
    <3> QED BY <2>2, <2>7, <2>12, <3>3, ArrayCovered
  <2>13. ASSUME NEW p \in Cover(First) PROVE p.at \in D
    <3>1. p \in Spots(First.at, First.type) BY DEF Cover
    <3>2. p = [at |-> First.at, type |-> First.type] BY <1>1, <1>2, <3>1, SpotsTyped
    <3> QED BY <3>2
  <2>20. /\ old \in DOMAIN regions /\ regions[old].role = "array" /\ regions[old].type = ElementOf(t)
         /\ regions[old].len = n
    <3>1. old \in DOMAIN regions /\ old # 0 BY <1>2, <1>5 DEF Live
    <3>2. First.at \in DOMAIN memory /\ old = memory[First.at] BY <3>1 DEF PointsTo, old
    <3>3. PICK p \in Spots(First.at, First.type) : p.at = First.at /\ p.type = First.type
      <4>1. [at |-> First.at, type |-> First.type] \in Spots(First.at, First.type)
        BY <1>1, <1>2, VectorSpots DEF t
      <4> QED BY <4>1
    <3>4. p \in PlacesIn(First.at[1]) BY <1>1, <3>3, CallKnown
    <3>5. Leads(p) BY <1>2, <1>3, <3>2, <3>3, <3>4 DEF PointersLead
    <3>6. /\ regions[old].role = "array" /\ regions[old].type = ElementOf(t)
          /\ regions[old].len = SizeFor(t, old)
      BY <1>1, <3>2, <3>3, <3>5 DEF Leads
    <3>7. Def[t].size # 0
      <4>1. t \in Literal BY <1>1, <1>3, CallKnown, OutsideIs
      <4>2. Def[t].sized BY <1>3 DEF CopyVector, PointersLead
      <4> QED BY <1>1, <4>1, <4>2, LiteralAssumption, DefTyped DEF ClassOf
    <3>8. SizeFor(t, old) = n BY <3>7 DEF SizeFor, NumElem, n
    <3> QED BY <3>1, <3>6, <3>8
  <2>21. ASSUME NEW r \in DOMAIN regions' \ DOMAIN regions, NEW p \in PlacesIn(r)', p.at \in C
         PROVE  Leads(p)'
    <3>1. p \in PlacesAt(r, regions'[r].role, regions'[r].type, regions'[r].len) BY <2>21, PlacesInPrimed
    <3>2. r = array BY <2>6, <3>1 DEF PlacesAt
    <3>3. p \in PlacesAt(array, "array", ElementOf(t), n) BY <2>3, <2>6, <3>1, <3>2
    <3>4. PICK i \in 1 .. n : ClassOf(ElementOf(t)) # "table" /\ p \in Spots(<<array, i>>, ElementOf(t))
      BY <3>3 DEF PlacesAt
    <3>5. PICK at : at = <<array, i>> OBVIOUS
    <3>6. /\ at \in Seq(Nat) /\ at # <<>> /\ Tail(at) = <<i>> /\ p \in Spots(at, ElementOf(t))
          /\ old \in Nat /\ i \in Nat
      BY <1>2, <2>2, <2>7, <2>20, <3>4, <3>5
    <3>7. PICK q : q = [at |-> <<old>> \o Tail(p.at), type |-> p.type] OBVIOUS
    <3>8. q \in Spots(<<old>> \o Tail(at), ElementOf(t)) BY <2>2, <3>6, <3>7, SpotMoves
    <3>9. <<old>> \o Tail(at) = <<old, i>>
      <4>1. <<old>> \o <<i>> = <<old, i>> BY <3>6, PairJoined
      <4> QED BY <3>6, <4>1
    <3>10. q \in PlacesIn(old)
      <4>1. q \in PlacesAt(old, "array", ElementOf(t), n) BY <3>4, <3>8, <3>9 DEF PlacesAt
      <4> QED BY <2>20, <4>1, PlacesInAt
    <3>11. q.at \in DOMAIN memory /\ memory'[p.at] = memory[q.at] /\ p.type = q.type
      <4>1. q.at = <<old>> \o Tail(p.at) /\ p.type = q.type BY <3>7
      <4>2. PICK b \in slots : p.at = <<array>> \o Tail(b) BY <2>21 DEF C
      <4>3. <<old>> \o Tail(p.at) = b /\ b \in DOMAIN memory BY <2>9, <4>2
      <4>4. memory'[p.at] = memory[<<old>> \o Tail(p.at)] BY <2>1, <2>10, <2>21
      <4> QED BY <4>1, <4>3, <4>4
    <3>12. Leads(q) /\ memory[q.at] \in DOMAIN regions
      BY <1>3, <2>20, <3>10, <3>11 DEF PointersLead, Typed, StorageOK
    <3>13. PICK m : m = memory[q.at] OBVIOUS
    <3>14. regions'[m] = regions[m] /\ OwnerOf(m)'.count = OwnerOf(m).count
      <4>1. regions'[m] = regions[m] BY <1>2, <2>6, <2>15, <3>12, <3>13
      <4> QED BY <1>1, <4>1 DEF OwnerOf
    <3> QED BY <3>11, <3>12, <3>13, <3>14 DEF Leads, SizeFor
  <2>22. \E p \in Spots(First.at, First.type) : p.at = First.at /\ Leads(p)'
    <3>10. [at |-> First.at, type |-> First.type] \in Spots(First.at, First.type)
      BY <1>1, <1>2, VectorSpots DEF t
    <3>1. PICK p \in Spots(First.at, First.type) : p.at = First.at /\ p.type = First.type BY <3>10
    <3>2. PICK a : a = array OBVIOUS
    <3>3. PICK s : s = First.type OBVIOUS
    <3>4. memory'[p.at] = a BY <2>11, <3>1, <3>2
    <3>5. OwnerOf(a)'.count = count
      <4>1. count = Latest.count BY <1>1, CallKnown
      <4>2. regions'[a].owner = Len(variables) /\ variables' = variables BY <1>1, <2>7, <3>2
      <4> QED BY <4>1, <4>2 DEF OwnerOf, Latest
    <3>6. regions'[a].len = SizeFor(s, a)'
      <4>1. regions'[a].len = NumElem(s) BY <2>7, <3>2, <3>3 DEF n, t
      <4> QED BY <3>5, <4>1 DEF NumElem, SizeFor
    <3>7. regions'[a].role = "array" /\ regions'[a].type = ElementOf(s) BY <2>7, <3>2, <3>3 DEF t
    <3>8. p.type = s /\ Def[s].sized /\ ClassOf(s) # "table"
      BY <1>1, <1>3, <3>1, <3>3 DEF CopyVector, PointersLead
    <3> HIDE DEF array, t
    <3>9. Leads(p)' BY <3>4, <3>6, <3>7, <3>8 DEF Leads
    <3> QED BY <3>1, <3>9
  <2>14. /\ \A d \in D :
              /\ d \in Seq(Nat) /\ d # <<>>
              /\ d[1] \in DOMAIN regions /\ regions[d[1]].owner = Len(variables)
              /\ memory'[d] \in DOMAIN regions' \ DOMAIN regions
              /\ regions'[memory'[d]].role \in {"array", "field"}
              /\ \E p \in Spots(First.at, First.type) : p.at = d /\ Leads(p)'
         /\ \A d, e \in D : memory'[d] = memory'[e] => d = e
    BY <1>2, <2>3, <2>6, <2>11, <2>22
  <2>23. ASSUME NEW i \in DOMAIN tasks, NEW p \in Cover(tasks[i])
         PROVE  p.at[1] = array /\ p.at[2] = i
    BY <2>2, <2>7, ElementCovers
  <2>24. /\ \A i, j \in DOMAIN tasks : \A p \in Cover(tasks[i]), q \in Cover(tasks[j]) :
              p.at = q.at => i = j
         /\ \A i \in DOMAIN tasks : \A p \in Cover(tasks[i]) : p.at[1] \notin DOMAIN regions
         /\ \A r \in DOMAIN regions' \ DOMAIN regions :
              /\ regions'[r].role # "base"
              /\ regions'[r].role \in {"array", "field"} => \E d \in D : memory'[d] = r
    BY <2>6, <2>7, <2>11, <2>23
  <2> HIDE DEF tasks, D, t
  <2>18. \A c \in C :
           /\ c \in Seq(Nat) /\ c # <<>>
           /\ c[1] \in DOMAIN regions' \ DOMAIN regions
           /\ memory'[c] \in DOMAIN regions
           /\ regions[memory'[c]].role \in {"array", "field"}
    BY <2>6, <2>10
  <2>19. agenda' = tasks \o Rest /\ status' = "ok" BY <2>1
  <2>16. AllocStep(new, tasks, D, C)
    BY <1>1, <1>2, <1>3, <2>19, <2>6, <2>8, <2>18, <2>11, <2>12, <2>13, <2>14, <2>15, <2>21, <2>24
       DEF AllocStep
  <2> QED BY <2>16 DEF AllocStepped
<1> QED BY <1>4, <1>5

-----------------------------------------------------------------------------
(* Giving back. *)

LEMMA ReleaseKnown ==
  ASSUME Inv, agenda # <<>>, First.do \in Releases
  PROVE  /\ First \in GoodTask /\ First.type \in Types /\ First.at \in Seq(Nat) /\ First.at # <<>>
         /\ First.at[1] \in Nat /\ ForUnheaped(First) /\ Rest \in Seq(GoodTask)
<1>1. Typed /\ AllCharged BY DEF Inv
<1>2. /\ First \in GoodTask /\ First.type \in Types /\ First.at \in Seq(Nat) /\ First.at # <<>>
      /\ First.at[1] \in Nat /\ Len(agenda) \in Nat /\ agenda \in Seq(GoodTask)
      /\ Rest \in Seq(GoodTask)
  BY <1>1, FirstKnown DEF Typed
<1>3. 1 \in DOMAIN agenda BY <1>2
<1>4. Charged(First) BY <1>1, <1>3 DEF AllCharged, First
<1>5. First.do \notin Allocates BY DEF Allocates, Releases
<1> QED BY <1>2, <1>4, <1>5 DEF Charged, ForUnheaped

LEMMA ReleaseStep ==
  ASSUME Inv, agenda # <<>>, First.do \in Releases,
         NEW tasks \in Seq(GoodTask), \A i \in DOMAIN tasks : ForUnheaped(tasks[i]),
         agenda' = tasks \o Rest,
         UNCHANGED <<regions, memory, variables, count, built, status>>
  PROVE  Inv'
<1>1. Typed /\ AllCharged /\ StorageKnown /\ PlacesSettled /\ PointersLead BY DEF Inv
<1>2. /\ Rest \in Seq(GoodTask) /\ Len(agenda) = Len(Rest) + 1 /\ Len(agenda) \in Nat
      /\ agenda \in Seq(GoodTask) /\ \A i \in 1 .. Len(Rest) : Rest[i] = agenda[i + 1]
      /\ variables # <<>>
  BY <1>1, FirstKnown DEF Typed
<1>3. agenda' \in Seq(GoodTask) BY <1>2
<1>4. agenda' \in Seq(Task) BY <1>3 DEF GoodTask
<1>5. Typed' BY <1>1, <1>2, <1>3, <1>4 DEF Typed, StorageOK
<1>6. ASSUME NEW i \in DOMAIN agenda'
      PROVE  \/ i \in DOMAIN tasks /\ agenda'[i] = tasks[i]
             \/ i - Len(tasks) + 1 \in DOMAIN agenda /\ agenda'[i] = agenda[i - Len(tasks) + 1]
  <2>1. CASE i <= Len(tasks) BY <1>2, <2>1
  <2>2. CASE ~(i <= Len(tasks))
    <3>1. i - Len(tasks) \in 1 .. Len(Rest) /\ agenda'[i] = Rest[i - Len(tasks)] BY <1>2, <2>2
    <3>2. agenda'[i] = agenda[i - Len(tasks) + 1] BY <1>2, <3>1
    <3>3. i - Len(tasks) + 1 \in DOMAIN agenda BY <1>2, <3>1
    <3> QED BY <3>2, <3>3
  <2> QED BY <2>1, <2>2
<1>7. ASSUME NEW i \in DOMAIN tasks PROVE Charged(tasks[i]) /\ Cover(tasks[i]) = {}
  <2>1. ForUnheaped(tasks[i]) /\ tasks[i].do \notin Allocates BY DEF ForUnheaped, Releases, Allocates
  <2> QED BY <2>1 DEF ForUnheaped, Charged, Cover, Allocates
<1>8. ASSUME NEW i \in DOMAIN agenda' PROVE Charged(agenda'[i]) BY <1>1, <1>6, <1>7 DEF AllCharged
<1>9. AllCharged' BY <1>8, AllStayCharged
<1>10. StorageKnown' BY <1>1 DEF StorageKnown, Own, OwnerOf
<1>11. ASSUME NEW p PROVE Pending(p)' <=> Pending(p)
  <2>1. ASSUME NEW i \in DOMAIN agenda', p \in Cover(agenda'[i]) PROVE Pending(p)
    BY <1>6, <1>7, <2>1 DEF Pending
  <2>2. ASSUME NEW i \in DOMAIN agenda, p \in Cover(agenda[i])
        PROVE  \E j \in DOMAIN agenda' : p \in Cover(agenda'[j])
    <3>1. i # 1 BY <2>2 DEF Cover, Releases, First
    <3>2. i - 1 \in 1 .. Len(Rest) /\ Rest[i - 1] = agenda[i] BY <1>2, <3>1
    <3>3. Len(tasks) + (i - 1) \in DOMAIN agenda' /\ agenda'[Len(tasks) + (i - 1)] = Rest[i - 1] BY <1>2, <3>2
    <3> QED BY <2>2, <3>2, <3>3
  <2>3. Pending(p)' <=> \E j \in DOMAIN agenda' : p \in Cover(agenda'[j]) BY DEF Pending, Cover, Spots
  <2> QED BY <2>1, <2>2, <2>3 DEF Pending
<1>12. PlacesSettled'
  <2>1. \A r : PlacesIn(r)' = PlacesIn(r) BY DEF PlacesIn
  <2>2. \A r : \A p : SeenIn(p, r)' <=> SeenIn(p, r) BY <1>11 DEF SeenIn, OwnerOf
  <2>3. \A a : Own(a)' <=> Own(a) BY DEF Own
  <2> QED BY <1>1, <2>1, <2>2, <2>3 DEF PlacesSettled
<1>13. PointersLead' BY <1>1, SameStorageLeads DEF OwnerOf
<1> QED BY <1>5, <1>9, <1>10, <1>12, <1>13 DEF Inv

LEMMA ReleaseSteppedKeeps == Inv /\ ReleaseStepped => Inv'
BY ReleaseStep DEF ReleaseStepped, Unheaping

LEMMA UnheapingJoined ==
  ASSUME NEW s, NEW t, Unheaping(s), Unheaping(t)
  PROVE  Unheaping(s \o t)
<1>1. s \in Seq(GoodTask) /\ t \in Seq(GoodTask) BY DEF Unheaping
<1>2. ASSUME NEW i \in DOMAIN (s \o t) PROVE ForUnheaped((s \o t)[i])
  <2>1. CASE i <= Len(s)
    <3>1. i \in DOMAIN s /\ (s \o t)[i] = s[i] BY <1>1, <2>1
    <3> QED BY <3>1 DEF Unheaping
  <2>2. CASE ~(i <= Len(s))
    <3>1. i - Len(s) \in DOMAIN t /\ (s \o t)[i] = t[i - Len(s)] BY <1>1, <2>2
    <3> QED BY <3>1 DEF Unheaping
  <2> QED BY <2>1, <2>2
<1> QED BY <1>1, <1>2 DEF Unheaping

LEMMA UnheapingOne ==
  ASSUME NEW x \in GoodTask, ForUnheaped(x)
  PROVE  Unheaping(<<x>>)
BY DEF Unheaping

LEMMA FreeKnown ==
  ASSUME Inv, agenda # <<>>, First.do \in Releases
  PROVE  /\ Unheaping(<<Free(First.at[1])>>) /\ Unheaping(FreeBase)
         /\ \A r \in Nat : (r # 0 => /\ r \in DOMAIN regions
                                     /\ OwnerOf(r).place = "heaped" /\ ~OwnerOf(r).live)
              => Unheaping(<<Free(r)>>)
<1>1. First.type \in Types /\ First.at[1] \in Nat /\ ForUnheaped(First) BY ReleaseKnown
<1>2. ASSUME NEW r \in Nat, r # 0 => /\ r \in DOMAIN regions
                                     /\ OwnerOf(r).place = "heaped" /\ ~OwnerOf(r).live
      PROVE  Unheaping(<<Free(r)>>)
  <2> DEFINE at == <<r>>
  <2>1. at \in Seq(Nat) /\ at # <<>> /\ at[1] = r /\ Free(r) = ToDo("free", First.type, at) BY DEF Free
  <2> HIDE DEF at
  <2>2. Free(r) \in GoodTask BY <1>1, <2>1, ToDoGood DEF Calls
  <2>3. Free(r).do = "free" /\ Free(r).at[1] = r BY <2>1 DEF ToDo
  <2>4. ForUnheaped(Free(r)) BY <1>2, <2>3 DEF ForUnheaped, Releases
  <2> QED BY <2>2, <2>4, UnheapingOne
<1>3. Unheaping(<<Free(First.at[1])>>) BY <1>1, <1>2 DEF ForUnheaped
<1>4. Unheaping(<<>>) BY DEF Unheaping
<1>5. Unheaping(FreeBase) BY <1>3, <1>4 DEF FreeBase
<1> QED BY <1>2, <1>3, <1>5

(* What a variable that is unheaped points to is its own. *)
LEMMA PointedKnown ==
  ASSUME Inv, agenda # <<>>, First.do \in Releases, Readable(First.at)
  PROVE  /\ PointsTo(First.at) \in Nat
         /\ PointsTo(First.at) # 0 =>
              /\ PointsTo(First.at) \in DOMAIN regions
              /\ OwnerOf(PointsTo(First.at)).place = "heaped" /\ ~OwnerOf(PointsTo(First.at)).live
<1>1. Typed /\ StorageKnown BY DEF Inv
<1>2. First.at[1] \in Nat /\ First.at[1] \in DOMAIN regions /\ ForUnheaped(First)
  BY ReleaseKnown DEF Readable, Live
<1>3. regions \in Seq(Region) /\ First.at[1] # 0 BY <1>1, <1>2 DEF Typed, StorageOK
<1>4. OwnerOf(First.at[1]).place = "heaped" /\ ~OwnerOf(First.at[1]).live BY <1>2, <1>3 DEF ForUnheaped
<1>5. CASE First.at \in DOMAIN memory
  <2>1. PointsTo(First.at) = memory[First.at] /\ memory[First.at] \in DOMAIN regions
    BY <1>1, <1>5 DEF PointsTo, Typed, StorageOK
  <2>2. Own(First.at)
    <3>1. OwnerOf(First.at[1]).place = "argument" \/ Own(First.at) BY <1>1, <1>5 DEF StorageKnown
    <3> QED BY <1>4, <3>1
  <2>3. OwnerOf(memory[First.at]) = OwnerOf(First.at[1]) BY <2>2 DEF Own, OwnerOf
  <2>4. memory[First.at] \in Nat BY <1>3, <2>1
  <2> QED BY <1>4, <2>1, <2>3, <2>4
<1>6. CASE First.at \notin DOMAIN memory BY <1>6 DEF PointsTo
<1> QED BY <1>5, <1>6

LEMMA UnheapingElements ==
  ASSUME Inv, NEW t \in Types, NEW r \in Nat, NEW n \in Nat,
         r # 0 => r \in DOMAIN regions /\ OwnerOf(r).place = "heaped" /\ ~OwnerOf(r).live
  PROVE  Unheaping(Elements("dealloc", t, r, n))
<1> DEFINE tasks == Elements("dealloc", t, r, n)
<1>1. /\ tasks \in Seq(GoodTask)
      /\ \A i \in 1 .. Len(tasks) : tasks[i] = ToDo("dealloc", t, <<r, i>>)
  BY ElementsGood DEF Calls
<1> HIDE DEF tasks
<1>2. ASSUME NEW i \in DOMAIN tasks PROVE ForUnheaped(tasks[i])
  <2>1. tasks[i] = ToDo("dealloc", t, <<r, i>>) BY <1>1
  <2>2. tasks[i].do = "dealloc" /\ tasks[i].at[1] = r BY <2>1 DEF ToDo
  <2> QED BY <2>2 DEF ForUnheaped, Releases
<1>3. Unheaping(tasks) BY <1>1, <1>2 DEF Unheaping
<1> QED BY <1>3 DEF tasks

LEMMA DeallocSteps ==
  ASSUME Inv, Deallocation
  PROVE  ReleaseStepped
<1>1. Typed BY DEF Inv
<1>2. agenda # <<>> /\ First.do \in Releases /\ UNCHANGED <<regions, memory, variables, count, built, status>>
  BY DEF Deallocation, DeallocPlain, DeallocCollection, DeallocVector, DeallocTable, DeallocField,
         Doing, Releases
<1>3. /\ First \in GoodTask /\ First.type \in Types /\ First.at \in Seq(Nat) /\ First.at # <<>>
      /\ First.at[1] \in Nat /\ ForUnheaped(First) /\ Rest \in Seq(GoodTask)
  BY <1>2, ReleaseKnown
<1>4. Unheaping(<<Free(First.at[1])>>) /\ Unheaping(FreeBase) BY <1>2, FreeKnown
<1>5. SUFFICES ASSUME TRUE PROVE \E tasks : Unheaping(tasks) /\ agenda' = tasks \o Rest
  <2>1. status = "ok"
    BY DEF Deallocation, DeallocPlain, DeallocCollection, DeallocVector, DeallocTable, DeallocField, Doing
  <2> QED BY <1>2, <2>1 DEF ReleaseStepped
<1>6. CASE DeallocPlain BY <1>4, <1>6 DEF DeallocPlain, GoOn
<1>7. CASE DeallocCollection
  <2> DEFINE tasks == Members("dealloc", First.type, First.at)
  <2>1. /\ tasks \in Seq(GoodTask) /\ Len(tasks) = Len(Def[First.type].parts)
        /\ \A m \in 1 .. Len(Def[First.type].parts) :
             tasks[m] = ToDo("dealloc", Def[First.type].parts[m], First.at \o <<m>>)
    BY <1>3, MembersGood DEF Calls
  <2> HIDE DEF tasks
  <2>2. ASSUME NEW m \in DOMAIN tasks PROVE ForUnheaped(tasks[m])
    <3>1. m \in Nat /\ tasks[m] = ToDo("dealloc", Def[First.type].parts[m], First.at \o <<m>>) BY <2>1
    <3>2. (First.at \o <<m>>)[1] = First.at[1] BY <1>3, <3>1
    <3>3. tasks[m].do = "dealloc" /\ tasks[m].at[1] = First.at[1] BY <3>1, <3>2 DEF ToDo
    <3> QED BY <1>3, <3>3 DEF ForUnheaped, Releases
  <2>3. Unheaping(tasks \o FreeBase) BY <1>4, <2>1, <2>2, UnheapingJoined DEF Unheaping
  <2>4. agenda' = (tasks \o FreeBase) \o Rest BY <1>7 DEF DeallocCollection, GoOn, tasks
  <2> QED BY <2>3, <2>4
<1>8. CASE DeallocVector
  <2> DEFINE array == PointsTo(First.at)
             loop == Elements("dealloc", ElementOf(First.type), array, NumElem(First.type))
  <2>1. Readable(First.at) /\ ClassOf(First.type) = "vector" BY <1>8 DEF DeallocVector, Doing, Class
  <2>2. /\ array \in Nat
        /\ array # 0 => /\ array \in DOMAIN regions /\ OwnerOf(array).place = "heaped"
                        /\ ~OwnerOf(array).live
    BY <1>2, <2>1, PointedKnown
  <2>3. ElementOf(First.type) \in Types /\ NumElem(First.type) \in Nat
    BY <1>1, <1>3, <2>1, DefTyped, NumElemTyped DEF ClassOf
  <2>4. agenda' = ((loop \o <<Free(array)>>) \o FreeBase) \o Rest BY <1>8, Zenon DEF DeallocVector, GoOn
  <2> HIDE DEF array
  <2>5. Unheaping(loop) BY <2>2, <2>3, UnheapingElements
  <2>6. Unheaping(<<Free(array)>>) BY <1>2, <2>2, FreeKnown
  <2> HIDE DEF loop
  <2>7. Unheaping(loop \o <<Free(array)>>) BY <2>5, <2>6, UnheapingJoined
  <2>8. Unheaping((loop \o <<Free(array)>>) \o FreeBase) BY <1>4, <2>7, UnheapingJoined
  <2> QED BY <2>4, <2>8
<1>9. CASE DeallocTable
  <2> DEFINE fields == DOMAIN Def[First.type].parts
             tasks == [f \in fields |-> ToDo("field", First.type, First.at \o <<f>>)]
  <2>1. fields = 1 .. Len(Def[First.type].parts) /\ Len(Def[First.type].parts) \in Nat BY <1>3, DefTyped
  <2>2. ASSUME NEW f \in fields
        PROVE  ToDo("field", First.type, First.at \o <<f>>) \in GoodTask
    <3> DEFINE at == First.at \o <<f>>
    <3>1. f \in Nat BY <2>1
    <3>2. at \in Seq(Nat) /\ at # <<>> /\ at[Len(at)] = f BY <1>3, <3>1
    <3> HIDE DEF at
    <3> QED BY <1>3, <3>2 DEF ToDo, GoodTask, Task, Calls, at
  <2>3. tasks \in Seq(GoodTask) BY <2>1, <2>2
  <2>4. ASSUME NEW f \in DOMAIN tasks PROVE ForUnheaped(tasks[f])
    <3>1. f \in Nat /\ tasks[f] = ToDo("field", First.type, First.at \o <<f>>) BY <2>1
    <3>2. (First.at \o <<f>>)[1] = First.at[1] BY <1>3, <3>1
    <3>3. tasks[f].do = "field" /\ tasks[f].at[1] = First.at[1] BY <3>1, <3>2 DEF ToDo
    <3> QED BY <1>3, <3>3 DEF ForUnheaped, Releases
  <2>5. agenda' = (tasks \o FreeBase) \o Rest BY <1>9, Zenon DEF DeallocTable, GoOn
  <2> HIDE DEF tasks
  <2>6. Unheaping(tasks \o FreeBase) BY <1>4, <2>3, <2>4, UnheapingJoined DEF Unheaping
  <2> QED BY <2>5, <2>6
<1>10. CASE DeallocField
  <2> DEFINE array == PointsTo(First.at)
             field == Def[First.type].parts[First.at[Len(First.at)]]
             loop == Elements("dealloc", field, array, NumElem(First.type))
  <2>1. Readable(First.at) /\ First.do = "field" BY <1>10 DEF DeallocField, Doing
  <2>2. /\ array \in Nat
        /\ array # 0 => /\ array \in DOMAIN regions /\ OwnerOf(array).place = "heaped"
                        /\ ~OwnerOf(array).live
    BY <1>2, <2>1, PointedKnown
  <2>3. field \in Types /\ NumElem(First.type) \in Nat
    <3>1. First.at[Len(First.at)] \in DOMAIN Def[First.type].parts BY <1>3, <2>1 DEF GoodTask
    <3> QED BY <1>1, <1>3, <3>1, DefTyped, NumElemTyped
  <2>4. agenda' = (loop \o <<Free(array)>>) \o Rest BY <1>10, Zenon DEF DeallocField, GoOn
  <2> HIDE DEF array, field
  <2>5. Unheaping(loop) BY <2>2, <2>3, UnheapingElements
  <2>6. Unheaping(<<Free(array)>>) BY <1>2, <2>2, FreeKnown
  <2> HIDE DEF loop
  <2>7. Unheaping(loop \o <<Free(array)>>) BY <2>5, <2>6, UnheapingJoined
  <2> QED BY <2>4, <2>7
<1> QED BY <1>6, <1>7, <1>8, <1>9, <1>10 DEF Deallocation

LEMMA FreeStep ==
  ASSUME Inv, FreeRegion
  PROVE  Inv'
<1> DEFINE r == First.at[1]
<1>1. CASE ~(Live(r) /\ regions[r].place = "heap")
  <2>1. status' = "wild" /\ UNCHANGED <<regions, memory, variables, agenda, count, built>>
    BY <1>1 DEF FreeRegion
  <2> QED BY <2>1, StuckStep
<1>2. CASE Live(r) /\ regions[r].place = "heap"
  <2>1. Typed /\ AllCharged /\ StorageKnown /\ PlacesSettled /\ PointersLead BY DEF Inv
  <2>2. /\ agenda # <<>> /\ First.do \in Releases /\ status = "ok" /\ status' = "ok"
        /\ regions' = [regions EXCEPT ![r].live = FALSE] /\ agenda' = <<>> \o Rest
        /\ UNCHANGED <<memory, variables, count, built>>
    BY <1>2 DEF FreeRegion, Releases, GoOn
  <2>3. ForUnheaped(First) /\ r \in DOMAIN regions /\ Rest \in Seq(GoodTask)
    BY <1>2, <2>2, ReleaseKnown DEF Live
  <2>4. regions \in Seq(Region) /\ r # 0 BY <2>1, <2>3 DEF Typed, StorageOK
  <2>5. ~OwnerOf(r).live BY <2>3, <2>4 DEF ForUnheaped
  <2>6. /\ DOMAIN regions' = DOMAIN regions /\ regions' \in Seq(Region)
        /\ \A s \in DOMAIN regions :
             /\ regions'[s].owner = regions[s].owner /\ regions'[s].role = regions[s].role
             /\ regions'[s].type = regions[s].type /\ regions'[s].len = regions[s].len
             /\ regions'[s].place = regions[s].place
             /\ s # r => regions'[s].live = regions[s].live
    <3>1. ASSUME NEW s \in DOMAIN regions PROVE regions[s] \in Region BY <2>4
    <3>2. \A s \in DOMAIN regions : regions'[s] =
             IF s = r THEN [regions[r] EXCEPT !.live = FALSE] ELSE regions[s]
      BY <2>2, <2>3
    <3>3. [regions[r] EXCEPT !.live = FALSE] \in Region BY <2>3, <3>1 DEF Region
    <3>4. ASSUME NEW s \in DOMAIN regions
          PROVE  /\ regions'[s].owner = regions[s].owner /\ regions'[s].role = regions[s].role
                 /\ regions'[s].type = regions[s].type /\ regions'[s].len = regions[s].len
                 /\ regions'[s].place = regions[s].place
                 /\ s # r => regions'[s].live = regions[s].live
      BY <3>1, <3>2 DEF Region
    <3>5. regions' \in Seq(Region) BY <2>2, <2>3, <2>4, <3>3
    <3> QED BY <2>2, <3>4, <3>5
  <2>7. \A s \in DOMAIN regions : OwnerOf(s)' = OwnerOf(s) /\ PlacesIn(s)' = PlacesIn(s)
    <3>1. ASSUME NEW s \in DOMAIN regions PROVE PlacesIn(s)' = PlacesIn(s)
      <4>1. PlacesIn(s)' = PlacesAt(s, regions'[s].role, regions'[s].type, regions'[s].len)
        BY PlacesInPrimed, Zenon
      <4>2. PlacesIn(s) = PlacesAt(s, regions[s].role, regions[s].type, regions[s].len) BY PlacesInAt, Zenon
      <4> QED BY <2>6, <4>1, <4>2
    <3> QED BY <2>2, <2>6, <3>1 DEF OwnerOf
  <2>8. /\ Rest \in Seq(GoodTask) /\ Len(agenda) = Len(Rest) + 1 /\ Len(agenda) \in Nat
        /\ agenda \in Seq(GoodTask) /\ \A i \in 1 .. Len(Rest) : Rest[i] = agenda[i + 1]
        /\ variables # <<>>
    BY <2>1, <2>2, FirstKnown DEF Typed
  <2>9. /\ agenda' = Rest /\ agenda' \in Seq(Task) /\ DOMAIN agenda' = 1 .. Len(Rest)
        /\ \A i \in DOMAIN agenda' : i + 1 \in DOMAIN agenda /\ agenda'[i] = agenda[i + 1]
    <3>1. agenda' = Rest /\ DOMAIN Rest = 1 .. Len(Rest) BY <2>2, <2>8
    <3>2. Rest \in Seq(Task) BY <2>8 DEF GoodTask
    <3> QED BY <2>8, <3>1, <3>2
  <2>10. Typed'
    <3>1. \A a \in DOMAIN memory' : a \in Seq(Nat) /\ a # <<>> /\ memory'[a] \in DOMAIN regions'
      BY <2>1, <2>2, <2>6 DEF Typed, StorageOK
    <3>2. \A v \in DOMAIN variables' : variables'[v].base \in DOMAIN regions'
      BY <2>1, <2>2, <2>6 DEF Typed, StorageOK
    <3>3. \A s \in DOMAIN regions' : regions'[s].owner \in DOMAIN variables'
      BY <2>1, <2>2, <2>6 DEF Typed, StorageOK
    <3>4. StorageOK' BY <2>1, <2>2, <2>6, <2>9, <3>1, <3>2, <3>3 DEF Typed, StorageOK
    <3> QED BY <2>1, <2>2, <2>8, <2>9, <3>4 DEF Typed
  <2>11. ASSUME NEW x, Charged(x) PROVE Charged(x)' BY <2>2, <2>6, <2>7, <2>11 DEF Charged, Declared, Latest
  <2>12. ASSUME NEW i \in DOMAIN agenda' PROVE \E x : x = agenda'[i] /\ Charged(x)'
    BY <2>1, <2>9, <2>11 DEF AllCharged
  <2>13. AllCharged' BY <2>12 DEF AllCharged, Charged, Declared, Latest, OwnerOf
  <2>14. ASSUME NEW s \in DOMAIN regions', OwnerOf(s)'.live PROVE regions'[s].live
    <3>1. s \in DOMAIN regions /\ OwnerOf(s).live /\ s # r BY <2>5, <2>6, <2>7, <2>14
    <3> QED BY <2>1, <2>6, <3>1 DEF StorageKnown
  <2>15. \A a \in DOMAIN memory : Own(a)' <=> Own(a)
    BY <2>1, <2>2, <2>6 DEF Own, StorageKnown, Typed, StorageOK
  <2>16. StorageKnown'
    <3>1. ASSUME NEW v \in DOMAIN variables'
          PROVE  /\ regions'[variables'[v].base].owner = v /\ regions'[variables'[v].base].role = "base"
                 /\ regions'[variables'[v].base].type = variables'[v].type
      <4>1. /\ variables[v].base \in DOMAIN regions /\ regions[variables[v].base].owner = v
            /\ regions[variables[v].base].role = "base"
            /\ regions[variables[v].base].type = variables[v].type
        BY <2>1, <2>2 DEF StorageKnown, Typed, StorageOK
      <4> QED BY <2>2, <2>6, <4>1
    <3>2. ASSUME NEW a \in DOMAIN memory'
          PROVE  /\ a[1] \in DOMAIN regions' /\ regions'[memory'[a]].role \in {"array", "field"}
                 /\ OwnerOf(a[1])'.place = "argument" \/ Own(a)'
      <4>1. a \in DOMAIN memory /\ memory'[a] = memory[a] /\ memory[a] \in DOMAIN regions
        BY <2>1, <2>2 DEF Typed, StorageOK
      <4>2. /\ a[1] \in DOMAIN regions /\ regions[memory[a]].role \in {"array", "field"}
            /\ OwnerOf(a[1]).place = "argument" \/ Own(a)
        BY <2>1, <4>1 DEF StorageKnown
      <4> QED BY <2>6, <2>7, <2>15, <4>1, <4>2
    <3>3. ASSUME NEW s \in DOMAIN regions', OwnerOf(s)'.place = "heaped"
          PROVE  regions'[s].place = "heap"
      BY <2>1, <2>6, <2>7, <3>3 DEF StorageKnown
    <3> QED BY <2>14, <3>1, <3>2, <3>3 DEF StorageKnown, OwnerOf, Own
  <2>17. ASSUME NEW p PROVE Pending(p)' <=> Pending(p)
    <3>1. ASSUME NEW i \in DOMAIN agenda, p \in Cover(agenda[i])
          PROVE  \E j \in DOMAIN agenda' : p \in Cover(agenda'[j])
      <4>1. i # 1 BY <2>2, <3>1 DEF Cover, Releases, First
      <4>2. i - 1 \in DOMAIN agenda' /\ (i - 1) + 1 = i BY <2>8, <2>9, <4>1
      <4> QED BY <2>9, <3>1, <4>2
    <3>2. Pending(p)' <=> \E j \in DOMAIN agenda' : p \in Cover(agenda'[j]) BY DEF Pending, Cover, Spots
    <3> QED BY <2>9, <3>1, <3>2 DEF Pending
  <2>18. PlacesSettled'
    <3>1. \A s \in DOMAIN regions : \A p : SeenIn(p, s)' <=> SeenIn(p, s) BY <2>7, <2>17 DEF SeenIn
    <3> QED BY <2>1, <2>2, <2>6, <2>7, <2>15, <3>1 DEF PlacesSettled
  <2>19. PointersLead' BY <2>1, <2>2, <2>6, <2>7, SameStorageLeads
  <2> QED BY <2>10, <2>13, <2>16, <2>18, <2>19 DEF Inv
<1> QED BY <1>1, <1>2

-----------------------------------------------------------------------------
(* Declaring. *)

LEMMA DeclaresKeeps ==
  ASSUME Inv, Idle, NEW v, NEW region, NEW tasks, NEW C, Declares(v, region, tasks, C)
  PROVE  Inv'
<1>15. PICK base : base = Len(regions) + 1 OBVIOUS
<1>16. PICK last : last = Len(variables) + 1 OBVIOUS
<1>1. Typed /\ AllCharged /\ StorageKnown /\ PlacesSettled /\ PointersLead BY DEF Inv
<1>2. /\ regions \in Seq(Region) /\ Len(regions) \in Nat /\ DOMAIN regions = 1 .. Len(regions)
      /\ variables \in Seq(Variable) /\ Len(variables) \in Nat
      /\ DOMAIN variables = 1 .. Len(variables)
      /\ \A r \in DOMAIN regions : regions[r].owner \in DOMAIN variables
      /\ \A u \in DOMAIN variables : variables[u].base \in DOMAIN regions /\ variables[u].count \in Counts
      /\ \A u \in DOMAIN variables : variables[u].place \in {"context", "argument"} => variables[u].type \in Literal
      /\ \A a \in DOMAIN memory : a \in Seq(Nat) /\ a # <<>> /\ memory[a] \in DOMAIN regions
      /\ built \subseteq Types \X {"heaped", "stacked", "context", "argument"} /\ count \in Counts
  BY <1>1 DEF Typed, StorageOK
<1>3. /\ v \in Variable /\ v.type \in Types /\ v.live /\ v.count \in Counts /\ v.base = base
      /\ v.place \in {"context", "argument"} => v.type \in Literal
      /\ v.place = "heaped" => region = "heap"
  BY <1>15 DEF Declares, Variable
<1>4. /\ BaseRegion(region, v.type) \in Region /\ BaseRegion(region, v.type).role = "base"
      /\ BaseRegion(region, v.type).owner = last /\ BaseRegion(region, v.type).live
      /\ BaseRegion(region, v.type).type = v.type /\ BaseRegion(region, v.type).place = region
  <2>1. region \in {"heap", "stack", "global"} /\ Len(Def[v.type].parts) \in Nat
    BY <1>3, DefTyped DEF Declares
  <2> QED BY <1>2, <1>3, <1>16, <2>1 DEF BaseRegion, Region
<1>5. /\ regions' \in Seq(Region) /\ DOMAIN regions' = DOMAIN regions \cup {base}
      /\ regions'[base] = BaseRegion(region, v.type) /\ base \notin DOMAIN regions /\ base \in Nat
      /\ \A r \in DOMAIN regions : regions'[r] = regions[r]
  <2>1. regions' = Append(regions, BaseRegion(region, v.type)) BY DEF Declares
  <2> QED BY <1>2, <1>4, <1>15, <2>1
<1>6. /\ variables' \in Seq(Variable) /\ DOMAIN variables' = DOMAIN variables \cup {last}
      /\ variables'[last] = v /\ last \notin DOMAIN variables /\ Len(variables') = last
      /\ \A u \in DOMAIN variables : variables'[u] = variables[u]
  <2>1. variables' = Append(variables, v) BY DEF Declares
  <2> QED BY <1>2, <1>3, <1>16, <2>1
<1>7. /\ \A r \in DOMAIN regions : OwnerOf(r)' = OwnerOf(r)
      /\ OwnerOf(base)' = v
  <2>1. ASSUME NEW r \in DOMAIN regions PROVE OwnerOf(r)' = OwnerOf(r)
    <3>1. regions'[r].owner = regions[r].owner /\ regions[r].owner \in DOMAIN variables BY <1>2, <1>5
    <3> QED BY <1>6, <3>1 DEF OwnerOf
  <2>2. OwnerOf(base)' = v BY <1>4, <1>5, <1>6 DEF OwnerOf
  <2> QED BY <2>1, <2>2
<1>8. /\ \A r \in DOMAIN regions : PlacesIn(r)' = PlacesIn(r)
      /\ PlacesIn(base)' = Spots(<<base>>, v.type)
  <2>1. ASSUME NEW r \in DOMAIN regions PROVE PlacesIn(r)' = PlacesIn(r)
    <3>1. PlacesIn(r)' = PlacesAt(r, regions'[r].role, regions'[r].type, regions'[r].len)
      BY PlacesInPrimed, Zenon
    <3>2. PlacesIn(r) = PlacesAt(r, regions[r].role, regions[r].type, regions[r].len) BY PlacesInAt, Zenon
    <3> QED BY <1>5, <3>1, <3>2
  <2>2. PlacesIn(base)' = PlacesAt(base, regions'[base].role, regions'[base].type, regions'[base].len)
    BY PlacesInPrimed, Zenon
  <2> QED BY <1>4, <1>5, <2>1, <2>2 DEF PlacesAt
<1>9. /\ tasks \in Seq(GoodTask) /\ agenda' = tasks /\ count' = count /\ built' = built
      /\ status' = "ok" /\ status = "ok" /\ agenda = <<>>
      /\ DOMAIN memory' = DOMAIN memory \cup C /\ \A a \in DOMAIN memory : memory'[a] = memory[a]
      /\ C # {} => v.place = "argument"
      /\ \A c \in C : /\ c \in Seq(Nat) /\ c # <<>> /\ c[1] = base
                      /\ memory'[c] \in DOMAIN regions
                      /\ regions[memory'[c]].role \in {"array", "field"}
  BY <1>15 DEF Declares, Idle
<1>10. Typed'
  <2>1. \A a \in DOMAIN memory' : a \in Seq(Nat) /\ a # <<>> /\ memory'[a] \in DOMAIN regions'
    BY <1>2, <1>5, <1>9
  <2>2. \A u \in DOMAIN variables' : variables'[u].base \in DOMAIN regions' /\ variables'[u].count \in Counts
    BY <1>2, <1>3, <1>5, <1>6
  <2>3. \A r \in DOMAIN regions' : regions'[r].owner \in DOMAIN variables' BY <1>2, <1>4, <1>5, <1>6
  <2>4. agenda' \in Seq(Task) /\ agenda' \in Seq(GoodTask) BY <1>9 DEF GoodTask
  <2>5. StorageOK' BY <1>2, <1>5, <1>6, <1>9, <2>1, <2>2, <2>3, <2>4 DEF StorageOK
  <2>6. variables' # <<>> BY <1>6
  <2>7. \A u \in DOMAIN variables' :
          variables'[u].place \in {"context", "argument"} => variables'[u].type \in Literal
    BY <1>2, <1>3, <1>6
  <2> QED BY <2>2, <2>4, <2>5, <2>6, <2>7 DEF Typed
<1>11. AllCharged'
  <2>1. ASSUME NEW i \in DOMAIN tasks PROVE Charged(tasks[i])'
    <3>6. /\ tasks[i].do \in DoneFor(v.place) /\ tasks[i].at = <<base>> /\ tasks[i].type = v.type
          /\ tasks[i].do = "copy" => ClassOf(tasks[i].type) # "table"
          /\ count' = v.count
      BY <1>15 DEF Declares
    <3>1. /\ tasks[i].do \in DoneFor(v.place) /\ tasks[i].at[1] = base /\ tasks[i].type = v.type
          /\ tasks[i].do = "copy" => ClassOf(tasks[i].type) # "table"
          /\ count' = v.count
      BY <3>6
    <3>2. tasks[i].do \in Allocates BY <3>1 DEF DoneFor
    <3>3. Declared' = v.place /\ Latest' = v BY <1>6 DEF Declared, Latest
    <3>5. v.type \in OutsideTables[v.type] BY <1>3, OutsideIs
    <3>4. regions'[base].owner = Len(variables') /\ base \in DOMAIN regions' BY <1>4, <1>5, <1>6
    <3>7. Spots(tasks[i].at, tasks[i].type) \subseteq PlacesIn(tasks[i].at[1])'
      <4>1. PICK k : k = tasks[i].at[1] OBVIOUS
      <4>2. PlacesIn(k)' = Spots(<<base>>, v.type) BY <1>8, <3>1, <4>1
      <4> QED BY <3>6, <4>1, <4>2
    <3> QED BY <3>1, <3>2, <3>3, <3>4, <3>5, <3>7 DEF Charged
  <2> QED BY <1>9, <2>1 DEF AllCharged
<1>12. ASSUME NEW a \in DOMAIN memory
       PROVE  (Own(a)' <=> Own(a)) /\ a[1] \in DOMAIN regions
  BY <1>1, <1>2, <1>5, <1>9 DEF Own, StorageKnown
<1>13. StorageKnown'
  <2>1. ASSUME NEW u \in DOMAIN variables'
        PROVE  /\ regions'[variables'[u].base].owner = u /\ regions'[variables'[u].base].role = "base"
               /\ regions'[variables'[u].base].type = variables'[u].type
    <3>1. CASE u = last BY <1>3, <1>4, <1>5, <1>6, <3>1
    <3>2. CASE u \in DOMAIN variables BY <1>1, <1>2, <1>5, <1>6, <3>2 DEF StorageKnown
    <3> QED BY <1>6, <3>1, <3>2
  <2>2. ASSUME NEW r \in DOMAIN regions', OwnerOf(r)'.live PROVE regions'[r].live
    BY <1>1, <1>4, <1>5, <1>7, <2>2 DEF StorageKnown
  <2>3. ASSUME NEW a \in DOMAIN memory'
        PROVE  /\ a[1] \in DOMAIN regions' /\ regions'[memory'[a]].role \in {"array", "field"}
               /\ OwnerOf(a[1])'.place = "argument" \/ Own(a)'
    <3>1. CASE a \in DOMAIN memory
      <4>1. /\ a[1] \in DOMAIN regions /\ regions[memory[a]].role \in {"array", "field"}
            /\ OwnerOf(a[1]).place = "argument" \/ Own(a)
        BY <1>1, <3>1 DEF StorageKnown
      <4> QED BY <1>2, <1>5, <1>7, <1>9, <1>12, <3>1, <4>1
    <3>2. CASE a \in C BY <1>5, <1>7, <1>9, <3>2
    <3> QED BY <1>9, <3>1, <3>2
  <2>4. ASSUME NEW r \in DOMAIN regions', OwnerOf(r)'.place = "heaped" PROVE regions'[r].place = "heap"
    BY <1>1, <1>3, <1>4, <1>5, <1>7, <2>4 DEF StorageKnown
  <2> QED BY <2>1, <2>2, <2>3, <2>4 DEF StorageKnown, OwnerOf, Own
<1>14. PlacesSettled'
  <2>2. \A p : ~Pending(p) BY <1>9 DEF Pending
  <2>3. \A p \in Spots(<<base>>, v.type) :
          SeenTo(p, v.place) => \E i \in DOMAIN tasks : p \in Cover(tasks[i])
    BY <1>15 DEF Declares
  <2>4. ASSUME NEW p PROVE Pending(p)' <=> \E i \in DOMAIN tasks : p \in Cover(tasks[i])
    BY <1>9 DEF Pending, Cover, Spots
  <2>5. ASSUME NEW r \in DOMAIN regions', NEW p \in PlacesIn(r)', SeenIn(p, r)'
        PROVE  /\ r \in DOMAIN regions /\ p \in PlacesIn(r) /\ SeenIn(p, r)
               /\ p.at \in DOMAIN memory /\ Own(p.at) /\ memory'[p.at] = memory[p.at]
    <3>1. r # base BY <1>7, <1>8, <2>3, <2>4, <2>5 DEF SeenIn
    <3>2. r \in DOMAIN regions /\ p \in PlacesIn(r) /\ SeenIn(p, r)
      BY <1>5, <1>7, <1>8, <2>2, <2>5, <3>1 DEF SeenIn
    <3>3. p.at \in DOMAIN memory /\ Own(p.at) BY <1>1, <1>9, <3>2 DEF PlacesSettled
    <3> QED BY <1>9, <3>2, <3>3
  <2>6. ASSUME NEW r \in DOMAIN regions', NEW p \in PlacesIn(r)', SeenIn(p, r)'
        PROVE  p.at \in DOMAIN memory' /\ Own(p.at)'
    BY <1>9, <1>12, <2>5, <2>6
  <2>7. ASSUME NEW r \in DOMAIN regions', NEW s \in DOMAIN regions', NEW p \in PlacesIn(r)',
               NEW q \in PlacesIn(s)', SeenIn(p, r)', SeenIn(q, s)', memory'[p.at] = memory'[q.at]
        PROVE  p.at = q.at
    <3>1. /\ r \in DOMAIN regions /\ p \in PlacesIn(r) /\ SeenIn(p, r) /\ memory'[p.at] = memory[p.at]
      BY <2>5, <2>7
    <3>2. /\ s \in DOMAIN regions /\ q \in PlacesIn(s) /\ SeenIn(q, s) /\ memory'[q.at] = memory[q.at]
      BY <2>5, <2>7
    <3>3. memory[p.at] = memory[q.at] BY <2>7, <3>1, <3>2
    <3>4. \A rr, ss \in DOMAIN regions : \A pp \in PlacesIn(rr), qq \in PlacesIn(ss) :
            SeenIn(pp, rr) /\ SeenIn(qq, ss) /\ memory[pp.at] = memory[qq.at] => pp.at = qq.at
      BY <1>1, <1>9 DEF PlacesSettled
    <3> QED BY <3>1, <3>2, <3>3, <3>4, Zenon
  <2> QED BY <2>6, <2>7 DEF PlacesSettled, SeenIn, Own, Pending, OwnerOf
<1>17. PointersLead'
  <2>1. ASSUME NEW r \in DOMAIN regions', NEW p \in PlacesIn(r)', p.at \in DOMAIN memory'
        PROVE  Leads(p)'
    <3>1. CASE r = base
      <4>1. p \in Spots(<<base>>, v.type) BY <1>8, <2>1, <3>1
      <4>2. PICK at : at = <<base>> OBVIOUS
      <4>3. at \in Seq(Nat) /\ at # <<>> /\ at[1] = base /\ p \in Spots(at, v.type) BY <1>5, <4>1, <4>2
      <4>4. p.at[1] = base BY <1>3, <4>3, SpotsTyped
      <4>5. p.at \notin DOMAIN memory BY <1>1, <1>5, <4>4 DEF StorageKnown
      <4>6. p.at \in C BY <1>9, <2>1, <4>5
      <4> QED BY <1>15, <4>1, <4>6 DEF Declares
    <3>2. CASE r \in DOMAIN regions
      <4>1. p \in PlacesIn(r) /\ p.at[1] = r BY <1>1, <1>8, <2>1, <3>2, PlacesInTyped
      <4>2. p.at \in DOMAIN memory BY <1>5, <1>9, <2>1, <3>2, <4>1
      <4>3. Leads(p) /\ memory[p.at] \in DOMAIN regions BY <1>1, <1>2, <3>2, <4>1, <4>2 DEF PointersLead
      <4> QED BY <1>5, <1>7, <1>9, <4>2, <4>3, LeadStays
    <3> QED BY <1>5, <3>1, <3>2
  <2>2. \A b \in built' : Def[b[1]].sized BY <1>1, <1>9 DEF PointersLead
  <2> QED BY <2>1, <2>2 DEF PointersLead, Leads, SizeFor, OwnerOf
<1> QED BY <1>10, <1>11, <1>13, <1>14, <1>17 DEF Inv

LEMMA DeclareSteppedKeeps == Inv /\ DeclareStepped => Inv'
BY DeclaresKeeps DEF DeclareStepped

LEMMA OneCall ==
  ASSUME NEW do \in Calls, do # "field", NEW t \in Types, NEW base \in Nat
  PROVE  /\ <<ToDo(do, t, <<base>>)>> \in Seq(GoodTask)
         /\ \A i \in DOMAIN <<ToDo(do, t, <<base>>)>> :
              <<ToDo(do, t, <<base>>)>>[i] = ToDo(do, t, <<base>>)
         /\ <<ToDo(do, t, <<base>>)>>[1] = ToDo(do, t, <<base>>)
         /\ DOMAIN <<ToDo(do, t, <<base>>)>> = {1}
         /\ ToDo(do, t, <<base>>).do = do /\ ToDo(do, t, <<base>>).at[1] = base
         /\ ToDo(do, t, <<base>>).at = <<base>> /\ ToDo(do, t, <<base>>).type = t
<1> DEFINE at == <<base>>
<1>1. at \in Seq(Nat) /\ at # <<>> /\ at[1] = base OBVIOUS
<1>2. ToDo(do, t, at) \in GoodTask
  <2> HIDE DEF at
  <2> QED BY <1>1, ToDoGood
<1>3. ToDo(do, t, at).do = do /\ ToDo(do, t, at).at = at /\ ToDo(do, t, at).type = t BY DEF ToDo
<1> HIDE DEF at
<1>4. /\ <<ToDo(do, t, at)>> \in Seq(GoodTask) /\ DOMAIN <<ToDo(do, t, at)>> = {1}
      /\ <<ToDo(do, t, at)>>[1] = ToDo(do, t, at)
  BY <1>2
<1>5. \A i \in DOMAIN <<ToDo(do, t, at)>> : <<ToDo(do, t, at)>>[i] = ToDo(do, t, at) BY <1>4
<1> QED BY <1>1, <1>3, <1>4, <1>5 DEF at

(* The declarations without anything copied. *)
LEMMA DeclareSteps ==
  ASSUME Inv, DeclareHeaped \/ DeclareStacked \/ DeclareContext
  PROVE  DeclareStepped
<1>1. PICK base : base = Len(regions) + 1 OBVIOUS
<1>2. Typed /\ base \in Nat /\ count \in Counts /\ count \in Nat
  BY <1>1, CountsAssumption DEF Inv, Typed, StorageOK
<1>3. ASSUME NEW place \in {"heaped", "stacked", "context"}, NEW region \in {"heap", "stack", "global"},
             NEW t \in Types, NEW do \in DoneFor(place), do \in {"heap", "stack", "context"},
             NEW tasks,
             \/ tasks = <<ToDo(do, t, <<base>>)>>
             \/ tasks = <<>> /\ IsOpen(t),
             place = "heaped" => region = "heap", place = "context" => t \in Literal,
             Declare(place, region, t, tasks)
      PROVE  DeclareStepped
  <2> DEFINE v == [place |-> place, type |-> t, base |-> Len(regions) + 1, count |-> count, live |-> TRUE]
  <2>1. /\ v \in Variable /\ v.base = Len(regions) + 1 /\ v.live /\ v.count \in Counts
        /\ v.type = t /\ v.place = place /\ v.count = count
    BY <1>1, <1>2 DEF Variable
  <2>2. /\ Idle /\ regions' = Append(regions, BaseRegion(region, t)) /\ variables' = Append(variables, v)
        /\ agenda' = tasks /\ memory' = memory /\ count' = count /\ built' = built /\ status' = "ok"
    BY <1>3 DEF Declare, Idle
  <2> HIDE DEF v
  <2>3. do \in Calls /\ do # "field" /\ do # "copy" BY <1>3 DEF Calls
  <2>4. /\ tasks \in Seq(GoodTask) /\ Len(tasks) <= 1
        /\ \A i \in DOMAIN tasks : /\ tasks[i].do \in DoneFor(place) /\ tasks[i].at = <<base>>
                                   /\ tasks[i].do # "copy" /\ tasks[i].type = t
    <3>1. CASE tasks = <<ToDo(do, t, <<base>>)>> BY <1>2, <2>3, <3>1, OneCall
    <3>2. CASE tasks = <<>> BY <3>2
    <3> QED BY <1>3, <3>1, <3>2
  <2>5. ASSUME NEW p \in Spots(<<base>>, t), SeenTo(p, place)
        PROVE  \E i \in DOMAIN tasks : p \in Cover(tasks[i])
    <3>1. CASE tasks = <<ToDo(do, t, <<base>>)>>
      <4>1. 1 \in DOMAIN tasks /\ tasks[1].do = do /\ tasks[1].at = <<base>> /\ tasks[1].type = t
        BY <1>2, <2>3, <3>1, OneCall
      <4>2. p \in Cover(tasks[1]) BY <1>3, <4>1 DEF Cover
      <4> QED BY <4>1, <4>2
    <3>2. CASE IsOpen(t)
      <4> DEFINE at == <<base>>
      <4>1. at \in Seq(Nat) /\ at # <<>> /\ p \in Spots(at, t) BY <1>2
      <4> HIDE DEF at
      <4>2. p \in Spot /\ p = [at |-> at, type |-> t] BY <3>2, <4>1, SpotsTyped DEF IsOpen
      <4>3. p.type = t BY <4>2
      <4> QED BY <2>5, <3>2, <4>2, <4>3, NotSeen DEF IsOpen
    <3> QED BY <1>3, <3>1, <3>2
  <2>6. \A i \in DOMAIN tasks : tasks[i].do = "copy" => ClassOf(tasks[i].type) # "table" BY <2>4
  <2>7. Declares(v, region, tasks, {}) BY <1>1, <1>3, <2>1, <2>2, <2>4, <2>5, <2>6 DEF Declares
  <2> QED BY <2>2, <2>7 DEF DeclareStepped
<1>4. CASE DeclareHeaped
  <2>1. PICK t \in Types : Declare("heaped", "heap", t, <<ToDo("heap", t, Base)>>) BY <1>4 DEF DeclareHeaped
  <2>2. "heap" \in DoneFor("heaped") /\ Base = <<base>> BY <1>1 DEF DoneFor, Allocates, Base
  <2> QED BY <1>3, <2>1, <2>2
<1>5. CASE DeclareStacked
  <2>1. PICK t \in Types : Declare("stacked", "stack", t, <<ToDo("stack", t, Base)>>)
    BY <1>5 DEF DeclareStacked
  <2>2. "stack" \in DoneFor("stacked") /\ Base = <<base>> BY <1>1 DEF DoneFor, Allocates, Base
  <2> QED BY <1>3, <2>1, <2>2
<1>6. CASE DeclareContext
  <2>1. PICK t \in Literal :
           Declare("context", "global", t,
             IF IsOpen(t) THEN <<>> ELSE <<ToDo("context", t, Base)>>)
    BY <1>6 DEF DeclareContext
  <2>2. "context" \in DoneFor("context") /\ Base = <<base>> /\ t \in Types
    BY <1>1, LiteralAssumption DEF DoneFor, Allocates, Base
  <2>3. CASE IsOpen(t)
    <3>1. Declare("context", "global", t, <<>>) BY <2>1, <2>3
    <3> QED BY <1>3, <2>2, <2>3, <3>1
  <2>4. CASE ~IsOpen(t)
    <3>1. Declare("context", "global", t, <<ToDo("context", t, <<base>>)>>) BY <2>1, <2>2, <2>4
    <3> QED BY <1>3, <2>2, <3>1
  <2> QED BY <2>3, <2>4
<1> QED BY <1>4, <1>5, <1>6

LEMMA PassStep ==
  ASSUME Inv, PassArgument
  PROVE  DeclareStepped
<1>1. PICK u \in DOMAIN variables :
         LET t == variables[u].type
             from == variables[u].base
             base == Len(regions) + 1
             slots == {b \in DOMAIN memory : b[1] = from}
         IN /\ variables[u].live /\ t \in Literal /\ ClassOf(t) \in {"vector", "collection"}
            /\ regions' = Append(regions, BaseRegion("stack", t))
            /\ variables' = Append(variables,
                 [place |-> "argument", type |-> t, base |-> base, count |-> count, live |-> TRUE])
            /\ memory' = [b \in DOMAIN memory \cup {<<base>> \o Tail(c) : c \in slots} |->
                            IF b[1] = base THEN memory[<<from>> \o Tail(b)] ELSE memory[b]]
            /\ agenda' = IF IsOpen(t) THEN <<>> ELSE <<ToDo("copy", t, <<base>>)>>
  BY Zenon DEF PassArgument
<1> DEFINE t == variables[u].type
           from == variables[u].base
           slots == {b \in DOMAIN memory : b[1] = from}
           tasks == IF IsOpen(t) THEN <<>> ELSE <<ToDo("copy", t, <<Len(regions) + 1>>)>>
           v == [place |-> "argument", type |-> t, base |-> Len(regions) + 1, count |-> count, live |-> TRUE]
           C == {<<Len(regions) + 1>> \o Tail(c) : c \in slots}
<1>2. PICK base : base = Len(regions) + 1 OBVIOUS
<1>3. /\ Idle /\ t \in Literal /\ ClassOf(t) \in {"vector", "collection"}
      /\ regions' = Append(regions, BaseRegion("stack", t)) /\ variables' = Append(variables, v)
      /\ memory' = [b \in DOMAIN memory \cup C |->
                      IF b[1] = base THEN memory[<<from>> \o Tail(b)] ELSE memory[b]]
      /\ agenda' = tasks
      /\ count' = count /\ built' = built /\ status' = "ok"
  BY <1>1, <1>2 DEF PassArgument, Idle
<1>4. /\ Typed /\ StorageKnown /\ PointersLead /\ from \in DOMAIN regions
      /\ regions[from].role = "base" /\ regions[from].type = t /\ base \in Nat /\ base \notin DOMAIN regions
      /\ count \in Counts /\ count \in Nat /\ t \in Types /\ from \in Nat
  <2>2. /\ PointersLead /\ from \in DOMAIN regions /\ regions[from].role = "base"
        /\ regions[from].type = t
    BY DEF Inv, Typed, StorageOK, StorageKnown
  <2>1. Typed /\ StorageKnown /\ regions \in Seq(Region) /\ count \in Counts /\ variables[u] \in Variable
    BY DEF Inv, Typed, StorageOK
  <2> QED BY <1>2, <2>1, <2>2, CountsAssumption DEF Variable
<1>5. /\ v \in Variable /\ v.base = base /\ v.live /\ v.count \in Counts /\ v.type = t
      /\ v.place = "argument" /\ v.count = count
  BY <1>2, <1>4 DEF Variable
<1>6. /\ tasks \in Seq(GoodTask) /\ Len(tasks) <= 1
      /\ \A i \in DOMAIN tasks : /\ tasks[i].do = "copy" /\ tasks[i].at = <<base>> /\ tasks[i].type = t
                                 /\ tasks[i].at[1] = base
      /\ ~IsOpen(t) => 1 \in DOMAIN tasks
  <2>1. CASE ~IsOpen(t)
    <3>1. tasks = <<ToDo("copy", t, <<base>>)>> BY <1>2, <2>1
    <3> HIDE DEF tasks, t
    <3> QED BY <1>4, <2>1, <3>1, OneCall DEF Calls
  <2>2. CASE IsOpen(t) BY <2>2
  <2> QED BY <2>1, <2>2
<1> HIDE DEF tasks, v
<1>7. ASSUME NEW b \in slots
      PROVE  LET c == <<base>> \o Tail(b)
             IN /\ c \in Seq(Nat) /\ c # <<>> /\ c[1] = base
                /\ <<from>> \o Tail(c) = b /\ b \in DOMAIN memory
  <2>1. b \in Seq(Nat) /\ b # <<>> /\ b[1] = from /\ b \in DOMAIN memory BY <1>4 DEF Typed, StorageOK
  <2> HIDE DEF from
  <2> DEFINE c == <<base>> \o Tail(b)
  <2>5. base \in Nat /\ b \in Seq(Nat) /\ b # <<>> BY <1>4, <2>1
  <2>2. c \in Seq(Nat) /\ c # <<>> /\ c[1] = base BY <2>5
  <2>3. Tail(c) = Tail(b) BY <2>5
  <2>4. <<from>> \o Tail(b) = b BY <2>1
  <2> QED BY <2>1, <2>2, <2>3, <2>4
<1>8. ASSUME NEW c \in C
      PROVE  /\ c \in Seq(Nat) /\ c # <<>> /\ c[1] = base
             /\ memory'[c] \in DOMAIN regions /\ regions[memory'[c]].role \in {"array", "field"}
  <2>1. PICK b \in slots : c = <<base>> \o Tail(b) BY <1>2
  <2>2. /\ c \in Seq(Nat) /\ c # <<>> /\ c[1] = base /\ <<from>> \o Tail(c) = b /\ b \in DOMAIN memory
    BY <1>7, <2>1
  <2> HIDE DEF slots, from, C
  <2>3. memory'[c] = memory[b] BY <1>3, <2>2
  <2>4. memory[b] \in DOMAIN regions /\ regions[memory[b]].role \in {"array", "field"}
    BY <1>4, <2>2 DEF Typed, StorageOK, StorageKnown
  <2> QED BY <2>2, <2>3, <2>4
<1> HIDE DEF C, from
<1>9. /\ DOMAIN memory' = DOMAIN memory \cup C
      /\ \A a \in DOMAIN memory : memory'[a] = memory[a]
  <2>1. \A a \in DOMAIN memory : a[1] # base BY <1>4 DEF StorageKnown
  <2> QED BY <1>3, <2>1
<1>10. ASSUME NEW p \in Spots(<<base>>, t), SeenTo(p, "argument")
       PROVE  \E i \in DOMAIN tasks : p \in Cover(tasks[i])
  <2>1. CASE ~IsOpen(t)
    <3>1. 1 \in DOMAIN tasks /\ tasks[1].do = "copy" /\ tasks[1].at = <<base>> /\ tasks[1].type = t
      BY <1>6, <2>1
    <3>2. p \in Cover(tasks[1]) BY <1>10, <3>1 DEF Cover
    <3> QED BY <3>1, <3>2
  <2>2. CASE IsOpen(t)
    <3>1. ClassOf(t) = "vector" /\ ~Def[t].sized BY <2>2 DEF IsOpen
    <3> DEFINE at == <<base>>
    <3>2. at \in Seq(Nat) /\ at # <<>> /\ p \in Spots(at, t) BY <1>4, <1>10
    <3> HIDE DEF at, t
    <3>3. p \in Spot /\ p = [at |-> at, type |-> t] BY <1>4, <3>1, <3>2, SpotsTyped
    <3>4. p.type = t BY <3>3
    <3> QED BY <1>10, <3>1, <3>3, <3>4, NotSeen
  <2> QED BY <2>1, <2>2
<1>11. "copy" \in DoneFor("argument") BY DEF DoneFor, Allocates
<1>14. ASSUME NEW p \in Spots(<<base>>, t), p.at \in C PROVE Leads(p)'
  <2>1. PICK at : at = <<base>> OBVIOUS
  <2>2. at \in Seq(Nat) /\ at # <<>> /\ Tail(at) = <<>> /\ p \in Spots(at, t) BY <1>4, <1>14, <2>1
  <2>3. PICK q : q = [at |-> <<from>> \o Tail(p.at), type |-> p.type] OBVIOUS
  <2>4. q \in Spots(<<from>> \o Tail(at), t)
    <3> HIDE DEF t
    <3> QED BY <1>4, <2>2, <2>3, SpotMoves
  <2>5. <<from>> \o Tail(at) = <<from>>
    <3>3. PICK x \in Nat : x = from BY <1>4
    <3>1. <<x>> \o <<>> = <<x>> BY NothingJoined
    <3> QED BY <2>2, <3>1, <3>3
  <2>6. q \in PlacesIn(from)
    <3>1. q \in PlacesAt(from, "base", t, regions[from].len) BY <2>4, <2>5 DEF PlacesAt
    <3> QED BY <1>4, <3>1, PlacesInAt
  <2>7. q.at \in DOMAIN memory /\ memory'[p.at] = memory[q.at] /\ p.type = q.type
    <3>1. q.at = <<from>> \o Tail(p.at) /\ p.type = q.type BY <2>3
    <3>2. PICK b \in slots : p.at = <<base>> \o Tail(b) BY <1>2, <1>14 DEF C
    <3>3. p.at[1] = base /\ <<from>> \o Tail(p.at) = b /\ b \in DOMAIN memory BY <1>7, <3>2
    <3>4. memory'[p.at] = memory[<<from>> \o Tail(p.at)] BY <1>3, <1>14, <3>3
    <3> QED BY <3>1, <3>3, <3>4
  <2>8. Leads(q) /\ memory[q.at] \in DOMAIN regions BY <1>4, <2>6, <2>7 DEF PointersLead, Typed, StorageOK
  <2>9. PICK m : m = memory[q.at] OBVIOUS
  <2>10. regions'[m] = regions[m] /\ OwnerOf(m)' = OwnerOf(m)
    <3>1. regions \in Seq(Region) /\ variables \in Seq(Variable) /\ regions[m].owner \in DOMAIN variables
      BY <1>4, <2>8, <2>9 DEF Typed, StorageOK
    <3>2. regions'[m] = regions[m] /\ variables'[regions[m].owner] = variables[regions[m].owner]
      BY <1>3, <2>8, <2>9, <3>1
    <3> QED BY <3>2 DEF OwnerOf
  <2> QED BY <2>7, <2>8, <2>9, <2>10 DEF Leads, SizeFor
<1> HIDE DEF t
<1>13. Declares(v, "stack", tasks, C)
  BY <1>2, <1>3, <1>5, <1>6, <1>8, <1>9, <1>10, <1>11, <1>14, Zenon DEF Declares
<1> QED BY <1>3, <1>13 DEF DeclareStepped

LEMMA UnheapStep ==
  ASSUME Inv, Unheap
  PROVE  Inv'
<1>1. PICK u \in DOMAIN variables :
         /\ variables[u].place = "heaped" /\ variables[u].live
         /\ variables' = [variables EXCEPT ![u].live = FALSE]
         /\ agenda' = <<ToDo("dealloc", variables[u].type, <<variables[u].base>>)>>
  BY DEF Unheap
<1>2. Typed /\ AllCharged /\ StorageKnown /\ PlacesSettled /\ PointersLead /\ StorageOK BY DEF Inv, Typed
<1>3. /\ status = "ok" /\ agenda = <<>>
      /\ UNCHANGED <<regions, memory, count, built, status>>
  BY DEF Unheap, Idle
<1>4. PICK t : t = variables[u].type OBVIOUS
<1>5. PICK base : base = variables[u].base OBVIOUS
<1>6. /\ variables \in Seq(Variable) /\ variables[u] \in Variable /\ t \in Types /\ base \in Nat
      /\ base \in DOMAIN regions /\ regions[base].owner = u
  <2>1. variables \in Seq(Variable) /\ base \in DOMAIN regions BY <1>2, <1>5 DEF StorageOK
  <2>2. variables[u] \in Variable BY <2>1
  <2> QED BY <1>2, <1>4, <1>5, <2>1, <2>2 DEF Variable, StorageKnown
<1>7. /\ DOMAIN variables' = DOMAIN variables /\ variables' \in Seq(Variable)
      /\ variables'[u] = [variables[u] EXCEPT !.live = FALSE]
      /\ \A v \in DOMAIN variables \ {u} : variables'[v] = variables[v]
  <2>1. [variables[u] EXCEPT !.live = FALSE] \in Variable BY <1>6 DEF Variable
  <2> QED BY <1>1, <1>6, <2>1
<1>8. ASSUME NEW v \in DOMAIN variables
      PROVE  /\ variables'[v].place = variables[v].place /\ variables'[v].base = variables[v].base
             /\ variables'[v].count = variables[v].count /\ variables'[v].type = variables[v].type
             /\ variables'[v].live => variables[v].live
  BY <1>1, <1>6, <1>7 DEF Variable
<1>9. variables'[u].place = "heaped" /\ ~variables'[u].live BY <1>1, <1>6, <1>7 DEF Variable
<1>10. /\ agenda' \in Seq(GoodTask) /\ DOMAIN agenda' = {1}
       /\ agenda'[1].do = "dealloc" /\ agenda'[1].at[1] = base
  <2>1. agenda' = <<ToDo("dealloc", t, <<base>>)>> BY <1>1, <1>4, <1>5
  <2> QED BY <1>6, <2>1, OneCall DEF Calls
<1>11. ASSUME NEW r \in DOMAIN regions
       PROVE  /\ OwnerOf(r)'.place = OwnerOf(r).place
              /\ OwnerOf(r)'.live => OwnerOf(r).live
              /\ OwnerOf(r)'.count = OwnerOf(r).count
              /\ PlacesIn(r)' = PlacesIn(r)
  <2>1. regions[r].owner \in DOMAIN variables BY <1>2 DEF StorageOK
  <2>2. PlacesIn(r)' = PlacesIn(r) BY <1>3 DEF PlacesIn
  <2> QED BY <1>3, <1>8, <2>1, <2>2 DEF OwnerOf
<1>12. Typed'
  <2>1. agenda' \in Seq(Task) BY <1>10 DEF GoodTask
  <2>2. variables' # <<>> BY <1>6, <1>7
  <2>3. StorageOK' BY <1>2, <1>3, <1>7, <1>8, <2>1 DEF StorageOK
  <2> QED BY <1>2, <1>3, <1>7, <1>8, <1>10, <2>2, <2>3 DEF Typed
<1>13. AllCharged'
  <2>1. OwnerOf(base)' = variables'[u] BY <1>3, <1>6 DEF OwnerOf
  <2>2. Charged(agenda[1])' BY <1>3, <1>6, <1>9, <1>10, <2>1 DEF Charged, Allocates
  <2> QED BY <1>10, <2>2 DEF AllCharged
<1>14. StorageKnown'
  <2>1. \A v \in DOMAIN variables' :
          /\ regions'[variables'[v].base].owner = v /\ regions'[variables'[v].base].role = "base"
          /\ regions'[variables'[v].base].type = variables'[v].type
    BY <1>2, <1>3, <1>7, <1>8 DEF StorageKnown
  <2>2. \A r \in DOMAIN regions' : OwnerOf(r)'.live => regions'[r].live BY <1>2, <1>3, <1>11 DEF StorageKnown
  <2>3. ASSUME NEW a \in DOMAIN memory'
        PROVE  /\ a[1] \in DOMAIN regions' /\ regions'[memory'[a]].role \in {"array", "field"}
               /\ OwnerOf(a[1])'.place = "argument" \/ Own(a)'
    <3>1. /\ a[1] \in DOMAIN regions /\ regions[memory[a]].role \in {"array", "field"}
          /\ OwnerOf(a[1]).place = "argument" \/ Own(a)
      BY <1>2, <1>3 DEF StorageKnown
    <3> QED BY <1>3, <1>11, <3>1 DEF Own
  <2>4. \A r \in DOMAIN regions' : OwnerOf(r)'.place = "heaped" => regions'[r].place = "heap"
    BY <1>2, <1>3, <1>11 DEF StorageKnown
  <2> QED BY <2>1, <2>2, <2>3, <2>4 DEF StorageKnown, OwnerOf, Own
<1>15. PlacesSettled'
  <2>1. ASSUME NEW r \in DOMAIN regions, NEW p PROVE SeenIn(p, r)' => SeenIn(p, r)
    <3>1. ~Pending(p) BY <1>3 DEF Pending
    <3>2. OwnerOf(r)'.place = OwnerOf(r).place BY <1>11
    <3> QED BY <3>1, <3>2 DEF SeenIn
  <2>2. \A a : Own(a)' <=> Own(a) BY <1>3 DEF Own
  <2>3. /\ \A r \in DOMAIN regions : \A p \in PlacesIn(r) :
             SeenIn(p, r)' => p.at \in DOMAIN memory /\ Own(p.at)
        /\ \A r, s \in DOMAIN regions : \A p \in PlacesIn(r), q \in PlacesIn(s) :
             SeenIn(p, r)' /\ SeenIn(q, s)' /\ memory[p.at] = memory[q.at] => p.at = q.at
    BY <1>2, <1>3, <2>1 DEF PlacesSettled
  <2> QED BY <1>3, <1>11, <2>2, <2>3 DEF PlacesSettled
<1>16. PointersLead' BY <1>2, <1>3, <1>11, SameStorageLeads
<1> QED BY <1>12, <1>13, <1>14, <1>15, <1>16 DEF Inv

LEMMA CountStep ==
  ASSUME Inv, AssignCount
  PROVE  Inv'
<1>1. Typed /\ AllCharged /\ StorageKnown /\ PlacesSettled /\ PointersLead BY DEF Inv
<1>2. /\ UNCHANGED <<regions, memory, variables, agenda, built, status>> /\ count' \in Counts
      /\ agenda = <<>>
  BY DEF AssignCount, Idle
<1>3. Typed' BY <1>1, <1>2 DEF Typed, StorageOK
<1>4. AllCharged' BY <1>2 DEF AllCharged
<1>5. StorageKnown' BY <1>1, <1>2 DEF StorageKnown, Own, OwnerOf
<1>6. PlacesSettled'
  <2>1. \A r : PlacesIn(r)' = PlacesIn(r) BY <1>2 DEF PlacesIn
  <2>2. \A p : Pending(p)' <=> Pending(p) BY <1>2 DEF Pending
  <2>3. \A r : \A p : SeenIn(p, r)' <=> SeenIn(p, r) BY <1>2, <2>2 DEF SeenIn, OwnerOf
  <2>4. \A a : Own(a)' <=> Own(a) BY <1>2 DEF Own
  <2> QED BY <1>1, <1>2, <2>1, <2>3, <2>4 DEF PlacesSettled
<1>7. PointersLead' BY <1>1, <1>2, SameStorageLeads DEF OwnerOf
<1> QED BY <1>3, <1>4, <1>5, <1>6, <1>7 DEF Inv

LEMMA StutterStep ==
  ASSUME Inv, UNCHANGED storage
  PROVE  Inv'
<1>1. Typed /\ AllCharged /\ StorageKnown /\ PlacesSettled /\ PointersLead BY DEF Inv
<1>2. UNCHANGED <<regions, memory, variables, agenda, count, built, status>> BY DEF storage
<1>3. Typed' BY <1>1, <1>2 DEF Typed, StorageOK
<1>4. AllCharged' BY <1>1, <1>2, AllStayCharged DEF AllCharged
<1>5. StorageKnown' BY <1>1, <1>2 DEF StorageKnown, Own, OwnerOf
<1>6. PlacesSettled'
  <2>1. \A r : PlacesIn(r)' = PlacesIn(r) BY <1>2 DEF PlacesIn
  <2>2. \A p : Pending(p)' <=> Pending(p) BY <1>2 DEF Pending
  <2>3. \A r : \A p : SeenIn(p, r)' <=> SeenIn(p, r) BY <1>2, <2>2 DEF SeenIn, OwnerOf
  <2>4. \A a : Own(a)' <=> Own(a) BY <1>2 DEF Own
  <2> QED BY <1>1, <1>2, <2>1, <2>3, <2>4 DEF PlacesSettled
<1>7. PointersLead' BY <1>1, <1>2, SameStorageLeads DEF OwnerOf
<1> QED BY <1>3, <1>4, <1>5, <1>6, <1>7 DEF Inv

-----------------------------------------------------------------------------
(* Allocating, call by call. *)

(* A call that is made for an allocation. *)
LEMMA DoingKnown ==
  ASSUME Inv, NEW do \in Allocates, NEW class, Doing(do, class)
  PROVE  /\ status = "ok" /\ agenda # <<>> /\ First.do = do /\ First.do \in Allocates
         /\ ClassOf(First.type) = class /\ First.type \in Types /\ do \in DoneFor(Declared)
<1>1. /\ status = "ok" /\ agenda # <<>> /\ First.do = do /\ ClassOf(First.type) = class BY DEF Doing, Class
<1>2. First.type \in Types /\ First.do \in DoneFor(Declared) BY <1>1, CallKnown
<1> QED BY <1>1, <1>2

LEMMA VectorSteps ==
  ASSUME Inv, HeapVector \/ ContextVector \/ StackVector, UNCHANGED <<variables, count, status>>
  PROVE  AllocStepped
<1>1. CASE HeapVector
  <2>1. Doing("heap", "vector") /\ AllocateVector("heap", Handles, "heap") /\ "heap" \in Allocates
    BY <1>1 DEF HeapVector, Allocates
  <2>2. /\ status = "ok" /\ agenda # <<>> /\ First.do \in Allocates /\ First.do # "member"
        /\ ClassOf(First.type) = "vector" /\ First.type \in Types /\ "heap" \in DoneFor(Declared)
    BY <2>1, DoingKnown
  <2>3. IsHandles(Handles) BY <2>2, HandleOnly DEF Handles
  <2> QED BY <2>1, <2>2, <2>3, VectorStep
<1>2. CASE ContextVector
  <2> DEFINE handles == <<NewRegion("heap", "handle", First.type, 1)>>
  <2>1. Doing("context", "vector") /\ AllocateVector("heap", handles, "context")
        /\ "context" \in Allocates
    BY <1>2 DEF ContextVector, Allocates
  <2>2. /\ status = "ok" /\ agenda # <<>> /\ First.do \in Allocates /\ First.do # "member"
        /\ ClassOf(First.type) = "vector" /\ First.type \in Types /\ "context" \in DoneFor(Declared)
    BY <2>1, DoingKnown
  <2>3. IsHandles(handles) BY <2>2, HandleOnly
  <2> QED BY <2>1, <2>2, <2>3, VectorStep
<1>3. CASE StackVector
  <2>1. Doing("stack", "vector") /\ AllocateVector("stack", <<>>, "member") /\ "stack" \in Allocates
    BY <1>3 DEF StackVector, Allocates
  <2>2. /\ status = "ok" /\ agenda # <<>> /\ First.do \in Allocates /\ First.do # "member"
        /\ ClassOf(First.type) = "vector" /\ First.type \in Types /\ "stack" \in DoneFor(Declared)
    BY <2>1, DoingKnown
  <2>3. IsHandles(<<>>) BY <2>2, HandleOnly
  <2>4. "member" \in DoneFor(Declared) /\ Declared = "stacked" BY <2>2 DEF DoneFor, Allocates
  <2> QED BY <2>1, <2>2, <2>3, <2>4, VectorStep
<1> QED BY <1>1, <1>2, <1>3

(* What is within tables, which the code passes over when they are part of something. *)
LEMMA TablePassedOver ==
  ASSUME NEW t \in Types, ClassOf(t) = "table", NEW at \in Seq(Nat), Len(at) > 1,
         NEW place, place # "heaped", NEW p \in Spots(at, t)
  PROVE  ~SeenTo(p, place)
<1>1. at # <<>> /\ Len(at) \in Nat OBVIOUS
<1>2. p \in Spot /\ p.type = t /\ Len(p.at) > Len(at) BY <1>1, SpotsTyped
<1>3. Len(p.at) \in Nat BY <1>2 DEF Spot
<1>4. Len(p.at) > 2 BY <1>1, <1>2, <1>3
<1>5. ClassOf(p.type) = "table" BY <1>2
<1> QED BY <1>2, <1>4, <1>5, NotSeen

LEMMA TableSteps ==
  ASSUME Inv, HeapTable \/ ContextTable \/ StackTable, UNCHANGED <<variables, count, status>>
  PROVE  AllocStepped
<1>1. CASE HeapTable
  <2>1. Doing("heap", "table") /\ AllocateTable("heap", Handles) /\ "heap" \in Allocates
    BY <1>1 DEF HeapTable, Allocates
  <2>2. /\ status = "ok" /\ agenda # <<>> /\ First.do \in Allocates /\ First.do # "member"
        /\ ClassOf(First.type) = "table" /\ First.type \in Types
    BY <2>1, DoingKnown
  <2>3. IsHandles(Handles) BY <2>2, HandleOnly DEF Handles
  <2> QED BY <2>1, <2>2, <2>3, TableStep
<1>2. CASE ContextTable
  <2>1. Doing("context", "table") /\ "context" \in Allocates BY <1>2 DEF ContextTable, Allocates
  <2>2. /\ status = "ok" /\ agenda # <<>> /\ First.do = "context" /\ First.do \in Allocates
        /\ First.do # "member"
        /\ ClassOf(First.type) = "table" /\ First.type \in Types /\ "context" \in DoneFor(Declared)
    BY <2>1, DoingKnown
  <2>3. IsHandles(<<>>) BY <2>2, HandleOnly
  <2>4. CASE ~Nested
    <3>1. AllocateTable("heap", <<>>) BY <1>2, <2>4 DEF ContextTable
    <3> QED BY <2>2, <2>3, <3>1, TableStep
  <2>5. CASE Nested
    <3>1. GoOn(<<>>) /\ UNCHANGED <<regions, memory, built>> BY <1>2, <2>5 DEF ContextTable
    <3>2. Declared # "heaped" BY <2>2 DEF DoneFor
    <3>3. First.at \in Seq(Nat) /\ Len(First.at) > 1 /\ regions \in Seq(Region)
      BY <2>2, <2>5, CallKnown DEF Nested
    <3>4. \A p \in Cover(First) : ~SeenTo(p, Declared) BY <2>2, <3>2, <3>3, TablePassedOver DEF Cover
    <3>5. regions' = regions \o <<>> BY <3>1, <3>3
    <3> QED BY <2>2, <2>3, <3>1, <3>4, <3>5, HandlesStep
  <2> QED BY <2>4, <2>5
<1>3. CASE StackTable
  <2>1. Doing("stack", "table") /\ AllocateTable("stack", <<>>) /\ "stack" \in Allocates
    BY <1>3 DEF StackTable, Allocates
  <2>2. /\ status = "ok" /\ agenda # <<>> /\ First.do \in Allocates /\ First.do # "member"
        /\ ClassOf(First.type) = "table" /\ First.type \in Types /\ "stack" \in DoneFor(Declared)
    BY <2>1, DoingKnown
  <2>4. Declared # "heaped" BY <2>2 DEF DoneFor
  <2>3. IsHandles(<<>>) BY <2>2, HandleOnly
  <2> QED BY <2>1, <2>2, <2>3, <2>4, TableStep
<1> QED BY <1>1, <1>2, <1>3

LEMMA CollectionSteps ==
  ASSUME Inv,
         \/ HeapCollection \/ ContextCollection \/ StackCollection \/ StackSubcollection
         \/ CopyCollection,
         UNCHANGED <<variables, count, status>>
  PROVE  AllocStepped
<1>1. PICK do \in Allocates, on \in Allocates :
        /\ Doing(do, "collection") /\ GoOn(Members(on, First.type, First.at))
        /\ on = do \/ (do = "stack" /\ on = "member")
  <2>1. CASE HeapCollection BY <2>1 DEF HeapCollection, Allocates
  <2>2. CASE ContextCollection BY <2>2 DEF ContextCollection, Allocates
  <2>3. CASE StackCollection BY <2>3 DEF StackCollection, Allocates
  <2>4. CASE StackSubcollection BY <2>4 DEF StackSubcollection, Allocates
  <2>5. CASE CopyCollection BY <2>5 DEF CopyCollection, Allocates
  <2> QED BY <2>1, <2>2, <2>3, <2>4, <2>5
<1>2. /\ status = "ok" /\ agenda # <<>> /\ First.do = do /\ First.do \in Allocates
      /\ ClassOf(First.type) = "collection" /\ do \in DoneFor(Declared)
  BY <1>1, DoingKnown
<1>3. on \in DoneFor(Declared) /\ (on = First.do \/ on = "member") BY <1>1, <1>2 DEF DoneFor, Allocates
<1>4. UNCHANGED <<regions, memory, built, variables, count, status>>
  BY DEF HeapCollection, ContextCollection, StackCollection, StackSubcollection, CopyCollection
<1>5. ClassOf(First.type) \notin {"vector", "table"} BY <1>2
<1> QED BY <1>1, <1>2, <1>3, <1>4, <1>5, MembersStep

LEMMA MemberStep ==
  ASSUME Inv, StackMember, UNCHANGED <<variables, count, status>>
  PROVE  AllocStepped
<1> DEFINE handles == <<NewRegion("stack", "handle", First.type, 1)>>
<1>1. /\ Doing("member", "vector") \/ Doing("member", "table")
      /\ regions' = Append(regions, NewRegion("stack", "handle", First.type, 1))
      /\ GoOn(<<>>) /\ UNCHANGED <<memory, built>> /\ "member" \in Allocates
  BY DEF StackMember, Allocates
<1>2. /\ status = "ok" /\ agenda # <<>> /\ First.do = "member" /\ First.do \in Allocates
      /\ First.type \in Types
  BY <1>1, DoingKnown
<1>3. IsHandles(handles)
  <2>1. Declared # "heaped" BY <1>1, <1>2, DoingKnown DEF DoneFor
  <2> QED BY <1>2, <2>1, HandleOnly
<1>4. \A p \in Cover(First) : ~SeenTo(p, Declared) BY <1>2 DEF Cover
<1>5. regions' = regions \o handles
  <2>1. regions \in Seq(Region) /\ handles \in Seq(Region) BY <1>2, <1>3, CallKnown DEF IsHandles
  <2>2. NewRegion("stack", "handle", First.type, 1) \in Region
    <3>1. Len(variables) \in Nat BY DEF Inv, Typed, StorageOK
    <3> QED BY <1>2, <3>1 DEF NewRegion, Region
  <2> QED BY <1>1, <2>1, <2>2
<1> QED BY <1>1, <1>2, <1>3, <1>4, <1>5, HandlesStep

LEMMA SkipStep ==
  ASSUME Inv, Skip, UNCHANGED <<variables, count, status>>
  PROVE  AllocStepped \/ (ReleaseStepped /\ First.do = "dealloc")
<1>1. /\ GoOn(<<>>) /\ UNCHANGED <<regions, memory, built>> /\ status = "ok" /\ agenda # <<>>
  BY DEF Skip, Doing
<1>2. CASE First.do \in Allocates
  <2>1. /\ First.type \in Types /\ First.at \in Seq(Nat) /\ First.at # <<>>
        /\ First.do \in DoneFor(Declared) /\ regions \in Seq(Region)
        /\ First.do = "copy" /\ ClassOf(First.type) = "table" => Len(First.at) > 1
    BY <1>1, <1>2, CallKnown
  <2>2. \/ ClassOf(First.type) \in {"primitive", "address"}
        \/ First.do = "copy" /\ ClassOf(First.type) = "table"
    BY <1>2 DEF Skip, Doing, Class, Allocates
  <2>3. ASSUME NEW p \in Cover(First) PROVE ~SeenTo(p, Declared)
    <3>1. p \in Spots(First.at, First.type) BY DEF Cover
    <3>2. CASE ClassOf(First.type) \in {"primitive", "address"} BY <2>1, <3>1, <3>2, SpotsTyped
    <3>3. CASE First.do = "copy" /\ ClassOf(First.type) = "table"
      <4>1. Declared # "heaped" BY <2>1, <3>3 DEF DoneFor
      <4> QED BY <2>1, <3>1, <3>3, <4>1, TablePassedOver
    <3> QED BY <2>2, <3>2, <3>3
  <2>4. IsHandles(<<>>) BY <2>1, HandleOnly
  <2>5. regions' = regions \o <<>> BY <1>1, <2>1
  <2> QED BY <1>1, <1>2, <2>3, <2>4, <2>5, HandlesStep
<1>3. CASE First.do \notin Allocates
  <2>1. First.do = "dealloc" BY <1>3 DEF Skip, Doing, Allocates
  <2>2. First.do \in Releases BY <2>1 DEF Releases
  <2>3. agenda' = <<>> \o Rest /\ <<>> \in Seq(GoodTask) /\ DOMAIN <<>> = {} BY <1>1 DEF GoOn
  <2> QED BY <1>1, <2>1, <2>2, <2>3 DEF ReleaseStepped, Unheaping
<1> QED BY <1>2, <1>3

-----------------------------------------------------------------------------
(* The theorems. *)

LEMMA InitInv == Init => Inv
<1> SUFFICES ASSUME Init PROVE Inv
  OBVIOUS
<1>1. /\ regions = <<>> /\ variables = <<>> /\ agenda = <<>> /\ built = {} /\ status = "ok"
      /\ count \in Counts /\ DOMAIN memory = {} /\ DOMAIN regions = {} /\ DOMAIN variables = {}
  BY DEF Init
<1>2. agenda \in Seq(Task) /\ agenda \in Seq(GoodTask) /\ DOMAIN agenda = {} BY <1>1
<1>3. Typed BY <1>1, <1>2 DEF Typed, StorageOK
<1>4. AllCharged BY <1>2 DEF AllCharged
<1>5. StorageKnown BY <1>1 DEF StorageKnown
<1>6. PlacesSettled BY <1>1 DEF PlacesSettled
<1>7. PointersLead BY <1>1 DEF PointersLead
<1> QED BY <1>3, <1>4, <1>5, <1>6, <1>7 DEF Inv

LEMMA NextKeepsInv == Inv /\ [Separate]_storage => Inv'
<1> SUFFICES ASSUME Inv, [Separate]_storage PROVE Inv'
  OBVIOUS
<1>1. CASE Statement BY <1>1, DeclareSteps, PassStep, DeclareSteppedKeeps, UnheapStep, CountStep DEF Statement
<1>2. CASE Allocation
  <2>1. UNCHANGED <<variables, count, status>> BY <1>2 DEF Allocation
  <2>2. AllocStepped \/ ReleaseStepped
    BY <1>2, <2>1, VectorSteps, TableSteps, CollectionSteps, MemberStep, SkipStep DEF Allocation
  <2> QED BY <2>2, AllocSteppedKeeps, ReleaseSteppedKeeps
<1>3. CASE CopyVector BY <1>3, CopyVectorStep, StuckStep, AllocSteppedKeeps
<1>4. CASE CopyCrash \/ DeallocCrash \/ ReadWild \/ AssignWild
  <2>1. UNCHANGED <<regions, memory, variables, agenda, count, built>> /\ status' \in {"wild", "crashed"}
    BY <1>4 DEF CopyCrash, DeallocCrash, ReadWild, AssignWild
  <2> QED BY <2>1, StuckStep
<1>5. CASE Deallocation BY <1>5, DeallocSteps, ReleaseSteppedKeeps
<1>6. CASE FreeRegion BY <1>6, FreeStep
<1>7. CASE UNCHANGED storage BY <1>7, StutterStep
<1> QED BY <1>1, <1>2, <1>3, <1>4, <1>5, <1>6, <1>7 DEF Separate

(* As long as no variable has been stored in another, nothing was ever shared. *)
LEMMA ApartStep == [Next]_vars /\ Apart' => Apart /\ [Separate]_storage
<1> SUFFICES ASSUME [Next]_vars, Apart' PROVE Apart /\ [Separate]_storage
  OBVIOUS
<1>1. \A u, w : ~Sharing(u, w) BY DEF Sharing, Apart
<1>2. ~(DeclareInitialised \/ StoreInitialiser \/ AssignValue \/ AssignElements)
  BY <1>1 DEF DeclareInitialised, StoreInitialiser, AssignValue, AssignElements
<1> QED BY <1>2 DEF Next, vars, Apart

LEMMA InvHolds == Spec => [](Apart => Inv)
<1>1. (Apart => Inv) /\ [Next]_vars => (Apart' => Inv') BY ApartStep, NextKeepsInv
<1> QED BY <1>1, InitInv, PTL DEF Spec

(* Whatever the types of a program and however long it runs: until a variable is stored in  *)
(* another, every pointer that was stored leads to memory that was handed out, and every    *)
(* piece of memory belongs to a variable (build.cpp 565-1190).                              *)
THEOREM StorageIsTyped == Spec => [](Apart => TypeOK)
<1>1. Apart /\ Inv => TypeOK BY InvSuffices DEF Apart, TypeOK
<1> QED BY <1>1, InvHolds, PTL

(* Whatever the types of a program and however long it runs: until a variable is stored in   *)
(* another, each vector and each column that the code sees to has, whenever the program goes *)
(* on, a live array of its own variable, and no two of them share one; arguments included    *)
(* (build.cpp 565-1190).                                                                     *)
THEOREM EveryVariableOwnsItsArrays == Spec => [](Apart => EachItsOwnArray)
<1>1. Apart /\ Inv => EachItsOwnArray BY InvSuffices DEF Apart
<1> QED BY <1>1, InvHolds, PTL

(* Whatever the types of a program and however long it runs: until a variable is stored in  *)
(* another, a pointer that was stored for a vector leads to an array of that vector's       *)
(* elements, as many as the size expression said when its variable was declared, also when  *)
(* the size has changed since, and when arrays were copied for an argument (build.cpp       *)
(* 565-1190).                                                                               *)
THEOREM VectorPointersLead == Spec => [](Apart => PointersLead)
<1>1. Inv => PointersLead BY DEF Inv
<1> QED BY <1>1, InvHolds, PTL

(* The agenda after a call. *)
LEMMA AgendaAfter ==
  ASSUME Typed, agenda # <<>>, NEW tasks \in Seq(GoodTask), agenda' = tasks \o Rest
  PROVE  /\ agenda' \in Seq(GoodTask) /\ DOMAIN agenda' = 1 .. Len(agenda') /\ Len(tasks) \in Nat
         /\ \A i \in DOMAIN agenda' :
              \/ i \in DOMAIN tasks /\ agenda'[i] = tasks[i]
              \/ /\ i > Len(tasks) /\ i - Len(tasks) + 1 \in DOMAIN agenda /\ i - Len(tasks) + 1 > 1
                 /\ agenda'[i] = agenda[i - Len(tasks) + 1]
         /\ \A i \in DOMAIN tasks : i \in DOMAIN agenda' /\ agenda'[i] = tasks[i]
         /\ \A j \in DOMAIN agenda : j > 1 =>
              Len(tasks) + j - 1 \in DOMAIN agenda' /\ agenda'[Len(tasks) + j - 1] = agenda[j]
<1>1. /\ Rest \in Seq(GoodTask) /\ Len(agenda) = Len(Rest) + 1 /\ Len(agenda) \in Nat
      /\ agenda \in Seq(GoodTask) /\ \A i \in 1 .. Len(Rest) : Rest[i] = agenda[i + 1]
  BY FirstKnown DEF Typed
<1>2. agenda' \in Seq(GoodTask) /\ Len(agenda') = Len(tasks) + Len(Rest) /\ Len(tasks) \in Nat /\ Len(Rest) \in Nat
  BY <1>1
<1>3. \A i \in DOMAIN tasks : i \in DOMAIN agenda' /\ agenda'[i] = tasks[i] BY <1>1, <1>2
<1>4. \A i \in 1 .. Len(Rest) : Len(tasks) + i \in DOMAIN agenda' /\ agenda'[Len(tasks) + i] = Rest[i]
  BY <1>1, <1>2
<1>5. ASSUME NEW i \in DOMAIN agenda'
      PROVE  \/ i \in DOMAIN tasks /\ agenda'[i] = tasks[i]
             \/ /\ i > Len(tasks) /\ i - Len(tasks) + 1 \in DOMAIN agenda /\ i - Len(tasks) + 1 > 1
                /\ agenda'[i] = agenda[i - Len(tasks) + 1]
  <2>1. CASE i <= Len(tasks) BY <1>2, <1>3, <2>1
  <2>2. CASE ~(i <= Len(tasks))
    <3>1. PICK k : k = i - Len(tasks) OBVIOUS
    <3>2. k \in 1 .. Len(Rest) /\ Len(tasks) + k = i BY <1>2, <2>2, <3>1
    <3>3. agenda'[i] = agenda[k + 1] /\ k + 1 \in DOMAIN agenda /\ k + 1 > 1 /\ i > Len(tasks)
      BY <1>1, <1>2, <1>4, <3>2
    <3> QED BY <3>1, <3>3
  <2> QED BY <2>1, <2>2
<1>6. ASSUME NEW j \in DOMAIN agenda, j > 1
      PROVE  Len(tasks) + j - 1 \in DOMAIN agenda' /\ agenda'[Len(tasks) + j - 1] = agenda[j]
  <2>1. PICK k : k = j - 1 OBVIOUS
  <2>2. k \in 1 .. Len(Rest) /\ k + 1 = j /\ Len(tasks) + k = Len(tasks) + j - 1 BY <1>1, <1>2, <1>6, <2>1
  <2> QED BY <1>1, <1>4, <2>2
<1> QED BY <1>2, <1>3, <1>5, <1>6

LEMMA NoneCovered ==
  ASSUME NEW x, x.do \in Releases
  PROVE  Cover(x) = {} /\ x.do \notin Allocates
BY DEF Cover, Releases, Allocates

LEMMA SameStorageMeans ==
  ASSUME Inv, SameStorage
  PROVE  /\ \A r \in DOMAIN regions : PlacesIn(r)' = PlacesIn(r)
         /\ \A r \in DOMAIN regions : OwnerOf(r)'.place = OwnerOf(r).place
         /\ \A r \in DOMAIN regions : OwnerOf(r)'.type = OwnerOf(r).type
         /\ \A p, r : r \in DOMAIN regions => (Parent(p, r)' <=> Parent(p, r))
<1>1. ASSUME NEW r \in DOMAIN regions PROVE PlacesIn(r)' = PlacesIn(r)
  <2>1. PlacesIn(r)' = PlacesAt(r, regions'[r].role, regions'[r].type, regions'[r].len)
    BY PlacesInPrimed, Zenon
  <2>2. PlacesIn(r) = PlacesAt(r, regions[r].role, regions[r].type, regions[r].len) BY PlacesInAt, Zenon
  <2> QED BY <2>1, <2>2 DEF SameStorage
<1>2. ASSUME NEW r \in DOMAIN regions
      PROVE  OwnerOf(r)'.place = OwnerOf(r).place /\ OwnerOf(r)'.type = OwnerOf(r).type
  <2>1. regions[r].owner \in DOMAIN variables /\ regions'[r].owner = regions[r].owner
    BY DEF Inv, Typed, StorageOK, SameStorage
  <2> QED BY <2>1 DEF OwnerOf, SameStorage
<1>3. ASSUME NEW p, NEW r \in DOMAIN regions PROVE Parent(p, r)' <=> Parent(p, r)
  <2>1. PICK s : s = p.at[1] OBVIOUS
  <2>2. CASE s \in DOMAIN regions
    <3>1. PlacesIn(s)' = PlacesIn(s) /\ regions'[s].owner = regions[s].owner /\ regions'[r].owner = regions[r].owner
      BY <1>1, <2>2 DEF SameStorage
    <3> QED BY <2>1, <2>2, <3>1 DEF Parent, SameStorage
  <2>3. CASE s \notin DOMAIN regions BY <2>1, <2>3 DEF Parent, SameStorage
  <2> QED BY <2>2, <2>3
<1> QED BY <1>1, <1>2, <1>3

LEMMA SameStorageKeepsTree ==
  ASSUME Inv, Tree, SameStorage,
         \/ agenda' = agenda /\ Declared' = Declared
         \/ \A i \in DOMAIN agenda' : agenda'[i].do \in Releases
  PROVE  Tree'
<1>1. /\ \A r \in DOMAIN regions : PlacesIn(r)' = PlacesIn(r)
      /\ \A r \in DOMAIN regions : OwnerOf(r)'.place = OwnerOf(r).place
      /\ \A p, r : r \in DOMAIN regions => (Parent(p, r)' <=> Parent(p, r))
  BY SameStorageMeans
<1>2. HasParents'
  <2>1. AllPlaces' = AllPlaces BY <1>1 DEF AllPlaces, SameStorage
  <2> QED BY <1>1, <2>1 DEF Tree, HasParents, SameStorage
<1>3. StoredInPlaces'
  <2>1. \A a \in DOMAIN memory : a[1] \in DOMAIN regions BY DEF Inv, StorageKnown
  <2> QED BY <1>1, <2>1 DEF Tree, StoredInPlaces, SameStorage
<1>4. BasesKnown'
  <2>1. /\ \A v \in DOMAIN variables : variables[v].base \in DOMAIN regions
        /\ \A r \in DOMAIN regions : regions[r].owner \in DOMAIN variables
    BY DEF Inv, Typed, StorageOK
  <2>2. ASSUME NEW v \in DOMAIN variables
        PROVE  regions'[variables'[v].base].len = Len(Def[variables'[v].type].parts)
    <3>1. regions[variables[v].base].len = Len(Def[variables[v].type].parts) BY DEF Tree, BasesKnown
    <3> QED BY <2>1, <3>1 DEF SameStorage
  <2>3. ASSUME NEW r \in DOMAIN regions, regions'[r].role = "base"
        PROVE  r = variables'[regions'[r].owner].base
    BY <2>1, <2>3 DEF Tree, BasesKnown, SameStorage
  <2> QED BY <2>2, <2>3 DEF BasesKnown, SameStorage
<1>5. CASE agenda' = agenda /\ Declared' = Declared
  <2>1. OneKind' /\ CoversApart' BY <1>5 DEF Tree, OneKind, CoversApart, Cover
  <2>2. CoversFresh' BY <1>5 DEF Tree, CoversFresh, Cover, SameStorage
  <2> QED BY <1>2, <1>3, <1>4, <2>1, <2>2 DEF Tree
<1>6. CASE \A i \in DOMAIN agenda' : agenda'[i].do \in Releases
  <2>1. OneKind' BY <1>6 DEF OneKind
  <2>2. \A i \in DOMAIN agenda' : Cover(agenda'[i]) = {} BY <1>6, NoneCovered
  <2>3. CoversApart' /\ CoversFresh'
    <3>1. \A i \in DOMAIN agenda' : Cover(agenda[i])' = {} BY <2>2 DEF Cover
    <3> QED BY <3>1 DEF CoversApart, CoversFresh
  <2> QED BY <1>2, <1>3, <1>4, <2>1, <2>3 DEF Tree
<1> QED BY <1>5, <1>6

(* The places that a call on the agenda covers are in old storage of the last variable. *)
LEMMA CoverKnown ==
  ASSUME Inv, NEW i \in DOMAIN agenda, NEW p \in Cover(agenda[i])
  PROVE  /\ p.at[1] \in DOMAIN regions /\ p \in PlacesIn(p.at[1])
         /\ regions[p.at[1]].owner = Len(variables)
<1>1. agenda[i].do \in Allocates BY DEF Cover, Allocates
<1>2. /\ agenda[i].at[1] \in DOMAIN regions /\ regions[agenda[i].at[1]].owner = Len(variables)
      /\ Spots(agenda[i].at, agenda[i].type) \subseteq PlacesIn(agenda[i].at[1])
  BY <1>1 DEF Inv, AllCharged, Charged
<1>3. p \in PlacesIn(agenda[i].at[1]) BY <1>2 DEF Cover
<1>4. p.at[1] = agenda[i].at[1] BY <1>2, <1>3, PlacesInTyped DEF Inv
<1> QED BY <1>2, <1>3, <1>4

LEMMA AllocKeepsTree ==
  ASSUME Inv, Tree, NEW new, NEW tasks, NEW D, NEW C, AllocStep(new, tasks, D, C)
  PROVE  Tree'
<1>1. /\ Typed /\ StorageKnown /\ agenda # <<>> /\ variables # <<>> /\ First.do \in Allocates
      /\ 1 \in DOMAIN agenda /\ First = agenda[1] /\ variables' = variables
      /\ regions \in Seq(Region) /\ DOMAIN agenda \subseteq Nat
  <2>1. Typed /\ StorageKnown /\ agenda # <<>> /\ First.do \in Allocates /\ variables' = variables
    BY DEF Inv, AllocStep
  <2>2. agenda \in Seq(GoodTask) BY <2>1 DEF Typed
  <2> QED BY <2>1, <2>2 DEF Typed, StorageOK, First
<1>2. /\ regions' \in Seq(Region) /\ DOMAIN regions \subseteq DOMAIN regions'
      /\ \A r \in DOMAIN regions :
           regions'[r] = regions[r] /\ OwnerOf(r)' = OwnerOf(r) /\ PlacesIn(r)' = PlacesIn(r)
      /\ \A r \in DOMAIN regions' \ DOMAIN regions :
           regions'[r].owner = Len(variables) /\ OwnerOf(r)' = Latest
  BY <1>1, RegionsGrow, Zenon DEF AllocStep, Latest
<1>3. /\ \A i \in DOMAIN agenda' :
           \/ i \in DOMAIN tasks /\ agenda'[i] = tasks[i]
           \/ /\ i > Len(tasks) /\ i - Len(tasks) + 1 \in DOMAIN agenda /\ i - Len(tasks) + 1 > 1
              /\ agenda'[i] = agenda[i - Len(tasks) + 1]
      /\ DOMAIN agenda' \subseteq Nat /\ Len(tasks) \in Nat
  <2>1. tasks \in Seq(GoodTask) /\ agenda' = tasks \o Rest BY DEF AllocStep
  <2>2. /\ agenda' \in Seq(GoodTask)
        /\ \A i \in DOMAIN agenda' :
             \/ i \in DOMAIN tasks /\ agenda'[i] = tasks[i]
             \/ /\ i > Len(tasks) /\ i - Len(tasks) + 1 \in DOMAIN agenda /\ i - Len(tasks) + 1 > 1
                /\ agenda'[i] = agenda[i - Len(tasks) + 1]
    BY <1>1, <2>1, AgendaAfter
  <2>3. DOMAIN agenda' \subseteq Nat /\ Len(tasks) \in Nat BY <2>1, <2>2
  <2> QED BY <2>2, <2>3
<1>4. \A i \in DOMAIN tasks : tasks[i].do \in Allocates BY DEF AllocStep, ForDeclared, DoneFor
<1>5. \A i \in DOMAIN agenda : agenda[i].do \in Allocates BY <1>1 DEF Tree, OneKind, Allocates, Releases
<1>6. OneKind' BY <1>3, <1>4, <1>5 DEF OneKind
<1>7. ASSUME NEW d \in D
      PROVE  /\ d[1] \in DOMAIN regions /\ regions[d[1]].owner = Len(variables) /\ d \in DOMAIN memory'
             /\ \E p \in Cover(First) : p.at = d /\ p \in PlacesIn(d[1])
  <2>1. First.do \in {"heap", "stack", "context", "copy"} BY <1>1 DEF AllocStep, Allocates
  <2>2. PICK p \in Spots(First.at, First.type) : p.at = d BY DEF AllocStep
  <2>3. p \in Cover(First) BY <2>1, <2>2 DEF Cover
  <2>4. p \in PlacesIn(d[1]) BY <1>1, <2>2, <2>3, CoverKnown
  <2> QED BY <2>2, <2>3, <2>4 DEF AllocStep
<1>8. ASSUME NEW i \in DOMAIN tasks, NEW p \in Cover(tasks[i]), NEW j \in DOMAIN agenda, j > 1,
             NEW q \in Cover(agenda[j]), p.at = q.at
      PROVE  FALSE
  <2>1. q.at[1] \in DOMAIN regions BY CoverKnown
  <2>2. p \in Cover(First) BY <1>8, <2>1 DEF AllocStep
  <2> QED BY <1>1, <1>8, <2>2 DEF Tree, CoversApart
<1>9. CoversApart'
  <2>1. ASSUME NEW i \in DOMAIN agenda', NEW j \in DOMAIN agenda',
               NEW p \in Cover(agenda'[i]), NEW q \in Cover(agenda'[j]), p.at = q.at
        PROVE  i = j
    <3>1. CASE i \in DOMAIN tasks /\ agenda'[i] = tasks[i] /\ j \in DOMAIN tasks /\ agenda'[j] = tasks[j]
      BY <2>1, <3>1 DEF AllocStep
    <3>2. CASE /\ i - Len(tasks) + 1 \in DOMAIN agenda /\ agenda'[i] = agenda[i - Len(tasks) + 1]
               /\ j - Len(tasks) + 1 \in DOMAIN agenda /\ agenda'[j] = agenda[j - Len(tasks) + 1]
      <4>1. i - Len(tasks) + 1 = j - Len(tasks) + 1 BY <2>1, <3>2 DEF Tree, CoversApart
      <4>2. i \in Nat /\ j \in Nat BY <1>3
      <4> QED BY <1>3, <4>1, <4>2
    <3>3. CASE /\ i \in DOMAIN tasks /\ agenda'[i] = tasks[i]
               /\ j - Len(tasks) + 1 \in DOMAIN agenda /\ j - Len(tasks) + 1 > 1
               /\ agenda'[j] = agenda[j - Len(tasks) + 1]
      BY <1>8, <2>1, <3>3
    <3>4. CASE /\ j \in DOMAIN tasks /\ agenda'[j] = tasks[j]
               /\ i - Len(tasks) + 1 \in DOMAIN agenda /\ i - Len(tasks) + 1 > 1
               /\ agenda'[i] = agenda[i - Len(tasks) + 1]
      BY <1>8, <2>1, <3>4
    <3> QED BY <1>3, <3>1, <3>2, <3>3, <3>4
  <2> QED BY <2>1 DEF CoversApart, Cover
<1>10. ASSUME NEW a \in DOMAIN memory, a[1] \in DOMAIN regions, OwnerOf(a[1]).place = "heaped"
       PROVE  a \notin D /\ a \notin C /\ memory'[a] = memory[a] /\ a \in DOMAIN memory'
  <2>1. a \notin C BY <1>10 DEF AllocStep
  <2>2. ASSUME a \in D PROVE FALSE
    <3>1. PICK p \in Cover(First) : p.at = a BY <1>7, <2>2
    <3>2. Declared = "argument" BY <1>1, <3>1 DEF Tree, CoversFresh
    <3>3. OwnerOf(a[1]) = Latest BY <1>7, <2>2 DEF OwnerOf, Latest
    <3> QED BY <1>10, <3>2, <3>3 DEF Declared
  <2> QED BY <2>1, <2>2 DEF AllocStep
<1>11. CoversFresh'
  <2>1. ASSUME NEW i \in DOMAIN agenda', NEW p \in Cover(agenda'[i]), p.at \in DOMAIN memory',
               Declared # "argument"
        PROVE  FALSE
    <3>1. C = {} /\ DOMAIN memory' = DOMAIN memory \cup D BY <2>1 DEF AllocStep
    <3>2. \A j \in DOMAIN agenda : \A q \in Cover(agenda[j]) : q.at \notin DOMAIN memory
      BY <2>1 DEF Tree, CoversFresh
    <3>3. \A a \in DOMAIN memory : a[1] \in DOMAIN regions BY <1>1 DEF StorageKnown
    <3>4. CASE i \in DOMAIN tasks /\ agenda'[i] = tasks[i]
      <4>1. CASE p.at[1] \notin DOMAIN regions BY <1>7, <2>1, <3>1, <3>3, <4>1
      <4>2. CASE p \in Cover(First) /\ p.at \notin D BY <1>1, <2>1, <3>1, <3>2, <4>2
      <4> QED BY <2>1, <3>4, <4>1, <4>2 DEF AllocStep
    <3>5. CASE /\ i - Len(tasks) + 1 \in DOMAIN agenda /\ i - Len(tasks) + 1 > 1
               /\ agenda'[i] = agenda[i - Len(tasks) + 1]
      <4>1. PICK k \in DOMAIN agenda : k > 1 /\ p \in Cover(agenda[k]) BY <2>1, <3>5
      <4>2. p.at \in D BY <2>1, <3>1, <3>2, <4>1
      <4>3. PICK q \in Cover(First) : q.at = p.at BY <1>7, <4>2
      <4>4. k = 1 BY <1>1, <4>1, <4>3 DEF Tree, CoversApart
      <4> QED BY <4>1, <4>4
    <3> QED BY <1>3, <3>4, <3>5
  <2>2. Declared' = Declared BY <1>1 DEF Declared, Latest
  <2> QED BY <2>1, <2>2 DEF CoversFresh, Cover
<1>12. ASSUME NEW r \in DOMAIN regions', OwnerOf(r)'.place = "heaped", regions'[r].role \in {"array", "field"}
       PROVE  \E p : Parent(p, r)'
  <2>1. CASE r \in DOMAIN regions
    <3>1. OwnerOf(r).place = "heaped" /\ regions[r].role \in {"array", "field"} BY <1>2, <1>12, <2>1
    <3>2. PICK p \in AllPlaces : Parent(p, r) BY <2>1, <3>1 DEF Tree, HasParents
    <3>3. PICK s : s = p.at[1] OBVIOUS
    <3>4. /\ s \in DOMAIN regions /\ regions[s].owner = regions[r].owner /\ s < r
          /\ p \in PlacesIn(s) /\ p.at \in DOMAIN memory /\ memory[p.at] = r
      BY <3>2, <3>3 DEF Parent
    <3>5. OwnerOf(s).place = "heaped" BY <3>1, <3>4 DEF OwnerOf
    <3>6. memory'[p.at] = r /\ p.at \in DOMAIN memory' BY <1>10, <3>3, <3>4, <3>5
    <3>7. p \in PlacesIn(s)' /\ s \in DOMAIN regions' /\ regions'[s].owner = regions'[r].owner
      BY <1>2, <2>1, <3>4
    <3>8. Parent(p, r)' BY <3>3, <3>4, <3>6, <3>7 DEF Parent
    <3> QED BY <3>8
  <2>2. CASE r \notin DOMAIN regions
    <3>1. PICK d \in D : memory'[d] = r BY <1>12, <2>2 DEF AllocStep
    <3>2. PICK p \in Cover(First) : p.at = d /\ p \in PlacesIn(d[1]) BY <1>7
    <3>3. PICK s : s = p.at[1] OBVIOUS
    <3>4. /\ s \in DOMAIN regions /\ p \in PlacesIn(s) /\ regions[s].owner = Len(variables)
          /\ p.at \in DOMAIN memory' /\ memory'[p.at] = r
      BY <1>7, <3>1, <3>2, <3>3
    <3>5. s < r BY <1>1, <1>2, <2>2, <3>4
    <3>6. p \in PlacesIn(s)' /\ s \in DOMAIN regions' /\ regions'[s].owner = regions'[r].owner
      BY <1>2, <2>2, <3>4
    <3>7. Parent(p, r)' BY <3>3, <3>4, <3>5, <3>6 DEF Parent
    <3> QED BY <3>7
  <2> QED BY <2>1, <2>2
<1>13. HasParents'
  <2>1. \A p, r : Parent(p, r)' => p \in AllPlaces' BY DEF Parent, AllPlaces
  <2> QED BY <1>12, <2>1 DEF HasParents
<1>14. ASSUME NEW a \in DOMAIN memory', OwnerOf(a[1])'.place = "heaped"
       PROVE  \E p \in PlacesIn(a[1])' : p.at = a
  <2>1. CASE a \in DOMAIN memory
    <3>1. a[1] \in DOMAIN regions BY <1>1, <2>1 DEF StorageKnown
    <3>2. OwnerOf(a[1]).place = "heaped" BY <1>2, <1>14, <3>1
    <3> QED BY <1>2, <2>1, <3>1, <3>2 DEF Tree, StoredInPlaces
  <2>2. CASE a \in D BY <1>2, <1>7, <2>2
  <2>3. CASE a \in C
    <3>1. Declared = "argument" /\ a[1] \in DOMAIN regions' \ DOMAIN regions BY <2>3 DEF AllocStep
    <3>2. OwnerOf(a[1])' = Latest BY <1>2, <3>1
    <3> QED BY <1>14, <3>1, <3>2 DEF Declared
  <2> QED BY <2>1, <2>2, <2>3 DEF AllocStep
<1>15. StoredInPlaces' BY <1>14 DEF StoredInPlaces
<1>16. BasesKnown'
  <2>1. \A v \in DOMAIN variables : variables[v].base \in DOMAIN regions BY <1>1 DEF Typed, StorageOK
  <2>2. \A v \in DOMAIN variables' :
          regions'[variables'[v].base].len = Len(Def[variables'[v].type].parts)
    BY <1>1, <1>2, <2>1 DEF Tree, BasesKnown
  <2>3. ASSUME NEW r \in DOMAIN regions', regions'[r].role = "base"
        PROVE  r = variables'[regions'[r].owner].base
    <3>1. r \in DOMAIN regions BY <2>3 DEF AllocStep
    <3> QED BY <1>1, <1>2, <2>3, <3>1 DEF Tree, BasesKnown
  <2> QED BY <2>2, <2>3 DEF BasesKnown
<1> QED BY <1>6, <1>9, <1>11, <1>13, <1>15, <1>16 DEF Tree

LEMMA DeclareKeepsTree ==
  ASSUME Inv, Tree, Idle, NEW v, NEW region, NEW tasks, NEW C, Declares(v, region, tasks, C)
  PROVE  Tree'
<1>1. PICK base : base = Len(regions) + 1 OBVIOUS
<1>2. PICK last : last = Len(variables) + 1 OBVIOUS
<1>3. /\ Typed /\ StorageKnown /\ regions \in Seq(Region) /\ Len(regions) \in Nat
      /\ DOMAIN regions = 1 .. Len(regions) /\ variables \in Seq(Variable) /\ Len(variables) \in Nat
      /\ DOMAIN variables = 1 .. Len(variables)
      /\ \A r \in DOMAIN regions : regions[r].owner \in DOMAIN variables
      /\ \A u \in DOMAIN variables : variables[u].base \in DOMAIN regions
  <2>1. Typed /\ StorageKnown BY DEF Inv
  <2> QED BY <2>1 DEF Typed, StorageOK
<1>4. /\ v \in Variable /\ v.type \in Types /\ v.base = base
      /\ BaseRegion(region, v.type) \in Region /\ BaseRegion(region, v.type).role = "base"
      /\ BaseRegion(region, v.type).owner = last
      /\ BaseRegion(region, v.type).len = Len(Def[v.type].parts)
  <2>1. v \in Variable /\ v.type \in Types /\ region \in {"heap", "stack", "global"} /\ v.base = base
    BY <1>1 DEF Declares, Variable
  <2>2. Len(Def[v.type].parts) \in Nat BY <2>1, DefTyped
  <2> QED BY <1>2, <1>3, <2>1, <2>2 DEF BaseRegion, Region
<1>5. /\ regions' \in Seq(Region) /\ DOMAIN regions' = DOMAIN regions \cup {base}
      /\ regions'[base] = BaseRegion(region, v.type) /\ base \notin DOMAIN regions /\ base \in Nat
      /\ \A r \in DOMAIN regions : regions'[r] = regions[r]
  <2>1. regions' = Append(regions, BaseRegion(region, v.type)) BY DEF Declares
  <2> QED BY <1>1, <1>3, <1>4, <2>1
<1>6. /\ DOMAIN variables' = DOMAIN variables \cup {last} /\ variables'[last] = v
      /\ last \notin DOMAIN variables /\ Len(variables') = last
      /\ \A u \in DOMAIN variables : variables'[u] = variables[u]
  <2>1. variables' = Append(variables, v) BY DEF Declares
  <2> QED BY <1>2, <1>3, <1>4, <2>1
<1>7. /\ \A r \in DOMAIN regions : OwnerOf(r)' = OwnerOf(r)
      /\ OwnerOf(base)' = v
  <2>1. ASSUME NEW r \in DOMAIN regions PROVE OwnerOf(r)' = OwnerOf(r) BY <1>3, <1>5, <1>6 DEF OwnerOf
  <2>2. OwnerOf(base)' = v BY <1>4, <1>5, <1>6 DEF OwnerOf
  <2> QED BY <2>1, <2>2
<1>8. \A r \in DOMAIN regions : PlacesIn(r)' = PlacesIn(r)
  <2>1. ASSUME NEW r \in DOMAIN regions PROVE PlacesIn(r)' = PlacesIn(r)
    <3>1. PlacesIn(r)' = PlacesAt(r, regions'[r].role, regions'[r].type, regions'[r].len)
      BY PlacesInPrimed, Zenon
    <3>2. PlacesIn(r) = PlacesAt(r, regions[r].role, regions[r].type, regions[r].len) BY PlacesInAt, Zenon
    <3> QED BY <1>5, <3>1, <3>2
  <2> QED BY <2>1
<1>9. /\ tasks \in Seq(GoodTask) /\ agenda' = tasks /\ Len(tasks) <= 1
      /\ DOMAIN memory' = DOMAIN memory \cup C /\ \A a \in DOMAIN memory : memory'[a] = memory[a]
      /\ C # {} => v.place = "argument"
      /\ \A c \in C : c \in Seq(Nat) /\ c # <<>> /\ c[1] = base
      /\ \A a \in DOMAIN memory : a[1] \in DOMAIN regions
  BY <1>1, <1>3 DEF Declares, StorageKnown
<1>10. OneKind' /\ CoversApart'
  <2>1. \A i \in DOMAIN tasks : tasks[i].do \in Allocates BY DEF Declares, DoneFor
  <2>2. \A i, j \in DOMAIN tasks : i = j BY <1>9
  <2> QED BY <1>9, <2>1, <2>2 DEF OneKind, CoversApart
<1>11. CoversFresh'
  <2>1. ASSUME NEW i \in DOMAIN tasks, NEW p \in Cover(tasks[i]), v.place # "argument"
        PROVE  p.at \notin DOMAIN memory'
    <3>1. tasks[i].at = <<base>> /\ tasks[i].type = v.type BY <1>1 DEF Declares
    <3>2. PICK at : at = <<base>> OBVIOUS
    <3>3. at \in Seq(Nat) /\ at # <<>> /\ at[1] = base BY <1>5, <3>2
    <3>4. p \in Spots(at, v.type) BY <3>1, <3>2 DEF Cover
    <3>5. p.at[1] = base BY <1>4, <3>3, <3>4, SpotsTyped
    <3> QED BY <1>5, <1>9, <2>1, <3>5
  <2>2. Declared' = v.place BY <1>6 DEF Declared, Latest
  <2> QED BY <1>9, <2>1, <2>2 DEF CoversFresh, Cover
<1>12. ASSUME NEW r \in DOMAIN regions', OwnerOf(r)'.place = "heaped", regions'[r].role \in {"array", "field"}
       PROVE  \E p : Parent(p, r)'
  <2>1. r \in DOMAIN regions BY <1>4, <1>5, <1>12
  <2>2. OwnerOf(r).place = "heaped" /\ regions[r].role \in {"array", "field"} BY <1>5, <1>7, <1>12, <2>1
  <2>3. PICK p \in AllPlaces : Parent(p, r) BY <2>1, <2>2 DEF Tree, HasParents
  <2>4. PICK s : s = p.at[1] OBVIOUS
  <2>5. /\ s \in DOMAIN regions /\ regions[s].owner = regions[r].owner /\ s < r
        /\ p \in PlacesIn(s) /\ p.at \in DOMAIN memory /\ memory[p.at] = r
    BY <2>3, <2>4 DEF Parent
  <2>6. memory'[p.at] = r /\ p.at \in DOMAIN memory' BY <1>9, <2>5
  <2>7. p \in PlacesIn(s)' /\ s \in DOMAIN regions' /\ regions'[s].owner = regions'[r].owner
    BY <1>5, <1>8, <2>1, <2>5
  <2>8. Parent(p, r)' BY <2>4, <2>5, <2>6, <2>7 DEF Parent
  <2> QED BY <2>8
<1>13. HasParents'
  <2>1. \A p, r : Parent(p, r)' => p \in AllPlaces' BY DEF Parent, AllPlaces
  <2> QED BY <1>12, <2>1 DEF HasParents
<1>14. ASSUME NEW a \in DOMAIN memory', OwnerOf(a[1])'.place = "heaped"
       PROVE  \E p \in PlacesIn(a[1])' : p.at = a
  <2>1. a \notin C BY <1>7, <1>9, <1>14
  <2>2. a \in DOMAIN memory /\ a[1] \in DOMAIN regions BY <1>9, <2>1
  <2>3. OwnerOf(a[1]).place = "heaped" BY <1>7, <1>14, <2>2
  <2> QED BY <1>8, <2>2, <2>3 DEF Tree, StoredInPlaces
<1>15. StoredInPlaces' BY <1>14 DEF StoredInPlaces
<1>16. BasesKnown'
  <2>1. ASSUME NEW u \in DOMAIN variables'
        PROVE  regions'[variables'[u].base].len = Len(Def[variables'[u].type].parts)
    <3>1. CASE u \in DOMAIN variables BY <1>3, <1>5, <1>6, <3>1 DEF Tree, BasesKnown
    <3>2. CASE u = last BY <1>4, <1>5, <1>6, <3>2
    <3> QED BY <1>6, <3>1, <3>2
  <2>2. ASSUME NEW r \in DOMAIN regions', regions'[r].role = "base"
        PROVE  r = variables'[regions'[r].owner].base
    <3>1. CASE r \in DOMAIN regions BY <1>3, <1>5, <1>6, <2>2, <3>1 DEF Tree, BasesKnown
    <3>2. CASE r = base BY <1>4, <1>5, <1>6, <3>2
    <3> QED BY <1>5, <3>1, <3>2
  <2> QED BY <2>1, <2>2 DEF BasesKnown
<1> QED BY <1>10, <1>11, <1>13, <1>15, <1>16 DEF Tree

LEMMA StepKinds ==
  ASSUME Inv, [Separate]_storage
  PROVE  AllocStepped \/ DeclareStepped \/ Unheap \/ ReleaseStepped \/ FreeStepped \/ Quiet
<1>1. CASE Statement
  <2>1. AssignCount => Quiet BY DEF AssignCount, Quiet
  <2> QED BY <1>1, <2>1, DeclareSteps, PassStep DEF Statement
<1>2. CASE Allocation
  <2>1. UNCHANGED <<variables, count, status>> BY <1>2 DEF Allocation
  <2> QED BY <1>2, <2>1, VectorSteps, TableSteps, CollectionSteps, MemberStep, SkipStep DEF Allocation
<1>3. CASE CopyVector BY <1>3, CopyVectorStep DEF Quiet
<1>4. CASE CopyCrash \/ DeallocCrash \/ ReadWild \/ AssignWild
  BY <1>4 DEF CopyCrash, DeallocCrash, ReadWild, AssignWild, Quiet
<1>5. CASE Deallocation BY <1>5, DeallocSteps
<1>6. CASE FreeRegion
  <2> DEFINE r == First.at[1]
  <2>1. CASE Live(r) /\ regions[r].place = "heap" BY <1>6, <2>1 DEF FreeRegion, FreeStepped, GoOn
  <2>2. CASE ~(Live(r) /\ regions[r].place = "heap") BY <1>6, <2>2 DEF FreeRegion, Quiet
  <2> QED BY <2>1, <2>2
<1>7. CASE UNCHANGED storage BY <1>7 DEF storage, Quiet
<1> QED BY <1>1, <1>2, <1>3, <1>4, <1>5, <1>6, <1>7 DEF Separate

LEMMA NextKeepsTree ==
  ASSUME Inv, Tree, [Separate]_storage
  PROVE  Tree'
<1>1. Typed BY DEF Inv
<1>2. CASE AllocStepped BY <1>2, AllocKeepsTree DEF AllocStepped
<1>3. CASE DeclareStepped BY <1>3, DeclareKeepsTree DEF DeclareStepped
<1>4. CASE Unheap
  <2>1. PICK u \in DOMAIN variables :
           /\ variables' = [variables EXCEPT ![u].live = FALSE]
           /\ agenda' = <<ToDo("dealloc", variables[u].type, <<variables[u].base>>)>>
    BY <1>4 DEF Unheap
  <2>2. SameStorage
    <3>1. \A w \in DOMAIN variables : variables[w] \in Variable BY <1>1 DEF Typed, StorageOK
    <3>2. regions' = regions /\ memory' = memory BY <1>4 DEF Unheap
    <3> QED BY <2>1, <3>1, <3>2 DEF SameStorage, Variable
  <2>3. PICK x : x = ToDo("dealloc", variables[u].type, <<variables[u].base>>) OBVIOUS
  <2>4. agenda' = <<x>> /\ x.do \in Releases BY <2>1, <2>3 DEF ToDo, Releases
  <2>5. \A i \in DOMAIN agenda' : agenda'[i].do \in Releases BY <2>4
  <2> QED BY <2>2, <2>5, SameStorageKeepsTree
<1>5. CASE Quiet
  <2>1. SameStorage /\ agenda' = agenda /\ Declared' = Declared
    BY <1>5 DEF Quiet, SameStorage, Declared, Latest
  <2> QED BY <2>1, SameStorageKeepsTree
<1>6. ASSUME agenda # <<>>, First.do \in Releases, NEW tasks, Unheaping(tasks), agenda' = tasks \o Rest
      PROVE  \A i \in DOMAIN agenda' : agenda'[i].do \in Releases
  <2>1. 1 \in DOMAIN agenda /\ First = agenda[1] BY <1>1, <1>6 DEF Typed, First
  <2>2. \A i \in DOMAIN agenda : agenda[i].do \in Releases BY <1>6, <2>1, NoneCovered DEF Tree, OneKind
  <2>3. \A i \in DOMAIN tasks : tasks[i].do \in Releases BY <1>6 DEF Unheaping, ForUnheaped
  <2> QED BY <1>1, <1>6, <2>2, <2>3, AgendaAfter, Zenon DEF Unheaping
<1>7. CASE ReleaseStepped
  <2>1. SameStorage BY <1>7 DEF ReleaseStepped, SameStorage
  <2> QED BY <1>6, <1>7, <2>1, SameStorageKeepsTree DEF ReleaseStepped
<1>8. CASE FreeStepped
  <2>1. SameStorage
    <3>1. \A r \in DOMAIN regions : regions[r] \in Region BY <1>1 DEF Typed, StorageOK
    <3> QED BY <1>8, <3>1 DEF FreeStepped, SameStorage, Region
  <2>2. agenda # <<>> /\ First.do \in Releases /\ agenda' = <<>> \o Rest /\ Unheaping(<<>>)
    BY <1>8 DEF FreeStepped, Releases, Unheaping
  <2> QED BY <1>6, <2>1, <2>2, SameStorageKeepsTree
<1> QED BY <1>2, <1>3, <1>4, <1>5, <1>7, <1>8, StepKinds

LEMMA TreeHolds == Spec => [](Apart => Inv /\ Tree)
<1>1. Init => Tree
  <2> SUFFICES ASSUME Init PROVE Tree
    OBVIOUS
  <2>1. DOMAIN agenda = {} /\ DOMAIN regions = {} /\ DOMAIN variables = {} /\ DOMAIN memory = {} BY DEF Init
  <2> QED BY <2>1 DEF Tree, OneKind, CoversApart, CoversFresh, HasParents, StoredInPlaces, BasesKnown
<1>2. (Apart => Inv /\ Tree) /\ [Next]_vars => (Apart' => Tree') BY ApartStep, NextKeepsTree
<1> QED BY <1>1, <1>2, InvHolds, PTL DEF Spec

-----------------------------------------------------------------------------
(* Giving back in order: the sequences of calls. *)

LEMMA Joined ==
  ASSUME NEW s \in Seq(GoodTask), NEW t \in Seq(GoodTask)
  PROVE  /\ s \o t \in Seq(GoodTask) /\ Len(s) \in Nat /\ Len(t) \in Nat
         /\ DOMAIN (s \o t) = 1 .. Len(s \o t) /\ Len(s \o t) = Len(s) + Len(t)
         /\ \A i \in DOMAIN (s \o t) :
              \/ i <= Len(s) /\ i \in DOMAIN s /\ (s \o t)[i] = s[i]
              \/ i > Len(s) /\ i - Len(s) \in DOMAIN t /\ (s \o t)[i] = t[i - Len(s)]
         /\ \A i \in DOMAIN s : i \in DOMAIN (s \o t) /\ (s \o t)[i] = s[i]
         /\ \A i \in DOMAIN t : Len(s) + i \in DOMAIN (s \o t) /\ (s \o t)[Len(s) + i] = t[i]
<1>1. /\ s \o t \in Seq(GoodTask) /\ Len(s) \in Nat /\ Len(t) \in Nat
      /\ DOMAIN (s \o t) = 1 .. Len(s \o t) /\ Len(s \o t) = Len(s) + Len(t)
  OBVIOUS
<1>2. \A i \in DOMAIN s : i \in DOMAIN (s \o t) /\ (s \o t)[i] = s[i] OBVIOUS
<1>3. \A i \in DOMAIN t : Len(s) + i \in DOMAIN (s \o t) /\ (s \o t)[Len(s) + i] = t[i] OBVIOUS
<1>4. ASSUME NEW i \in DOMAIN (s \o t)
      PROVE  \/ i <= Len(s) /\ i \in DOMAIN s /\ (s \o t)[i] = s[i]
             \/ i > Len(s) /\ i - Len(s) \in DOMAIN t /\ (s \o t)[i] = t[i - Len(s)]
  OBVIOUS
<1> QED BY <1>1, <1>2, <1>3, <1>4

(* The call that gives a region back. *)
LEMMA FreeIs ==
  ASSUME NEW r
  PROVE  Free(r).do = "free" /\ Free(r).at[1] = r /\ Len(Free(r).at) = 1 /\ Takes(Free(r)) = {}
BY DEF Free, ToDo, Takes

LEMMA FreesAre ==
  ASSUME Inv, agenda # <<>>, First.do \in Releases, NEW a \in Nat, NEW back, IsFrees(back, a)
  PROVE  /\ back \in Seq(GoodTask)
         /\ \A i \in DOMAIN back :
              /\ back[i].do = "free" /\ Len(back[i].at) = 1 /\ Takes(back[i]) = {}
              /\ \/ back[i].at[1] = First.at[1] /\ ~Nested
                 \/ back # FreeBase /\ back[i].at[1] = a
         /\ back # FreeBase => \E i \in DOMAIN back : back[i].at[1] = a
         /\ ~Nested => back # <<>> /\ back[Len(back)].at[1] = First.at[1]
         /\ \A i, j \in DOMAIN back : i < j /\ a # First.at[1] => back[i].at[1] # back[j].at[1]
<1>1. First.type \in Types /\ First.at[1] \in Nat BY ReleaseKnown
<1>2. ASSUME NEW r \in Nat PROVE Free(r) \in GoodTask
  <2>1. PICK at : at = <<r>> OBVIOUS
  <2>2. at \in Seq(Nat) /\ at # <<>> /\ Free(r) = ToDo("free", First.type, at) BY <2>1 DEF Free
  <2> QED BY <1>1, <2>2, ToDoGood DEF Calls
<1>3. PICK f \in GoodTask : f = Free(a) BY <1>2
<1>4. PICK g \in GoodTask : g = Free(First.at[1]) BY <1>1, <1>2
<1>5. /\ f.do = "free" /\ Len(f.at) = 1 /\ Takes(f) = {} /\ f.at[1] = a
      /\ g.do = "free" /\ Len(g.at) = 1 /\ Takes(g) = {} /\ g.at[1] = First.at[1]
  BY <1>3, <1>4, FreeIs
<1>6. FreeBase = IF Nested THEN <<>> ELSE <<g>> BY <1>4 DEF FreeBase
<1>7. CASE back = FreeBase /\ Nested BY <1>6, <1>7
<1>8. CASE back = FreeBase /\ ~Nested
  <2>1. back = <<g>> BY <1>6, <1>8
  <2> QED BY <1>5, <1>8, <2>1
<1>9. CASE back # FreeBase /\ Nested
  <2>1. back = <<f>>
    <3>1. back = <<f>> \o <<>> BY <1>3, <1>6, <1>9 DEF IsFrees
    <3> QED BY <3>1
  <2> QED BY <1>5, <1>9, <2>1
<1>10. CASE back # FreeBase /\ ~Nested
  <2>1. back = <<f>> \o <<g>> BY <1>3, <1>6, <1>10 DEF IsFrees
  <2>2. back = <<f, g>> BY <2>1, PairJoined
  <2>3. DOMAIN back = {1, 2} /\ back[1] = f /\ back[2] = g /\ Len(back) = 2 /\ back \in Seq(GoodTask) BY <2>2
  <2> QED BY <1>5, <1>10, <2>1, <2>3
<1> QED BY <1>7, <1>8, <1>9, <1>10

LEMMA StaysReturning ==
  ASSUME Typed, agenda # <<>>, NEW v \in DOMAIN variables, Returning(v), variables' = variables,
         NEW tasks \in Seq(GoodTask), agenda' = tasks \o Rest,
         \A i \in DOMAIN tasks : /\ Returns(tasks[i], variables[v])
                                 /\ tasks[i].do = "dealloc" => Len(tasks[i].at) # 1,
         \/ Nested
         \/ Rest # <<>>
         \/ /\ tasks # <<>> /\ tasks[Len(tasks)].at[1] = First.at[1]
            /\ Len(tasks[Len(tasks)].at) = 1
  PROVE  Returning(v)'
<1>1. /\ DOMAIN agenda' = 1 .. Len(agenda') /\ Len(tasks) \in Nat
      /\ \A i \in DOMAIN agenda' :
           \/ i \in DOMAIN tasks /\ agenda'[i] = tasks[i]
           \/ /\ i - Len(tasks) + 1 \in DOMAIN agenda /\ i - Len(tasks) + 1 > 1
              /\ agenda'[i] = agenda[i - Len(tasks) + 1]
      /\ \A j \in DOMAIN agenda : j > 1 =>
           Len(tasks) + j - 1 \in DOMAIN agenda' /\ agenda'[Len(tasks) + j - 1] = agenda[j]
  BY AgendaAfter
<1>2. /\ Rest \in Seq(GoodTask) /\ Len(agenda) = Len(Rest) + 1 /\ Len(agenda) \in Nat
      /\ agenda \in Seq(GoodTask)
  BY FirstKnown DEF Typed
<1>3. Len(agenda') = Len(tasks) + Len(Rest) BY <1>2
<1>4. ASSUME NEW i \in DOMAIN agenda'
      PROVE  /\ Returns(agenda'[i], variables[v])
             /\ agenda'[i].do = "dealloc" => Len(agenda'[i].at) # 1
  <2>1. CASE i \in DOMAIN tasks /\ agenda'[i] = tasks[i] BY <2>1
  <2>2. CASE /\ i - Len(tasks) + 1 \in DOMAIN agenda /\ i - Len(tasks) + 1 > 1
             /\ agenda'[i] = agenda[i - Len(tasks) + 1]
    <3>1. PICK k \in DOMAIN agenda : k > 1 /\ agenda'[i] = agenda[k] BY <2>2
    <3>2. Len(agenda) # 1 BY <1>2, <3>1
    <3> QED BY <3>1, <3>2 DEF Returning
  <2> QED BY <1>1, <2>1, <2>2
<1>5. /\ agenda' # <<>> /\ agenda'[Len(agenda')].at[1] = variables[v].base
      /\ Len(agenda'[Len(agenda')].at) = 1
  <2>1. CASE Rest # <<>>
    <3>1. PICK k : k = Len(agenda) OBVIOUS
    <3>2. k \in DOMAIN agenda /\ k > 1 /\ Len(tasks) + k - 1 = Len(agenda') BY <1>2, <1>3, <2>1, <3>1
    <3>3. Len(agenda') \in DOMAIN agenda' /\ agenda'[Len(agenda')] = agenda[k] BY <1>1, <3>2
    <3> QED BY <3>1, <3>3 DEF Returning
  <2>2. CASE Rest = <<>>
    <3>1. Len(agenda) = 1 /\ agenda[Len(agenda)] = First /\ Len(agenda') = Len(tasks) /\ agenda' = tasks
      BY <1>2, <1>3, <2>2 DEF First
    <3>2. Len(First.at) = 1 /\ First.at[1] = variables[v].base BY <3>1 DEF Returning
    <3>3. ~Nested BY <3>2 DEF Nested
    <3> QED BY <2>2, <3>1, <3>2, <3>3
  <2> QED BY <2>1, <2>2
<1> QED BY <1>4, <1>5 DEF Returning, Returns, GivenBack

(* Facts about what a call takes. *)
LEMMA TakesKnown ==
  ASSUME NEW x \in GoodTask, NEW q \in Takes(x)
  PROVE  q.at \in Seq(Nat) /\ q.at # <<>> /\ q.at[1] = x.at[1] /\ q.type \in OutsideTables[x.type]
<1>1. x.at \in Seq(Nat) /\ x.at # <<>> /\ x.type \in Types BY DEF GoodTask, Task
<1>2. CASE x.do = "dealloc"
  <2>1. q \in Spots(x.at, x.type) BY <1>2 DEF Takes
  <2> QED BY <1>1, <2>1, SpotsTyped, SpotPrefix
<1>3. CASE x.do = "field"
  <2>1. q.at = x.at /\ q.type = x.type BY <1>3 DEF Takes
  <2> QED BY <1>1, <2>1, OutsideIs
<1>4. x.do \in {"dealloc", "field"} BY DEF Takes
<1> QED BY <1>2, <1>3, <1>4

(* Within a heaped variable that is unheaped no two pointers lead to the same region. *)
LEMMA StoredApart ==
  ASSUME Inv, status = "ok", \A i \in DOMAIN agenda : agenda[i].do \in Releases,
         NEW r \in DOMAIN regions, NEW s \in DOMAIN regions,
         OwnerOf(r).place = "heaped", OwnerOf(s).place = "heaped",
         NEW p \in PlacesIn(r), NEW q \in PlacesIn(s),
         p.at \in DOMAIN memory, q.at \in DOMAIN memory, memory[p.at] = memory[q.at]
  PROVE  p.at = q.at
<1>1. Typed /\ PointersLead /\ PlacesSettled BY DEF Inv
<1>2. ASSUME NEW t \in DOMAIN regions, OwnerOf(t).place = "heaped", NEW o \in PlacesIn(t),
             o.at \in DOMAIN memory
      PROVE  SeenIn(o, t)
  <2>1. Leads(o) BY <1>1, <1>2 DEF PointersLead
  <2>2. ~Pending(o) BY NoneCovered DEF Pending
  <2> QED BY <1>2, <2>1, <2>2 DEF Leads, SeenIn, SeenTo
<1>3. SeenIn(p, r) /\ SeenIn(q, s) BY <1>2
<1> QED BY <1>1, <1>3 DEF PlacesSettled

(* What a heaped variable points to is its own. *)
LEMMA PointsWithin ==
  ASSUME Inv, NEW a \in DOMAIN memory, OwnerOf(a[1]).place = "heaped"
  PROVE  /\ memory[a] \in DOMAIN regions /\ regions[memory[a]].owner = regions[a[1]].owner
         /\ regions[memory[a]].role \in {"array", "field"} /\ a[1] \in DOMAIN regions
         /\ OwnerOf(memory[a]) = OwnerOf(a[1]) /\ memory[a] \in Nat
<1>1. Typed /\ StorageKnown BY DEF Inv
<1>2. Own(a) /\ a[1] \in DOMAIN regions /\ regions[memory[a]].role \in {"array", "field"}
  BY <1>1 DEF StorageKnown
<1>3. memory[a] \in DOMAIN regions /\ regions \in Seq(Region) BY <1>1 DEF Typed, StorageOK
<1> QED BY <1>2, <1>3 DEF Own, OwnerOf

(* The agenda after the calls for what is in a region, and for the region itself. *)
LEMMA AgendaParts ==
  ASSUME Typed, agenda # <<>>, NEW loop \in Seq(GoodTask), NEW back \in Seq(GoodTask),
         agenda' = (loop \o back) \o Rest
  PROVE  /\ Len(loop) \in Nat /\ Len(back) \in Nat /\ DOMAIN agenda' \subseteq Nat
         /\ DOMAIN loop = 1 .. Len(loop) /\ DOMAIN back = 1 .. Len(back)
         /\ \A i \in DOMAIN agenda' :
              \/ i \in DOMAIN loop /\ agenda'[i] = loop[i]
              \/ \E j \in DOMAIN back : i = Len(loop) + j /\ agenda'[i] = back[j]
              \/ \E k \in DOMAIN agenda :
                   k > 1 /\ i = Len(loop) + Len(back) + k - 1 /\ agenda'[i] = agenda[k]
         /\ \A i \in DOMAIN loop : i \in DOMAIN agenda' /\ agenda'[i] = loop[i]
         /\ \A j \in DOMAIN back : Len(loop) + j \in DOMAIN agenda' /\ agenda'[Len(loop) + j] = back[j]
         /\ \A k \in DOMAIN agenda : k > 1 =>
              /\ Len(loop) + Len(back) + k - 1 \in DOMAIN agenda'
              /\ agenda'[Len(loop) + Len(back) + k - 1] = agenda[k]
<1>1. PICK tasks : tasks = loop \o back OBVIOUS
<1>2. /\ tasks \in Seq(GoodTask) /\ Len(loop) \in Nat /\ Len(back) \in Nat
      /\ DOMAIN tasks = 1 .. Len(tasks) /\ Len(tasks) = Len(loop) + Len(back)
      /\ \A i \in DOMAIN tasks :
              \/ i <= Len(loop) /\ i \in DOMAIN loop /\ tasks[i] = loop[i]
              \/ i > Len(loop) /\ i - Len(loop) \in DOMAIN back /\ tasks[i] = back[i - Len(loop)]
      /\ \A i \in DOMAIN loop : i \in DOMAIN tasks /\ tasks[i] = loop[i]
      /\ \A i \in DOMAIN back : Len(loop) + i \in DOMAIN tasks /\ tasks[Len(loop) + i] = back[i]
  BY <1>1, Joined
<1>3. /\ agenda' \in Seq(GoodTask) /\ DOMAIN agenda' = 1 .. Len(agenda')
      /\ \A i \in DOMAIN agenda' :
              \/ i \in DOMAIN tasks /\ agenda'[i] = tasks[i]
              \/ /\ i > Len(tasks) /\ i - Len(tasks) + 1 \in DOMAIN agenda /\ i - Len(tasks) + 1 > 1
                 /\ agenda'[i] = agenda[i - Len(tasks) + 1]
      /\ \A i \in DOMAIN tasks : i \in DOMAIN agenda' /\ agenda'[i] = tasks[i]
      /\ \A j \in DOMAIN agenda : j > 1 =>
              Len(tasks) + j - 1 \in DOMAIN agenda' /\ agenda'[Len(tasks) + j - 1] = agenda[j]
  BY <1>1, <1>2, AgendaAfter
<1>4. DOMAIN agenda' \subseteq Nat /\ DOMAIN agenda \subseteq Nat BY <1>3 DEF Typed
<1>5. ASSUME NEW i \in DOMAIN agenda'
      PROVE  \/ i \in DOMAIN loop /\ agenda'[i] = loop[i]
             \/ \E j \in DOMAIN back : i = Len(loop) + j /\ agenda'[i] = back[j]
             \/ \E k \in DOMAIN agenda :
                   k > 1 /\ i = Len(loop) + Len(back) + k - 1 /\ agenda'[i] = agenda[k]
  <2>1. CASE i \in DOMAIN tasks /\ agenda'[i] = tasks[i]
    <3>1. CASE i > Len(loop) /\ i - Len(loop) \in DOMAIN back /\ tasks[i] = back[i - Len(loop)]
      <4>1. PICK j \in DOMAIN back : j = i - Len(loop) BY <3>1
      <4>2. i = Len(loop) + j /\ agenda'[i] = back[j] BY <1>2, <1>4, <2>1, <3>1, <4>1
      <4> QED BY <4>2
    <3> QED BY <1>2, <2>1, <3>1
  <2>2. CASE /\ i > Len(tasks) /\ i - Len(tasks) + 1 \in DOMAIN agenda /\ i - Len(tasks) + 1 > 1
             /\ agenda'[i] = agenda[i - Len(tasks) + 1]
    <3>1. PICK k \in DOMAIN agenda : k = i - Len(tasks) + 1 BY <2>2
    <3>2. k > 1 /\ i = Len(loop) + Len(back) + k - 1 /\ agenda'[i] = agenda[k] BY <1>2, <1>4, <2>2, <3>1
    <3> QED BY <3>2
  <2> QED BY <1>3, <2>1, <2>2
<1>6. \A i \in DOMAIN loop : i \in DOMAIN agenda' /\ agenda'[i] = loop[i] BY <1>2, <1>3
<1>7. \A j \in DOMAIN back : Len(loop) + j \in DOMAIN agenda' /\ agenda'[Len(loop) + j] = back[j]
  BY <1>2, <1>3
<1>8. ASSUME NEW k \in DOMAIN agenda, k > 1
      PROVE  /\ Len(loop) + Len(back) + k - 1 \in DOMAIN agenda'
             /\ agenda'[Len(loop) + Len(back) + k - 1] = agenda[k]
  BY <1>2, <1>3, <1>8
<1>9. DOMAIN loop = 1 .. Len(loop) /\ DOMAIN back = 1 .. Len(back) OBVIOUS
<1> QED BY <1>2, <1>4, <1>5, <1>6, <1>7, <1>8, <1>9

LEMMA MoreThanBase ==
  ASSUME NEW a, NEW back \in Seq(GoodTask), back = <<Free(a)>> \o FreeBase
  PROVE  back # FreeBase
<1>1. ASSUME back = FreeBase PROVE FALSE
  <2>1. FreeBase = <<Free(a)>> \o FreeBase BY <1>1
  <2>2. FreeBase \in Seq(GoodTask) BY <1>1
  <2>3. <<Free(a)>> \in Seq({Free(a)}) OBVIOUS
  <2>4. Len(<<Free(a)>>) = 1 OBVIOUS
  <2>5. Len(<<Free(a)>> \o FreeBase) = 1 + Len(FreeBase) BY <2>2, <2>3, <2>4
  <2>6. Len(FreeBase) \in Nat BY <2>2
  <2> QED BY <2>1, <2>5, <2>6
<1> QED BY <1>1

(* What the call does to storage: it comes to the array, which it had not come to before. *)
LEMMA GivesMeans ==
  ASSUME Inv, NEW v \in DOMAIN variables, Returning(v), Orderly(v),
         NEW loop, NEW back, NEW a, Gives(v, loop, back, a)
  PROVE  /\ IsFrees(back, a)
         /\ First.at[1] \in DOMAIN regions /\ regions[First.at[1]].owner = v
         /\ a # 0 =>
              /\ a \in DOMAIN regions /\ regions[a].owner = v /\ Untouched(a) /\ a # First.at[1]
              /\ \A p : Takes(First) = {p} => p.at \in DOMAIN memory /\ memory[p.at] = a
              /\ \A r \in DOMAIN regions : regions[r].owner = v =>
                   \A q \in PlacesIn(r) : q.at \in DOMAIN memory /\ memory[q.at] = a =>
                     r = First.at[1] /\ q \in Takes(First)
<1>1. /\ Typed /\ First \in GoodTask /\ First.at[1] \in Nat /\ 1 \in DOMAIN agenda /\ First = agenda[1]
      /\ First.do \in Releases
  <2>1. Typed /\ agenda # <<>> /\ First.do \in Releases BY DEF Inv, Gives, Releases
  <2>2. agenda \in Seq(GoodTask) BY <2>1 DEF Typed
  <2> QED BY <2>1, <2>2, ReleaseKnown DEF First
<1>2. First.at[1] \in DOMAIN regions /\ regions[First.at[1]].owner = v BY <1>1 DEF Orderly
<1>3. IF a = 0 THEN back = FreeBase ELSE back = <<Free(a)>> \o FreeBase BY DEF Gives
<1>4. ASSUME a # 0
      PROVE  /\ a \in DOMAIN regions /\ regions[a].owner = v /\ Untouched(a) /\ a # First.at[1]
             /\ \A p : Takes(First) = {p} => p.at \in DOMAIN memory /\ memory[p.at] = a
             /\ \A r \in DOMAIN regions : regions[r].owner = v =>
                   \A q \in PlacesIn(r) : q.at \in DOMAIN memory /\ memory[q.at] = a =>
                     r = First.at[1] /\ q \in Takes(First)
  <2>1. PICK p : Takes(First) = {p} /\ p.at \in DOMAIN memory /\ memory[p.at] = a BY <1>4 DEF Gives
  <2>2. p.at[1] = First.at[1] BY <1>1, <2>1, TakesKnown
  <2>3. p \in PlacesIn(p.at[1]) /\ Untouched(memory[p.at]) BY <1>1, <2>1 DEF Orderly
  <2>4. OwnerOf(p.at[1]).place = "heaped" BY <1>2, <2>2 DEF OwnerOf, Returning
  <2>5. a \in DOMAIN regions /\ regions[a].owner = v BY <1>2, <2>1, <2>2, <2>4, PointsWithin
  <2>6. Touched(First.at[1]) BY <1>1 DEF Touched
  <2>7. ASSUME NEW r \in DOMAIN regions, regions[r].owner = v, NEW q \in PlacesIn(r),
               q.at \in DOMAIN memory, memory[q.at] = a
        PROVE  r = First.at[1] /\ q \in Takes(First)
    <3>1. OwnerOf(r).place = "heaped" BY <2>7 DEF OwnerOf, Returning
    <3>2. \A i \in DOMAIN agenda : agenda[i].do \in Releases BY DEF Returning, Returns, Releases
    <3>3. status = "ok" BY DEF Gives
    <3>4. q.at = p.at BY <1>2, <2>1, <2>2, <2>3, <2>4, <2>7, <3>1, <3>2, <3>3, StoredApart
    <3>5. q.at[1] = r BY <1>1, <2>7, PlacesInTyped
    <3>6. q = p BY <1>1, <2>2, <2>3, <2>7, <3>4, <3>5, SamePlaceIn
    <3> QED BY <2>1, <2>2, <3>5, <3>6
  <2> QED BY <2>1, <2>3, <2>5, <2>6, <2>7 DEF Untouched
<1>5. IsFrees(back, a) BY <1>3, <1>4 DEF IsFrees
<1> QED BY <1>2, <1>4, <1>5

LEMMA GivesTouched ==
  ASSUME Inv, NEW v \in DOMAIN variables, Returning(v), Orderly(v),
         NEW loop, NEW back, NEW a, Gives(v, loop, back, a), NEW r
  PROVE  /\ Touched(r)' <=> Touched(r) \/ (a # 0 /\ r = a)
         /\ Untouched(r)' <=> Untouched(r) /\ ~(a # 0 /\ r = a)
<1>1. /\ Typed /\ agenda # <<>> /\ 1 \in DOMAIN agenda /\ First = agenda[1]
      /\ First.do \in Releases /\ DOMAIN agenda \subseteq Nat
  <2>1. Typed /\ agenda # <<>> /\ First.do \in Releases BY DEF Inv, Gives, Releases
  <2>2. agenda \in Seq(GoodTask) BY <2>1 DEF Typed
  <2> QED BY <2>1, <2>2 DEF First
<1>2. /\ loop \in Seq(GoodTask) /\ a \in Nat /\ agenda' = (loop \o back) \o Rest
      /\ \A i \in DOMAIN loop : loop[i].at[1] = IF a = 0 THEN First.at[1] ELSE a
      /\ back # FreeBase => a # 0
      /\ a # 0 => back = <<Free(a)>> \o FreeBase
  BY DEF Gives
<1>3. IsFrees(back, a) BY GivesMeans
<1>4. /\ back \in Seq(GoodTask)
      /\ \A i \in DOMAIN back :
              \/ back[i].at[1] = First.at[1] /\ ~Nested
              \/ back # FreeBase /\ back[i].at[1] = a
      /\ back # FreeBase => \E i \in DOMAIN back : back[i].at[1] = a
      /\ ~Nested => \E i \in DOMAIN back : back[i].at[1] = First.at[1]
  <2>0. agenda # <<>> /\ First.do \in Releases /\ a \in Nat /\ IsFrees(back, a) BY <1>1, <1>2, <1>3
  <2>1. /\ back \in Seq(GoodTask)
        /\ \A i \in DOMAIN back :
              \/ back[i].at[1] = First.at[1] /\ ~Nested
              \/ back # FreeBase /\ back[i].at[1] = a
        /\ back # FreeBase => \E i \in DOMAIN back : back[i].at[1] = a
        /\ ~Nested => back # <<>> /\ back[Len(back)].at[1] = First.at[1]
    BY <2>0, FreesAre
  <2> QED BY <2>1
<1>5. a # 0 => back # FreeBase BY <1>2, <1>4, MoreThanBase
<1>6. /\ \A i \in DOMAIN agenda' :
              \/ i \in DOMAIN loop /\ agenda'[i] = loop[i]
              \/ \E j \in DOMAIN back : agenda'[i] = back[j]
              \/ \E k \in DOMAIN agenda : k > 1 /\ agenda'[i] = agenda[k]
      /\ \A j \in DOMAIN back : \E i \in DOMAIN agenda' : agenda'[i] = back[j]
      /\ \A k \in DOMAIN agenda : k > 1 => \E i \in DOMAIN agenda' : agenda'[i] = agenda[k]
  <2>1. /\ \A i \in DOMAIN agenda' :
              \/ i \in DOMAIN loop /\ agenda'[i] = loop[i]
              \/ \E j \in DOMAIN back : i = Len(loop) + j /\ agenda'[i] = back[j]
              \/ \E k \in DOMAIN agenda :
                   k > 1 /\ i = Len(loop) + Len(back) + k - 1 /\ agenda'[i] = agenda[k]
        /\ \A j \in DOMAIN back : Len(loop) + j \in DOMAIN agenda' /\ agenda'[Len(loop) + j] = back[j]
        /\ \A k \in DOMAIN agenda : k > 1 =>
              /\ Len(loop) + Len(back) + k - 1 \in DOMAIN agenda'
              /\ agenda'[Len(loop) + Len(back) + k - 1] = agenda[k]
    BY <1>1, <1>2, <1>4, AgendaParts
  <2>2. \A i \in DOMAIN agenda' :
              \/ i \in DOMAIN loop /\ agenda'[i] = loop[i]
              \/ \E j \in DOMAIN back : agenda'[i] = back[j]
              \/ \E k \in DOMAIN agenda : k > 1 /\ agenda'[i] = agenda[k]
    BY <2>1
  <2>3. \A j \in DOMAIN back : \E i \in DOMAIN agenda' : agenda'[i] = back[j] BY <2>1
  <2>4. \A k \in DOMAIN agenda : k > 1 => \E i \in DOMAIN agenda' : agenda'[i] = agenda[k] BY <2>1
  <2> QED BY <2>2, <2>3, <2>4
<1> DEFINE reached(s) == \E i \in DOMAIN agenda' : agenda'[i].at[1] = s
<1>7. reached(First.at[1])
  <2>1. CASE ~Nested BY <1>4, <1>6, <2>1
  <2>2. CASE Nested
    <3>1. PICK j \in DOMAIN agenda : j > 1 /\ agenda[j].at[1] = agenda[1].at[1]
      BY <1>1, <2>2 DEF Nested, Orderly, InOrder
    <3> QED BY <1>1, <1>6, <3>1
  <2> QED BY <2>1, <2>2
<1>8. ASSUME Touched(r) PROVE Touched(r)'
  <2>1. PICK k \in DOMAIN agenda : agenda[k].at[1] = r BY <1>8 DEF Touched
  <2>2. CASE k = 1
    <3>1. r = First.at[1] BY <1>1, <2>1, <2>2
    <3>2. \E i \in DOMAIN agenda' : agenda'[i].at[1] = r BY <1>7, <3>1
    <3> QED BY <3>2 DEF Touched
  <2>3. CASE k # 1
    <3>1. k > 1 BY <1>1, <2>3 DEF Inv, Typed
    <3> QED BY <1>6, <2>1, <3>1 DEF Touched
  <2> QED BY <2>2, <2>3
<1>9. ASSUME a # 0 PROVE Touched(a)' BY <1>4, <1>5, <1>6, <1>9 DEF Touched
<1>10. ASSUME Touched(r)' PROVE Touched(r) \/ (a # 0 /\ r = a)
  <2>1. PICK i \in DOMAIN agenda' : agenda'[i].at[1] = r BY <1>10 DEF Touched
  <2>2. Touched(First.at[1]) BY <1>1 DEF Touched
  <2>3. CASE i \in DOMAIN loop /\ agenda'[i] = loop[i] BY <1>2, <2>1, <2>2, <2>3
  <2>4. CASE \E j \in DOMAIN back : agenda'[i] = back[j] BY <1>2, <1>4, <2>1, <2>2, <2>4
  <2>5. CASE \E k \in DOMAIN agenda : k > 1 /\ agenda'[i] = agenda[k] BY <2>1, <2>5 DEF Touched
  <2> QED BY <1>6, <2>3, <2>4, <2>5
<1>11. regions' = regions BY DEF Gives
<1>12. Touched(r)' <=> Touched(r) \/ (a # 0 /\ r = a) BY <1>8, <1>9, <1>10
<1> QED BY <1>11, <1>12 DEF Untouched

LEMMA LongerThanOne ==
  ASSUME NEW x \in GoodTask
  PROVE  Len(x.at) \in Nat /\ Len(x.at) >= 1 /\ (Len(x.at) # 1 <=> Len(x.at) > 1)
<1>1. x.at \in Seq(Nat) /\ x.at # <<>> BY DEF GoodTask, Task
<1>2. PICK n \in Nat : n = Len(x.at) BY <1>1
<1>3. n # 0 BY <1>1, <1>2
<1>4. n >= 1 /\ (n # 1 <=> n > 1) BY <1>3
<1> QED BY <1>2, <1>4

LEMMA NotNested ==
  ASSUME First \in GoodTask
  PROVE  Len(First.at) \in Nat /\ (Nested <=> Len(First.at) # 1)
BY LongerThanOne DEF Nested

LEMMA GivesInOrder ==
  ASSUME Inv, NEW v \in DOMAIN variables, Returning(v), Orderly(v),
         NEW loop, NEW back, NEW a, Gives(v, loop, back, a), NEW i \in DOMAIN agenda'
  PROVE  InOrder(i)'
<1>1. /\ Typed /\ agenda # <<>> /\ 1 \in DOMAIN agenda /\ First = agenda[1]
      /\ First.do \in Releases /\ DOMAIN agenda \subseteq Nat /\ First.at[1] \in Nat
      /\ First \in GoodTask
  <2>1. Typed /\ agenda # <<>> /\ First.do \in Releases BY DEF Inv, Gives, Releases
  <2>2. agenda \in Seq(GoodTask) BY <2>1 DEF Typed
  <2>3. First \in GoodTask /\ First.at[1] \in Nat BY <2>1, ReleaseKnown
  <2> QED BY <2>1, <2>2, <2>3 DEF First
<1>2. /\ loop \in Seq(GoodTask) /\ a \in Nat /\ agenda' = (loop \o back) \o Rest
      /\ \A k \in DOMAIN loop : loop[k].at[1] = (IF a = 0 THEN First.at[1] ELSE a) /\ Len(loop[k].at) > 1
      /\ IF a = 0 THEN back = FreeBase ELSE back = <<Free(a)>> \o FreeBase
  BY DEF Gives
<1>3. /\ IsFrees(back, a)
      /\ a # 0 => Untouched(a) /\ a # First.at[1]
      /\ a # First.at[1]
  <2>1. /\ IsFrees(back, a) /\ First.at[1] \in DOMAIN regions
        /\ a # 0 => Untouched(a) /\ a # First.at[1]
    BY GivesMeans
  <2>2. regions \in Seq(Region) BY <1>1 DEF Typed, StorageOK
  <2> QED BY <2>1, <2>2
<1>4. /\ back \in Seq(GoodTask)
      /\ \A k \in DOMAIN back :
              /\ back[k].do = "free" /\ Len(back[k].at) = 1
              /\ \/ back[k].at[1] = First.at[1] /\ ~Nested
                 \/ back # FreeBase /\ back[k].at[1] = a
      /\ back # FreeBase => \E k \in DOMAIN back : back[k].at[1] = a
      /\ ~Nested => \E k \in DOMAIN back : back[k].at[1] = First.at[1]
      /\ \A k, j \in DOMAIN back : k < j /\ a # First.at[1] => back[k].at[1] # back[j].at[1]
  <2>0. agenda # <<>> /\ First.do \in Releases /\ a \in Nat /\ IsFrees(back, a) BY <1>1, <1>2, <1>3
  <2>1. /\ back \in Seq(GoodTask)
        /\ \A k \in DOMAIN back :
              /\ back[k].do = "free" /\ Len(back[k].at) = 1 /\ Takes(back[k]) = {}
              /\ \/ back[k].at[1] = First.at[1] /\ ~Nested
                 \/ back # FreeBase /\ back[k].at[1] = a
        /\ back # FreeBase => \E k \in DOMAIN back : back[k].at[1] = a
        /\ ~Nested => back # <<>> /\ back[Len(back)].at[1] = First.at[1]
        /\ \A k, j \in DOMAIN back : k < j /\ a # First.at[1] => back[k].at[1] # back[j].at[1]
    BY <2>0, FreesAre, Zenon
  <2>2. ASSUME back # <<>> PROVE Len(back) \in DOMAIN back
    <3>1. back \in Seq(GoodTask) BY <2>1
    <3> QED BY <2>2, <3>1
  <2>3. ~Nested => \E k \in DOMAIN back : back[k].at[1] = First.at[1] BY <2>1, <2>2
  <2> QED BY <2>1, <2>3
<1>5. back # FreeBase <=> a # 0 BY <1>2, <1>4, MoreThanBase
<1>6. /\ Len(loop) \in Nat /\ Len(back) \in Nat /\ DOMAIN agenda' \subseteq Nat
      /\ DOMAIN loop = 1 .. Len(loop) /\ DOMAIN back = 1 .. Len(back)
      /\ \A k \in DOMAIN agenda' :
              \/ k \in DOMAIN loop /\ agenda'[k] = loop[k]
              \/ \E j \in DOMAIN back : k = Len(loop) + j /\ agenda'[k] = back[j]
              \/ \E j \in DOMAIN agenda :
                   j > 1 /\ k = Len(loop) + Len(back) + j - 1 /\ agenda'[k] = agenda[j]
      /\ \A j \in DOMAIN back : Len(loop) + j \in DOMAIN agenda' /\ agenda'[Len(loop) + j] = back[j]
      /\ \A k \in DOMAIN agenda : k > 1 =>
              /\ Len(loop) + Len(back) + k - 1 \in DOMAIN agenda'
              /\ agenda'[Len(loop) + Len(back) + k - 1] = agenda[k]
  <2>1. loop \in Seq(GoodTask) /\ back \in Seq(GoodTask) /\ agenda' = (loop \o back) \o Rest BY <1>2, <1>4
  <2> QED BY <1>1, <2>1, AgendaParts, Zenon
<1>7. CASE i \in DOMAIN loop /\ agenda'[i] = loop[i]
  <2>1. PICK b : b = agenda'[i].at[1] OBVIOUS
  <2>2. b = (IF a = 0 THEN First.at[1] ELSE a) /\ Len(agenda'[i].at) # 1
    <3>1. loop[i] \in GoodTask /\ Len(loop[i].at) > 1 BY <1>2, <1>7
    <3>2. Len(loop[i].at) # 1 BY <3>1, LongerThanOne
    <3> QED BY <1>2, <1>7, <2>1, <3>2
  <2>3. ASSUME NEW k \in DOMAIN back, back[k].at[1] = b PROVE InOrder(i)'
    <3>1. Len(loop) + k > i BY <1>6, <1>7
    <3>2. agenda'[Len(loop) + k] = back[k] /\ Len(loop) + k \in DOMAIN agenda' BY <1>6
    <3>3. agenda'[Len(loop) + k].do = "free" /\ agenda'[Len(loop) + k].at[1] = b BY <1>4, <2>3, <3>2
    <3> QED BY <2>1, <2>2, <3>1, <3>2, <3>3, Zenon DEF InOrder
  <2>4. CASE a # 0
    <3>1. \E k \in DOMAIN back : back[k].at[1] = b BY <1>4, <1>5, <2>2, <2>4
    <3> QED BY <2>3, <3>1
  <2>5. CASE a = 0 /\ ~Nested
    <3>1. \E k \in DOMAIN back : back[k].at[1] = b BY <1>4, <2>2, <2>5
    <3> QED BY <2>3, <3>1
  <2>6. CASE a = 0 /\ Nested
    <3>1. PICK j \in DOMAIN agenda : j > 1 /\ agenda[j].do = "free" /\ agenda[j].at[1] = b
      BY <1>1, <2>2, <2>6 DEF Nested, Orderly, InOrder
    <3>2. Len(loop) + Len(back) + j - 1 > i BY <1>1, <1>6, <1>7, <3>1
    <3>3. /\ Len(loop) + Len(back) + j - 1 \in DOMAIN agenda'
          /\ agenda'[Len(loop) + Len(back) + j - 1] = agenda[j]
      BY <1>6, <3>1
    <3> QED BY <2>1, <2>2, <3>1, <3>2, <3>3, Zenon DEF InOrder
  <2> QED BY <2>4, <2>5, <2>6
<1>8. ASSUME NEW k \in DOMAIN back, i = Len(loop) + k, agenda'[i] = back[k]
      PROVE  InOrder(i)'
  <2>1. ASSUME NEW j \in DOMAIN agenda', j > i PROVE agenda'[j].at[1] # back[k].at[1]
    <3>1. CASE j \in DOMAIN loop /\ agenda'[j] = loop[j] BY <1>6, <1>8, <2>1, <3>1
    <3>2. ASSUME NEW m \in DOMAIN back, j = Len(loop) + m, agenda'[j] = back[m]
          PROVE  agenda'[j].at[1] # back[k].at[1]
      <4>1. k < m BY <1>6, <1>8, <2>1, <3>2
      <4> QED BY <1>3, <1>4, <3>2, <4>1
    <3>3. ASSUME NEW m \in DOMAIN agenda, m > 1, agenda'[j] = agenda[m]
          PROVE  agenda[m].at[1] # back[k].at[1]
      <4>1. CASE back[k].at[1] = First.at[1] /\ ~Nested
        <5>1. Len(agenda[1].at) = 1 BY <1>1, <4>1, NotNested
        <5>2. InOrder(1) BY <1>1 DEF Orderly
        <5> QED BY <1>1, <3>3, <4>1, <5>1, <5>2 DEF InOrder
      <4>2. CASE a # 0 /\ back[k].at[1] = a BY <1>3, <4>2 DEF Untouched, Touched
      <4> QED BY <1>4, <1>5, <4>1, <4>2
    <3> QED BY <1>6, <3>1, <3>2, <3>3
  <2>2. Len(agenda'[i].at) = 1 BY <1>4, <1>8
  <2> QED BY <1>8, <2>1, <2>2 DEF InOrder
<1>9. ASSUME NEW k \in DOMAIN agenda, k > 1, i = Len(loop) + Len(back) + k - 1, agenda'[i] = agenda[k]
      PROVE  InOrder(i)'
  <2>1. InOrder(k) BY DEF Orderly
  <2>2. ASSUME Len(agenda[k].at) > 1 PROVE \E n \in DOMAIN agenda' : n > i /\ agenda'[n].do = "free" /\ agenda'[n].at[1] = agenda[k].at[1]
    <3>1. PICK j \in DOMAIN agenda : j > k /\ agenda[j].do = "free" /\ agenda[j].at[1] = agenda[k].at[1]
      BY <2>1, <2>2 DEF InOrder
    <3>2. j > 1 BY <1>1, <1>9, <3>1
    <3>3. /\ Len(loop) + Len(back) + j - 1 \in DOMAIN agenda'
          /\ agenda'[Len(loop) + Len(back) + j - 1] = agenda[j]
          /\ Len(loop) + Len(back) + j - 1 > i
      BY <1>1, <1>6, <1>9, <3>1, <3>2
    <3> QED BY <3>1, <3>3
  <2>3. ASSUME Len(agenda[k].at) = 1 PROVE \A n \in DOMAIN agenda' : n > i => agenda'[n].at[1] # agenda[k].at[1]
    <3>1. ASSUME NEW j \in DOMAIN agenda', j > i PROVE agenda'[j].at[1] # agenda[k].at[1]
      <4>1. j \notin DOMAIN loop BY <1>1, <1>6, <1>9, <3>1
      <4>2. ~\E m \in DOMAIN back : j = Len(loop) + m BY <1>1, <1>6, <1>9, <3>1
      <4>3. PICK m \in DOMAIN agenda : j = Len(loop) + Len(back) + m - 1 /\ agenda'[j] = agenda[m]
        BY <1>6, <4>1, <4>2
      <4>4. m > k BY <1>1, <1>6, <1>9, <3>1, <4>3
      <4> QED BY <2>1, <2>3, <4>3, <4>4 DEF InOrder
    <3> QED BY <3>1
  <2> QED BY <1>9, <2>2, <2>3 DEF InOrder
<1> QED BY <1>6, <1>7, <1>8, <1>9

(* What a call hands on to. *)
LEMMA GivesParts ==
  ASSUME Inv, NEW v \in DOMAIN variables, Returning(v), Orderly(v),
         NEW loop, NEW back, NEW a, Gives(v, loop, back, a)
  PROVE  /\ Typed /\ agenda # <<>> /\ 1 \in DOMAIN agenda /\ First = agenda[1]
         /\ DOMAIN agenda \subseteq Nat /\ First \in GoodTask /\ \A k \in DOMAIN agenda : agenda[k] \in GoodTask
         /\ \A i \in DOMAIN loop : loop[i] \in GoodTask /\ i \in DOMAIN agenda' /\ agenda'[i] = loop[i]
         /\ \A i \in DOMAIN agenda' :
              \/ i \in DOMAIN loop /\ agenda'[i] = loop[i]
              \/ /\ Takes(agenda'[i]) = {} /\ agenda'[i].do = "free"
                 /\ agenda'[i].at[1] = First.at[1] \/ (a # 0 /\ agenda'[i].at[1] = a)
              \/ \E k \in DOMAIN agenda :
                   k > 1 /\ i = Len(loop) + Len(back) + k - 1 /\ agenda'[i] = agenda[k]
         /\ \A k \in DOMAIN agenda : k # 1 => \E i \in DOMAIN agenda' : agenda'[i] = agenda[k]
         /\ Len(loop) \in Nat /\ Len(back) \in Nat /\ DOMAIN agenda' \subseteq Nat
         /\ DOMAIN loop = 1 .. Len(loop)
         /\ \A i, j \in DOMAIN agenda' : i # j =>
              \/ i \in DOMAIN loop /\ j \in DOMAIN loop
              \/ Takes(agenda'[i]) = {} \/ Takes(agenda'[j]) = {}
              \/ \E k \in DOMAIN agenda : k > 1 /\ agenda'[i] = agenda[k] /\ j \in DOMAIN loop
              \/ \E k \in DOMAIN agenda : k > 1 /\ agenda'[j] = agenda[k] /\ i \in DOMAIN loop
              \/ \E k, m \in DOMAIN agenda :
                   k > 1 /\ m > 1 /\ k # m /\ agenda'[i] = agenda[k] /\ agenda'[j] = agenda[m]
<1>1. /\ Typed /\ agenda # <<>> /\ 1 \in DOMAIN agenda /\ First = agenda[1]
      /\ First.do \in Releases /\ DOMAIN agenda \subseteq Nat /\ First \in GoodTask
      /\ \A k \in DOMAIN agenda : agenda[k] \in GoodTask
  <2>1. Typed /\ agenda # <<>> /\ First.do \in Releases BY DEF Inv, Gives, Releases
  <2>2. agenda \in Seq(GoodTask) BY <2>1 DEF Typed
  <2> QED BY <2>1, <2>2, ReleaseKnown DEF First
<1>2. /\ loop \in Seq(GoodTask) /\ a \in Nat /\ agenda' = (loop \o back) \o Rest
      /\ a = 0 => back = FreeBase
  BY DEF Gives
<1>3. IsFrees(back, a) BY GivesMeans
<1>4. /\ back \in Seq(GoodTask)
      /\ \A k \in DOMAIN back :
              /\ back[k].do = "free" /\ Len(back[k].at) = 1 /\ Takes(back[k]) = {}
              /\ \/ back[k].at[1] = First.at[1] /\ ~Nested
                 \/ back # FreeBase /\ back[k].at[1] = a
  <2>0. agenda # <<>> /\ First.do \in Releases /\ a \in Nat /\ IsFrees(back, a) BY <1>1, <1>2, <1>3
  <2> QED BY <2>0, FreesAre
<1>5. /\ Len(loop) \in Nat /\ Len(back) \in Nat /\ DOMAIN agenda' \subseteq Nat
      /\ DOMAIN loop = 1 .. Len(loop) /\ DOMAIN back = 1 .. Len(back)
      /\ \A i \in DOMAIN agenda' :
              \/ i \in DOMAIN loop /\ agenda'[i] = loop[i]
              \/ \E j \in DOMAIN back : i = Len(loop) + j /\ agenda'[i] = back[j]
              \/ \E k \in DOMAIN agenda :
                   k > 1 /\ i = Len(loop) + Len(back) + k - 1 /\ agenda'[i] = agenda[k]
      /\ \A i \in DOMAIN loop : i \in DOMAIN agenda' /\ agenda'[i] = loop[i]
      /\ \A k \in DOMAIN agenda : k > 1 =>
              /\ Len(loop) + Len(back) + k - 1 \in DOMAIN agenda'
              /\ agenda'[Len(loop) + Len(back) + k - 1] = agenda[k]
  <2>1. loop \in Seq(GoodTask) /\ back \in Seq(GoodTask) /\ agenda' = (loop \o back) \o Rest BY <1>2, <1>4
  <2> QED BY <1>1, <2>1, AgendaParts, Zenon
<1>6. ASSUME NEW i \in DOMAIN agenda'
      PROVE  \/ i \in DOMAIN loop /\ agenda'[i] = loop[i]
             \/ /\ Takes(agenda'[i]) = {} /\ agenda'[i].do = "free"
                /\ agenda'[i].at[1] = First.at[1] \/ (a # 0 /\ agenda'[i].at[1] = a)
             \/ \E k \in DOMAIN agenda :
                   k > 1 /\ i = Len(loop) + Len(back) + k - 1 /\ agenda'[i] = agenda[k]
  <2>1. ASSUME NEW j \in DOMAIN back, agenda'[i] = back[j]
        PROVE  /\ Takes(agenda'[i]) = {} /\ agenda'[i].do = "free"
               /\ agenda'[i].at[1] = First.at[1] \/ (a # 0 /\ agenda'[i].at[1] = a)
    BY <1>2, <1>4, <2>1
  <2> QED BY <1>5, <2>1
<1>7. \A k \in DOMAIN agenda : k # 1 => \E i \in DOMAIN agenda' : agenda'[i] = agenda[k]
  <2>1. ASSUME NEW k \in DOMAIN agenda, k # 1 PROVE \E i \in DOMAIN agenda' : agenda'[i] = agenda[k]
    <3>1. k > 1 BY <1>1, <2>1 DEF Typed
    <3> QED BY <1>5, <3>1
  <2> QED BY <2>1
<1>8. \A i \in DOMAIN loop : loop[i] \in GoodTask BY <1>2
<1>9. ASSUME NEW i \in DOMAIN agenda', NEW j \in DOMAIN agenda', i # j
      PROVE  \/ i \in DOMAIN loop /\ j \in DOMAIN loop
             \/ Takes(agenda'[i]) = {} \/ Takes(agenda'[j]) = {}
             \/ \E k \in DOMAIN agenda : k > 1 /\ agenda'[i] = agenda[k] /\ j \in DOMAIN loop
             \/ \E k \in DOMAIN agenda : k > 1 /\ agenda'[j] = agenda[k] /\ i \in DOMAIN loop
             \/ \E k, m \in DOMAIN agenda :
                   k > 1 /\ m > 1 /\ k # m /\ agenda'[i] = agenda[k] /\ agenda'[j] = agenda[m]
  <2>1. ASSUME NEW k \in DOMAIN agenda, k > 1, i = Len(loop) + Len(back) + k - 1, agenda'[i] = agenda[k],
               NEW m \in DOMAIN agenda, m > 1, j = Len(loop) + Len(back) + m - 1, agenda'[j] = agenda[m]
        PROVE  \E k1, m1 \in DOMAIN agenda :
                 k1 > 1 /\ m1 > 1 /\ k1 # m1 /\ agenda'[i] = agenda[k1] /\ agenda'[j] = agenda[m1]
    <3>1. k # m BY <1>9, <2>1
    <3> QED BY <2>1, <3>1
  <2> QED BY <1>6, <2>1
<1> QED BY <1>1, <1>5, <1>6, <1>7, <1>8, <1>9

LEMMA GivesOrderly ==
  ASSUME Inv, Tree, NEW v \in DOMAIN variables, Returning(v), Orderly(v),
         NEW loop, NEW back, NEW a, Gives(v, loop, back, a)
  PROVE  Orderly(v)'
<1>1. /\ Typed /\ agenda # <<>> /\ 1 \in DOMAIN agenda /\ First = agenda[1]
      /\ DOMAIN agenda \subseteq Nat /\ First \in GoodTask /\ \A k \in DOMAIN agenda : agenda[k] \in GoodTask
      /\ \A i \in DOMAIN loop : loop[i] \in GoodTask /\ i \in DOMAIN agenda' /\ agenda'[i] = loop[i]
      /\ \A i \in DOMAIN agenda' :
              \/ i \in DOMAIN loop /\ agenda'[i] = loop[i]
              \/ /\ Takes(agenda'[i]) = {} /\ agenda'[i].do = "free"
                 /\ agenda'[i].at[1] = First.at[1] \/ (a # 0 /\ agenda'[i].at[1] = a)
              \/ \E k \in DOMAIN agenda :
                   k > 1 /\ i = Len(loop) + Len(back) + k - 1 /\ agenda'[i] = agenda[k]
      /\ \A i, j \in DOMAIN agenda' : i # j =>
              \/ i \in DOMAIN loop /\ j \in DOMAIN loop
              \/ Takes(agenda'[i]) = {} \/ Takes(agenda'[j]) = {}
              \/ \E k \in DOMAIN agenda : k > 1 /\ agenda'[i] = agenda[k] /\ j \in DOMAIN loop
              \/ \E k \in DOMAIN agenda : k > 1 /\ agenda'[j] = agenda[k] /\ i \in DOMAIN loop
              \/ \E k, m \in DOMAIN agenda :
                   k > 1 /\ m > 1 /\ k # m /\ agenda'[i] = agenda[k] /\ agenda'[j] = agenda[m]
  BY GivesParts
<1>2. /\ regions' = regions /\ memory' = memory /\ variables' = variables
      /\ \A i \in DOMAIN loop :
           /\ loop[i].at[1] = IF a = 0 THEN First.at[1] ELSE a
           /\ loop[i].do = "dealloc" =>
                \/ loop[i].type \in OutsideTables[variables[v].type]
                \/ regions[loop[i].at[1]].role = "field"
           /\ a = 0 => Takes(loop[i]) \subseteq Takes(First)
           /\ a # 0 => \A q \in Takes(loop[i]) : q.at \in DOMAIN memory => q \in PlacesIn(a)
      /\ \A i, j \in DOMAIN loop : \A p \in Takes(loop[i]), q \in Takes(loop[j]) : p.at = q.at => i = j
  BY DEF Gives
<1>3. /\ First.at[1] \in DOMAIN regions /\ regions[First.at[1]].owner = v
      /\ a # 0 =>
              /\ a \in DOMAIN regions /\ regions[a].owner = v /\ Untouched(a) /\ a # First.at[1]
              /\ \A r \in DOMAIN regions : regions[r].owner = v =>
                   \A q \in PlacesIn(r) : q.at \in DOMAIN memory /\ memory[q.at] = a =>
                     r = First.at[1] /\ q \in Takes(First)
  BY GivesMeans
<1>4. \A r : Untouched(r)' <=> Untouched(r) /\ ~(a # 0 /\ r = a) BY GivesTouched
<1>5. /\ \A i \in DOMAIN agenda : \A p \in Takes(agenda[i]) :
           p.at \in Seq(Nat) /\ p.at # <<>> /\ p.at[1] = agenda[i].at[1]
      /\ \A i \in DOMAIN loop : \A p \in Takes(loop[i]) : p.at[1] = loop[i].at[1]
  BY <1>1, TakesKnown
<1>6. \A k \in DOMAIN agenda : k > 1 => k # 1 OBVIOUS
<1>7. ASSUME NEW i \in DOMAIN agenda'
      PROVE  /\ agenda'[i].at[1] \in DOMAIN regions /\ regions[agenda'[i].at[1]].owner = v
             /\ regions[agenda'[i].at[1]].live
             /\ agenda'[i].do = "dealloc" =>
                  \/ agenda'[i].type \in OutsideTables[variables[v].type]
                  \/ regions[agenda'[i].at[1]].role = "field"
  <2>1. regions[First.at[1]].live BY <1>1 DEF Orderly
  <2>2. a # 0 => regions[a].live BY <1>3 DEF Untouched
  <2>3. CASE i \in DOMAIN loop /\ agenda'[i] = loop[i] BY <1>2, <1>3, <2>1, <2>2, <2>3
  <2>4. CASE /\ agenda'[i].do = "free"
             /\ agenda'[i].at[1] = First.at[1] \/ (a # 0 /\ agenda'[i].at[1] = a)
    BY <1>3, <2>1, <2>2, <2>4
  <2>5. CASE \E k \in DOMAIN agenda : agenda'[i] = agenda[k] BY <2>5 DEF Orderly
  <2> QED BY <1>1, <2>3, <2>4, <2>5
<1>8. ASSUME NEW i \in DOMAIN loop, NEW k \in DOMAIN agenda, k > 1,
             NEW p \in Takes(loop[i]), NEW q \in Takes(agenda[k])
      PROVE  p.at # q.at
  <2>1. CASE a = 0
    <3>1. p \in Takes(agenda[1]) BY <1>1, <1>2, <2>1
    <3> QED BY <1>1, <1>6, <1>8, <3>1 DEF Orderly
  <2>2. CASE a # 0
    <3>1. p.at[1] = a /\ q.at[1] = agenda[k].at[1] BY <1>2, <1>5, <2>2
    <3> QED BY <1>3, <2>2, <3>1 DEF Untouched, Touched
  <2> QED BY <2>1, <2>2
<1>9. ASSUME NEW i \in DOMAIN agenda', NEW j \in DOMAIN agenda',
             NEW p \in Takes(agenda'[i]), NEW q \in Takes(agenda'[j]), p.at = q.at
      PROVE  i = j
  <2>1. SUFFICES ASSUME i # j PROVE FALSE OBVIOUS
  <2>2. CASE i \in DOMAIN loop /\ j \in DOMAIN loop BY <1>1, <1>2, <1>9, <2>1, <2>2
  <2>3. CASE \E k \in DOMAIN agenda : k > 1 /\ agenda'[i] = agenda[k] /\ j \in DOMAIN loop
    BY <1>1, <1>8, <1>9, <2>3
  <2>4. CASE \E k \in DOMAIN agenda : k > 1 /\ agenda'[j] = agenda[k] /\ i \in DOMAIN loop
    BY <1>1, <1>8, <1>9, <2>4
  <2>5. CASE \E k, m \in DOMAIN agenda :
               k > 1 /\ m > 1 /\ k # m /\ agenda'[i] = agenda[k] /\ agenda'[j] = agenda[m]
    BY <1>9, <2>5 DEF Orderly
  <2> QED BY <1>1, <1>9, <2>1, <2>2, <2>3, <2>4, <2>5
<1>10. ASSUME NEW i \in DOMAIN agenda', NEW p \in Takes(agenda'[i]), p.at \in DOMAIN memory
       PROVE  p \in PlacesIn(p.at[1]) /\ Untouched(memory[p.at])'
  <2>1. CASE i \in DOMAIN loop /\ a = 0
    <3>1. p \in Takes(agenda[1]) BY <1>1, <1>2, <1>10, <2>1
    <3>2. p \in PlacesIn(p.at[1]) /\ Untouched(memory[p.at]) BY <1>1, <1>10, <3>1 DEF Orderly
    <3>3. PICK r : r = memory[p.at] OBVIOUS
    <3>4. Untouched(r)' BY <1>4, <2>1, <3>2, <3>3
    <3> QED BY <1>2, <3>2, <3>3, <3>4 DEF Untouched, Touched
  <2>2. CASE i \in DOMAIN loop /\ a # 0
    <3>1. p.at[1] = a /\ p \in PlacesIn(a) BY <1>1, <1>2, <1>5, <1>10, <2>2
    <3>2. Untouched(memory[p.at]) BY <1>3, <1>10, <2>2, <3>1 DEF Orderly
    <3>3. memory[p.at] # a BY <1>3, <1>10, <2>2, <3>1
    <3>4. PICK r : r = memory[p.at] OBVIOUS
    <3>5. Untouched(r)' BY <1>4, <3>2, <3>3, <3>4
    <3> QED BY <1>2, <3>1, <3>4, <3>5 DEF Untouched, Touched
  <2>3. CASE \E k \in DOMAIN agenda : k > 1 /\ agenda'[i] = agenda[k]
    <3>1. PICK k \in DOMAIN agenda : k > 1 /\ agenda'[i] = agenda[k] BY <2>3
    <3>2. p \in PlacesIn(p.at[1]) /\ Untouched(memory[p.at]) BY <1>10, <3>1 DEF Orderly
    <3>3. a # 0 => memory[p.at] # a
      <4>1. ASSUME a # 0, memory[p.at] = a PROVE FALSE
        <5>1. p.at[1] \in DOMAIN regions /\ regions[p.at[1]].owner = v BY <1>5, <1>10, <3>1 DEF Orderly
        <5>2. p \in Takes(agenda[1]) BY <1>1, <1>3, <1>10, <3>2, <4>1, <5>1
        <5> QED BY <1>1, <1>6, <1>10, <3>1, <5>2 DEF Orderly
      <4> QED BY <4>1
    <3>4. PICK r : r = memory[p.at] OBVIOUS
    <3>5. Untouched(r)' BY <1>4, <3>2, <3>3, <3>4
    <3> QED BY <1>2, <3>2, <3>4, <3>5 DEF Untouched, Touched
  <2> QED BY <1>1, <1>10, <2>1, <2>2, <2>3
<1>11. ASSUME NEW r \in DOMAIN regions, regions[r].owner = v, Untouched(r)',
              NEW p \in PlacesIn(r), p.at \in DOMAIN memory
       PROVE  Untouched(memory[p.at])'
  <2>1. Untouched(r) /\ (a # 0 => r # a) BY <1>4, <1>11
  <2>2. Untouched(memory[p.at]) BY <1>11, <2>1 DEF Orderly
  <2>3. a # 0 => memory[p.at] # a
    <3>1. ASSUME a # 0, memory[p.at] = a PROVE FALSE
      <4>1. r = First.at[1] BY <1>3, <1>11, <3>1
      <4> QED BY <1>1, <2>1, <4>1 DEF Untouched, Touched
    <3> QED BY <3>1
  <2>4. PICK s : s = memory[p.at] OBVIOUS
  <2>5. Untouched(s)' BY <1>4, <2>2, <2>3, <2>4
  <2> QED BY <1>2, <2>4, <2>5 DEF Untouched, Touched
<1>12. \A r : PlacesIn(r)' = PlacesIn(r) BY <1>2 DEF PlacesIn
<1>13. \A i \in DOMAIN agenda' : InOrder(i)' BY GivesInOrder
<1>14. /\ \A i, j \in DOMAIN agenda' : \A p \in Takes(agenda[i])', q \in Takes(agenda[j])' :
            p.at = q.at => i = j
       /\ \A i \in DOMAIN agenda' : \A p \in Takes(agenda[i])' :
            p.at \in DOMAIN memory' => p \in PlacesIn(p.at[1])' /\ Untouched(memory[p.at])'
  <2>1. \A i : Takes(agenda[i])' = Takes(agenda'[i]) BY DEF Takes, Spots
  <2> QED BY <1>2, <1>9, <1>10, <1>12, <2>1
<1>15. \A i \in DOMAIN agenda' :
         /\ agenda'[i].at[1] \in DOMAIN regions' /\ regions'[agenda'[i].at[1]].owner = v
         /\ regions'[agenda'[i].at[1]].live
         /\ agenda'[i].do = "dealloc" =>
              \/ agenda'[i].type \in OutsideTables[variables'[v].type]
              \/ regions'[agenda'[i].at[1]].role = "field"
  BY <1>2, <1>7
<1>16. \A r \in DOMAIN regions' : regions'[r].owner = v /\ Untouched(r)' =>
         \A p \in PlacesIn(r)' : p.at \in DOMAIN memory' => Untouched(memory[p.at])'
  BY <1>2, <1>11, <1>12
<1> QED BY <1>13, <1>14, <1>15, <1>16 DEF Orderly

LEMMA GivesOwed ==
  ASSUME Inv, Tree, NEW v \in DOMAIN variables, Returning(v), Orderly(v), Owed(v),
         NEW loop, NEW back, NEW a, Gives(v, loop, back, a)
  PROVE  Owed(v)'
<1>1. /\ Typed /\ agenda # <<>> /\ 1 \in DOMAIN agenda /\ First = agenda[1]
      /\ First \in GoodTask /\ \A k \in DOMAIN agenda : agenda[k] \in GoodTask
      /\ \A i \in DOMAIN loop : i \in DOMAIN agenda' /\ agenda'[i] = loop[i]
      /\ \A k \in DOMAIN agenda : k # 1 => \E i \in DOMAIN agenda' : agenda'[i] = agenda[k]
  BY GivesParts
<1>2. /\ regions' = regions /\ memory' = memory /\ variables' = variables
      /\ a = 0 => \A q \in Takes(First) : \E i \in DOMAIN loop : q \in Takes(loop[i])
      /\ a # 0 => \E p : Takes(First) = {p} /\ memory[p.at] = a
      /\ a # 0 => \/ HasTableInside(variables[v].type)
                  \/ HasVariableLoop(variables[v].type)
                  \/ \A p \in PlacesIn(a) :
                       p.at \in DOMAIN memory => \E i \in DOMAIN loop : p \in Takes(loop[i])
  BY DEF Gives
<1>3. \A r : Touched(r)' <=> Touched(r) \/ (a # 0 /\ r = a) BY GivesTouched
<1>4. \A r : Untouched(r)' <=> Untouched(r) /\ ~(a # 0 /\ r = a) BY GivesTouched
<1>5. CASE HasTableInside(variables[v].type) \/ HasVariableLoop(variables[v].type) BY <1>2, <1>5 DEF Owed
<1>6. CASE ~HasTableInside(variables[v].type) /\ ~HasVariableLoop(variables[v].type)
  <2> DEFINE Taken(p) == \E i \in DOMAIN agenda' : p \in Takes(agenda'[i])
  <2>1. ASSUME NEW r \in DOMAIN regions, regions[r].owner = v, regions[r].live,
               regions[r].role # "handle", ~(Touched(r)')
        PROVE  \E p : Parent(p, r) /\ (Untouched(p.at[1])' \/ Taken(p))
    <3>1. ~Touched(r) /\ (a # 0 => r # a) BY <1>3, <2>1
    <3>2. PICK p \in AllPlaces :
            Parent(p, r) /\ (Untouched(p.at[1]) \/ \E i \in DOMAIN agenda : p \in Takes(agenda[i]))
      BY <1>6, <2>1, <3>1 DEF Owed
    <3>3. PICK s : s = p.at[1] OBVIOUS
    <3>4. p \in PlacesIn(s) /\ p.at \in DOMAIN memory /\ memory[p.at] = r BY <3>2, <3>3 DEF Parent
    <3>5. CASE Untouched(s) /\ ~(a # 0 /\ s = a)
      <4>1. Untouched(s)' BY <1>4, <3>5
      <4>2. Untouched(p.at[1])' BY <3>3, <4>1
      <4> QED BY <3>2, <4>2
    <3>6. CASE a # 0 /\ s = a
      <4>1. PICK i \in DOMAIN loop : p \in Takes(loop[i]) BY <1>2, <1>6, <3>4, <3>6
      <4>2. Taken(p) BY <1>1, <4>1
      <4> QED BY <3>2, <4>2
    <3>7. ASSUME NEW i \in DOMAIN agenda, p \in Takes(agenda[i])
          PROVE  Taken(p)
      <4>1. CASE i # 1 BY <1>1, <3>7, <4>1
      <4>2. CASE i = 1
        <5>1. p \in Takes(First) BY <1>1, <3>7, <4>2
        <5>2. a = 0 BY <1>2, <3>1, <3>4, <5>1
        <5>3. PICK j \in DOMAIN loop : p \in Takes(loop[j]) BY <1>2, <5>1, <5>2
        <5> QED BY <1>1, <5>3
      <4> QED BY <4>1, <4>2
    <3> QED BY <3>2, <3>3, <3>5, <3>6, <3>7
  <2>2. \A i : Takes(agenda[i])' = Takes(agenda'[i]) BY DEF Takes, Spots
  <2>3. /\ \A r : PlacesIn(r)' = PlacesIn(r)
        /\ AllPlaces' = AllPlaces
    BY <1>2 DEF PlacesIn, AllPlaces
  <2>4. \A p, r : Parent(p, r)' <=> Parent(p, r) BY <1>2, <2>3 DEF Parent
  <2>5. \A p, r : Parent(p, r) => p \in AllPlaces BY DEF Parent, AllPlaces
  <2>6. \A r \in DOMAIN regions' :
          regions'[r].owner = v /\ regions'[r].live /\ regions'[r].role # "handle" =>
            \/ Touched(r)'
            \/ \E p \in AllPlaces' : Parent(p, r)' /\
                 (Untouched(p.at[1])' \/ \E i \in DOMAIN agenda' : p \in Takes(agenda[i])')
    BY <1>2, <2>1, <2>2, <2>3, <2>4, <2>5
  <2> QED BY <2>6 DEF Owed
<1> QED BY <1>5, <1>6

(* Whoever takes from memory that was never written gives back nothing that there is. *)
LEMMA StaysDoomed ==
  ASSUME Typed, agenda # <<>>, Doomed, NEW tasks \in Seq(GoodTask), agenda' = tasks \o Rest,
         First.do # "free"
  PROVE  Doomed'
<1>1. PICK k \in DOMAIN agenda : agenda[k].do = "free" /\ agenda[k].at[1] = 0 BY DEF Doomed
<1>2. k # 1 BY <1>1 DEF First
<1>4. k > 1
  <2>1. agenda \in Seq(GoodTask) BY DEF Typed
  <2> QED BY <1>2, <2>1
<1>5. \E i \in DOMAIN agenda' : agenda'[i] = agenda[k]
  <2>1. Len(tasks) + k - 1 \in DOMAIN agenda' /\ agenda'[Len(tasks) + k - 1] = agenda[k] BY <1>4, AgendaAfter
  <2> QED BY <2>1
<1> QED BY <1>1, <1>5 DEF Doomed

LEMMA ReleaseIs ==
  ASSUME Inv, agenda # <<>>, First.do \in Releases, NEW v \in DOMAIN variables, Returning(v)
  PROVE  /\ Typed /\ 1 \in DOMAIN agenda /\ First = agenda[1] /\ First \in GoodTask
         /\ First.type \in Types /\ First.at \in Seq(Nat) /\ First.at # <<>> /\ First.at[1] \in Nat
         /\ Returns(First, variables[v]) /\ variables[v].type \in Types
         /\ variables[v].place = "heaped"
<1>1. Typed BY DEF Inv
<1>2. agenda \in Seq(GoodTask) /\ variables[v] \in Variable BY <1>1 DEF Typed, StorageOK
<1>3. 1 \in DOMAIN agenda /\ First = agenda[1] BY <1>2 DEF First
<1> QED BY <1>1, <1>2, <1>3, ReleaseKnown DEF Returning, Variable

LEMMA NothingTaken ==
  ASSUME Inv, status = "ok", agenda # <<>>, First.do = "dealloc", Stays,
         NEW v \in DOMAIN variables, Returning(v),
         agenda' = FreeBase \o Rest, Takes(First) = {}
  PROVE  HandsOn(v)
<1>1. PICK loop \in Seq(GoodTask) : loop = <<>>
  <2>1. <<>> \in Seq(GoodTask) OBVIOUS
  <2> QED BY <2>1, Zenon
<1>2. DOMAIN loop = {} BY <1>1
<1>3. IsFrees(FreeBase, 0) BY DEF IsFrees
<1>4. FreeBase \in Seq(GoodTask) BY <1>3, FreesAre DEF Releases
<1>5. agenda' = (loop \o FreeBase) \o Rest BY <1>1, <1>4
<1>6. Gives(v, loop, FreeBase, 0) BY <1>2, <1>5 DEF Gives, Stays
<1>7. GoesOn(v, loop, FreeBase, 0) BY <1>2, <1>3, <1>5, <1>6 DEF GoesOn
<1> QED BY <1>7 DEF HandsOn

LEMMA PlainGives ==
  ASSUME Inv, DeallocPlain, Stays, NEW v \in DOMAIN variables, Returning(v)
  PROVE  HandsOn(v)
<1>1. status = "ok" /\ agenda # <<>> /\ First.do = "dealloc" /\ agenda' = FreeBase \o Rest
      /\ ClassOf(First.type) \in {"primitive", "address"}
  BY DEF DeallocPlain, Doing, GoOn, Class
<1>2. First.type \in Types /\ First.at \in Seq(Nat) /\ First.at # <<>> BY <1>1, ReleaseIs DEF Releases
<1>3. Spots(First.at, First.type) = {} BY <1>1, <1>2, SpotsTyped
<1>4. Takes(First) = {} BY <1>1, <1>3 DEF Takes
<1> QED BY <1>1, <1>4, NothingTaken

LEMMA SkipGives ==
  ASSUME Inv, Skip, Stays, First.do = "dealloc", NEW v \in DOMAIN variables, Returning(v)
  PROVE  HandsOn(v)
<1>1. status = "ok" /\ agenda # <<>> /\ Nested /\ agenda' = <<>> \o Rest
      /\ ClassOf(First.type) \in {"primitive", "address", "table"}
  BY DEF Skip, Doing, GoOn, Class
<1>2. First.type \in Types /\ First.at \in Seq(Nat) /\ First.at # <<>> /\ First \in GoodTask
  BY <1>1, ReleaseIs DEF Releases
<1>3. ASSUME NEW p \in Spots(First.at, First.type)
      PROVE  ~(ClassOf(p.type) = "vector" \/ Len(p.at) = 2)
  <2>1. ClassOf(First.type) = "table" /\ p.type = First.type BY <1>1, <1>2, SpotsTyped
  <2>2. PICK n \in Nat : n = Len(First.at) BY <1>2
  <2>3. n > 1 BY <1>1, <2>2 DEF Nested
  <2>4. PICK m \in Nat : m = Len(p.at) BY <1>2, SpotPrefix
  <2>5. m > n BY <1>2, <2>1, <2>2, <2>4, SpotsTyped
  <2>6. m # 2 BY <2>3, <2>5
  <2>7. ClassOf(p.type) # "vector" BY <2>1
  <2> QED BY <2>4, <2>6, <2>7
<1>4. Takes(First) = {} BY <1>3 DEF Takes
<1>5. FreeBase = <<>> BY <1>1 DEF FreeBase
<1> QED BY <1>1, <1>4, <1>5, NothingTaken

(* The parts of what is given back are given back. *)
LEMMA GivenBackParts ==
  ASSUME NEW u \in Types, NEW t \in GivenBack(u), ClassOf(t) # "table", NEW m \in DOMAIN Def[t].parts
  PROVE  Def[t].parts[m] \in GivenBack(u)
<1>1. CASE t \in OutsideTables[u]
  <2>1. t \in Types /\ Reached(t) \subseteq OutsideTables[u] BY <1>1, OutsideIs
  <2> QED BY <2>1, PartReached DEF GivenBack
<1>2. CASE ClassOf(u) = "table" /\ \E s \in PartsOf(u) : t \in OutsideTables[s]
  <2>1. PICK s \in PartsOf(u) : t \in OutsideTables[s] BY <1>2
  <2>2. s \in Types BY <2>1, DefTyped DEF PartsOf
  <2>3. t \in Types /\ Reached(t) \subseteq OutsideTables[s] BY <2>1, <2>2, OutsideIs
  <2>4. Def[t].parts[m] \in OutsideTables[s] BY <2>3, PartReached
  <2> QED BY <1>2, <2>1, <2>4 DEF GivenBack
<1> QED BY <1>1, <1>2 DEF GivenBack

LEMMA OutsideParts ==
  ASSUME NEW u \in Types, NEW t \in OutsideTables[u], ClassOf(t) # "table", NEW m \in DOMAIN Def[t].parts
  PROVE  Def[t].parts[m] \in OutsideTables[u] /\ t \in Types
<1>1. t \in Types /\ Reached(t) \subseteq OutsideTables[u] BY OutsideIs
<1> QED BY <1>1, PartReached

LEMMA CollectionGives ==
  ASSUME Inv, DeallocCollection, Stays, NEW v \in DOMAIN variables, Returning(v)
  PROVE  HandsOn(v)
<1>1. /\ status = "ok" /\ agenda # <<>> /\ First.do = "dealloc" /\ ClassOf(First.type) = "collection"
      /\ agenda' = (Members("dealloc", First.type, First.at) \o FreeBase) \o Rest
  BY DEF DeallocCollection, Doing, GoOn, Class
<1>2. /\ Typed /\ 1 \in DOMAIN agenda /\ First = agenda[1] /\ First \in GoodTask
      /\ First.type \in Types /\ First.at \in Seq(Nat) /\ First.at # <<>> /\ First.at[1] \in Nat
      /\ Returns(First, variables[v]) /\ variables[v].type \in Types
  BY <1>1, ReleaseIs DEF Releases
<1>3. PICK at \in Seq(Nat) : at = First.at BY <1>2
<1>4. PICK t \in Types : t = First.type BY <1>2
<1>5. PICK loop : loop = Members("dealloc", t, at) OBVIOUS
<1>6. /\ loop \in Seq(GoodTask) /\ Len(loop) = Len(Def[t].parts)
      /\ \A m \in 1 .. Len(Def[t].parts) :
           loop[m] = ToDo("dealloc", Def[t].parts[m], at \o <<m>>) /\ Def[t].parts[m] \in Types
  <2>1. at # <<>> BY <1>2, <1>3
  <2> QED BY <1>5, <2>1, MembersGood DEF Calls
<1>7. DOMAIN Def[t].parts = 1 .. Len(Def[t].parts) /\ DOMAIN loop = DOMAIN Def[t].parts
      /\ DOMAIN loop \subseteq Nat
  BY <1>6, DefTyped
<1>8. PICK n \in Nat : n = Len(at) OBVIOUS
<1>9. n >= 1 BY <1>2, <1>3, <1>8
<1>10. ASSUME NEW m \in DOMAIN loop
       PROVE  /\ loop[m].do = "dealloc" /\ loop[m].type = Def[t].parts[m] /\ loop[m].type \in Types
              /\ loop[m].at = at \o <<m>> /\ loop[m].at \in Seq(Nat) /\ Len(loop[m].at) = n + 1
              /\ loop[m].at[1] = at[1] /\ loop[m].at[n + 1] = m
  <2>1. PICK mt : mt = at \o <<m>> OBVIOUS
  <2>2. m \in Nat /\ loop[m] = ToDo("dealloc", Def[t].parts[m], mt) /\ Def[t].parts[m] \in Types
    BY <1>6, <1>7, <2>1
  <2>3. mt \in Seq(Nat) /\ Len(mt) = n + 1 /\ mt[1] = at[1] /\ mt[n + 1] = m BY <1>8, <1>9, <2>1, <2>2
  <2> QED BY <2>1, <2>2, <2>3 DEF ToDo
<1>11. ASSUME NEW m \in DOMAIN loop
       PROVE  Takes(loop[m]) \subseteq Takes(First)
  <2>1. ASSUME NEW p \in Takes(loop[m]) PROVE p \in Takes(First)
    <3>1. p \in Spots(at \o <<m>>, Def[t].parts[m]) /\ (ClassOf(p.type) = "vector" \/ Len(p.at) = 2)
      BY <1>10, <2>1 DEF Takes
    <3>2. p \in Spots(at, t) BY <1>1, <1>4, <1>7, <3>1, MemberSpots
    <3> QED BY <1>1, <1>3, <1>4, <3>1, <3>2 DEF Takes
  <2> QED BY <2>1
<1>12. ASSUME NEW q \in Takes(First) PROVE \E m \in DOMAIN loop : q \in Takes(loop[m])
  <2>1. q \in Spots(at, t) /\ (ClassOf(q.type) = "vector" \/ Len(q.at) = 2)
    BY <1>1, <1>3, <1>4, <1>12 DEF Takes
  <2>2. PICK m \in DOMAIN Def[t].parts : q \in Spots(at \o <<m>>, Def[t].parts[m])
    BY <1>1, <1>4, <2>1, SpotsOfMember
  <2>3. m \in DOMAIN loop /\ q \in Takes(loop[m]) BY <1>7, <1>10, <2>1, <2>2 DEF Takes
  <2> QED BY <2>3
<1>13. ASSUME NEW i \in DOMAIN loop, NEW p \in Takes(loop[i]) PROVE p.at[n + 1] = i
  <2>1. PICK la \in Seq(Nat), lt \in Types : la = loop[i].at /\ lt = loop[i].type BY <1>10
  <2>2. p \in Spots(la, lt) BY <1>10, <1>13, <2>1 DEF Takes
  <2>3. \A k \in 1 .. Len(la) : p.at[k] = la[k] BY <2>2, SpotPrefix
  <2>4. Len(la) = n + 1 /\ la[n + 1] = i BY <1>10, <2>1
  <2>5. n + 1 \in 1 .. Len(la) BY <2>4
  <2> QED BY <2>3, <2>4, <2>5
<1>14. ASSUME NEW i \in DOMAIN loop
       PROVE  Returns(loop[i], variables[v]) /\ Len(loop[i].at) > 1
  <2>1. t \in GivenBack(variables[v].type) BY <1>1, <1>2, <1>4 DEF Returns
  <2>2. Def[t].parts[i] \in GivenBack(variables[v].type) BY <1>1, <1>2, <1>4, <1>7, <2>1, GivenBackParts
  <2>3. Len(loop[i].at) > 1
    <3>1. PICK k : k = Len(loop[i].at) OBVIOUS
    <3>2. k = n + 1 BY <1>10, <3>1
    <3>3. k > 1 BY <1>9, <3>2
    <3> QED BY <3>1, <3>3
  <2> QED BY <1>10, <2>2, <2>3 DEF Returns
<1>15. ASSUME Orderly(v), NEW i \in DOMAIN loop
       PROVE  \/ loop[i].type \in OutsideTables[variables[v].type]
              \/ regions[loop[i].at[1]].role = "field"
  <2>1. t \in OutsideTables[variables[v].type] \/ regions[First.at[1]].role = "field"
    BY <1>1, <1>2, <1>4, <1>15 DEF Orderly
  <2>2. PICK u \in Types : u = variables[v].type BY <1>2
  <2>3. CASE t \in OutsideTables[u]
    <3>1. Def[t].parts[i] \in OutsideTables[u] BY <1>1, <1>4, <1>7, <2>3, OutsideParts
    <3> QED BY <1>10, <2>2, <3>1
  <2> QED BY <1>3, <1>10, <2>1, <2>2, <2>3
<1>16. agenda' = (loop \o FreeBase) \o Rest BY <1>1, <1>3, <1>4, <1>5
<1>17. ASSUME Orderly(v) PROVE Gives(v, loop, FreeBase, 0)
  <2>1. \A i, j \in DOMAIN loop : \A p \in Takes(loop[i]), q \in Takes(loop[j]) : p.at = q.at => i = j
    BY <1>13
  <2> QED BY <1>1, <1>3, <1>6, <1>10, <1>11, <1>12, <1>14, <1>15, <1>16, <1>17, <2>1 DEF Gives, Stays
<1>18. ASSUME Sound(v), ~Excused(variables[v])
       PROVE  \A i \in DOMAIN loop : Takes(loop[i]) \subseteq PlacesIn(loop[i].at[1])
  <2>1. Takes(First) \subseteq PlacesIn(First.at[1]) BY <1>2, <1>18 DEF Sound
  <2> QED BY <1>3, <1>10, <1>11, <2>1
<1>19. GoesOn(v, loop, FreeBase, 0) BY <1>6, <1>14, <1>16, <1>17, <1>18 DEF GoesOn, IsFrees
<1> QED BY <1>19 DEF HandsOn

LEMMA TableGives ==
  ASSUME Inv, DeallocTable, Stays, NEW v \in DOMAIN variables, Returning(v)
  PROVE  HandsOn(v)
<1>1. /\ status = "ok" /\ agenda # <<>> /\ First.do = "dealloc" /\ ClassOf(First.type) = "table" /\ ~Nested
      /\ agenda' = ([f \in DOMAIN Def[First.type].parts |-> ToDo("field", First.type, First.at \o <<f>>)]
                      \o FreeBase) \o Rest
  BY DEF DeallocTable, Doing, GoOn, Class
<1>2. /\ Typed /\ 1 \in DOMAIN agenda /\ First = agenda[1] /\ First \in GoodTask
      /\ First.type \in Types /\ First.at \in Seq(Nat) /\ First.at # <<>> /\ First.at[1] \in Nat
  BY <1>1, ReleaseIs DEF Releases
<1>3. PICK at \in Seq(Nat) : at = First.at BY <1>2
<1>4. PICK t \in Types : t = First.type BY <1>2
<1>5. PICK loop : loop = [f \in DOMAIN Def[t].parts |-> ToDo("field", t, at \o <<f>>)] OBVIOUS
<1>6. Len(at) = 1 /\ t = variables[v].type
  <2>1. Len(First.at) = 1
    <3>1. Len(First.at) \in Nat /\ (Nested <=> Len(First.at) # 1) BY <1>2, NotNested
    <3> QED BY <1>1, <3>1
  <2> QED BY <1>1, <1>2, <1>3, <1>4, <2>1 DEF Returning
<1>7. DOMAIN Def[t].parts = 1 .. Len(Def[t].parts) /\ Len(Def[t].parts) \in Nat
      /\ DOMAIN loop = DOMAIN Def[t].parts /\ DOMAIN loop \subseteq Nat
  BY <1>5, DefTyped
<1>8. ASSUME NEW f \in DOMAIN loop
      PROVE  /\ loop[f].do = "field" /\ loop[f].type = t /\ loop[f].at = at \o <<f>>
             /\ loop[f].at[1] = at[1] /\ Len(loop[f].at) = 2 /\ loop[f].at[2] = f
             /\ loop[f] \in GoodTask
  <2>1. PICK ft : ft = at \o <<f>> OBVIOUS
  <2>2. f \in Nat /\ loop[f] = ToDo("field", t, ft) BY <1>5, <1>7, <2>1
  <2>3. ft \in Seq(Nat) /\ Len(ft) = 2 /\ ft[1] = at[1] /\ ft[2] = f /\ ft # <<>> /\ ft[Len(ft)] = f
    <3>1. PICK n \in Nat : n = Len(at) OBVIOUS
    <3>2. n >= 1 /\ n + 1 = 2 BY <1>6, <3>1
    <3>3. ft \in Seq(Nat) /\ Len(ft) = n + 1 /\ ft[1] = at[1] /\ ft[n + 1] = f BY <2>1, <2>2, <3>1, <3>2
    <3>4. ft[2] = f /\ Len(ft) = 2 BY <3>2, <3>3
    <3>5. ft # <<>> BY <3>2, <3>3
    <3>6. ft[Len(ft)] = f BY <3>2, <3>3, <3>4
    <3> QED BY <3>3, <3>4, <3>5, <3>6
  <2>4. loop[f] \in GoodTask
    <3>1. ToDo("field", t, ft) \in Task BY <2>3 DEF ToDo, Task, Calls
    <3>2. f \in DOMAIN Def[t].parts BY <1>7
    <3>3. PICK x \in Task : x = ToDo("field", t, ft) BY <3>1
    <3>4. x.at = ft /\ x.type = t BY <3>3 DEF ToDo
    <3>5. x.at # <<>> /\ x.at[Len(x.at)] \in DOMAIN Def[x.type].parts BY <2>3, <3>2, <3>4
    <3> QED BY <2>2, <3>3, <3>5 DEF GoodTask
  <2> QED BY <2>1, <2>2, <2>3, <2>4 DEF ToDo
<1>9. loop \in Seq(GoodTask) BY <1>7, <1>8, <1>5
<1>10. ASSUME NEW f \in DOMAIN loop
       PROVE  Takes(loop[f]) = {[at |-> at \o <<f>>, type |-> t]}
  BY <1>8 DEF Takes
<1>11. ASSUME NEW f \in DOMAIN loop PROVE Takes(loop[f]) \subseteq Takes(First)
  <2>1. PICK p : p = [at |-> at \o <<f>>, type |-> t] OBVIOUS
  <2>2. p \in Spots(at, t) BY <1>1, <1>4, <1>7, <2>1, TableSpots
  <2>3. Len(p.at) = 2 BY <1>8, <2>1
  <2>4. p \in Takes(First) BY <1>1, <1>3, <1>4, <2>2, <2>3 DEF Takes
  <2> QED BY <1>10, <2>1, <2>4
<1>12. ASSUME NEW q \in Takes(First) PROVE \E f \in DOMAIN loop : q \in Takes(loop[f])
  <2>1. q \in Spots(at, t) BY <1>1, <1>3, <1>4, <1>12 DEF Takes
  <2>2. PICK f \in DOMAIN Def[t].parts : q.at = at \o <<f>>
    <3>1. at # <<>> /\ ClassOf(t) = "table" BY <1>1, <1>2, <1>3, <1>4
    <3> QED BY <2>1, <3>1, SpotsTyped
  <2>3. PICK p \in Spots(at, t) : p = [at |-> at \o <<f>>, type |-> t] BY <1>1, <1>4, <2>2, TableSpots
  <2>4. q = p BY <2>1, <2>2, <2>3, SameSpot
  <2> QED BY <1>7, <1>10, <2>2, <2>3, <2>4
<1>13. \A i, j \in DOMAIN loop : \A p \in Takes(loop[i]), q \in Takes(loop[j]) : p.at = q.at => i = j
  <2>1. ASSUME NEW i \in DOMAIN loop, NEW p \in Takes(loop[i]) PROVE p.at[2] = i
    <3>1. p.at = loop[i].at
      <4>1. PICK x : x = loop[i] OBVIOUS
      <4>2. x.do = "field" /\ p \in Takes(x) BY <1>8, <2>1, <4>1
      <4>3. p.at = x.at BY <4>2 DEF Takes
      <4> QED BY <4>1, <4>3
    <3> QED BY <1>8, <3>1
  <2> QED BY <2>1
<1>14. ASSUME NEW i \in DOMAIN loop
       PROVE  Returns(loop[i], variables[v]) /\ Len(loop[i].at) > 1
  <2>1. loop[i] \in GoodTask /\ Len(loop[i].at) # 1
    <3>1. PICK k : k = Len(loop[i].at) OBVIOUS
    <3>2. k = 2 BY <1>8, <3>1
    <3>3. k # 1 BY <3>2
    <3>4. loop[i] \in GoodTask BY <1>8
    <3> QED BY <3>1, <3>3, <3>4, Zenon
  <2>2. Len(loop[i].at) > 1 BY <2>1, LongerThanOne
  <2> QED BY <1>1, <1>4, <1>6, <1>8, <2>2 DEF Returns
<1>15. agenda' = (loop \o FreeBase) \o Rest BY <1>1, <1>3, <1>4, <1>5
<1>16. Gives(v, loop, FreeBase, 0)
  <2>1. \A i \in DOMAIN loop : loop[i].do # "dealloc" BY <1>8
  <2> QED BY <1>1, <1>3, <1>8, <1>9, <1>11, <1>12, <1>13, <1>14, <1>15, <2>1 DEF Gives, Stays
<1>17. ASSUME Sound(v), ~Excused(variables[v])
       PROVE  \A i \in DOMAIN loop : Takes(loop[i]) \subseteq PlacesIn(loop[i].at[1])
  <2>1. Takes(First) \subseteq PlacesIn(First.at[1]) BY <1>2, <1>17 DEF Sound
  <2> QED BY <1>3, <1>8, <1>11, <2>1
<1>18. GoesOn(v, loop, FreeBase, 0) BY <1>9, <1>14, <1>15, <1>16, <1>17 DEF GoesOn, IsFrees
<1> QED BY <1>18 DEF HandsOn

LEMMA OutsideOfOutside ==
  ASSUME NEW t \in Types, NEW u \in OutsideTables[t]
  PROVE  OutsideTables[u] \subseteq OutsideTables[t] /\ u \in Types
<1>1. OutsideTables[t] \subseteq Types /\ \A s \in OutsideTables[t] : Reached(s) \subseteq OutsideTables[t]
  BY OutsideIs
<1> DEFINE of == [s \in Types |-> Reached(s)]
<1>2. \A s \in OutsideTables[t] : of[s] \subseteq OutsideTables[t] BY <1>1
<1>3. Deepens(of) BY PartsDeepen
<1>4. OutsideTables = Reaching(of) BY DEF OutsideTables
<1> HIDE DEF of
<1>5. \A s \in OutsideTables[t] : Reaching(of)[s] \subseteq OutsideTables[t]
  BY <1>1, <1>2, <1>3, ReachingStays
<1> QED BY <1>1, <1>4, <1>5

LEMMA OutsideIsWithin ==
  ASSUME NEW t \in Types
  PROVE  OutsideTables[t] \subseteq Within[t]
<1> DEFINE of == [s \in Types |-> Reached(s)]
           parts == [s \in Types |-> PartsOf(s)]
<1>1. Deepens(of) /\ Deepens(parts) BY PartsDeepen
<1>2. OutsideTables = Reaching(of) /\ Within = Reaching(parts) BY DEF OutsideTables, Within
<1>3. \A s \in Types : of[s] \subseteq parts[s] BY DEF Reached
<1> HIDE DEF of, parts
<1>4. \A u \in Reaching(parts)[t] : u \in Types /\ parts[u] \subseteq Reaching(parts)[t]
  BY <1>1, ReachingClosed
<1>5. t \in Reaching(parts)[t] BY <1>1, ReachingIs
<1>6. PICK S : S = Reaching(parts)[t] OBVIOUS
<1>7. S \subseteq Types /\ t \in S /\ \A u \in S : of[u] \subseteq S BY <1>3, <1>4, <1>5, <1>6
<1>8. Reaching(of)[t] \subseteq S BY <1>1, <1>7, ReachingStays
<1> QED BY <1>2, <1>6, <1>8

LEMMA ElementLoop ==
  ASSUME NEW t \in Types, NEW r \in Nat, NEW n \in Nat, NEW loop, loop = Elements("dealloc", t, r, n)
  PROVE  loop \in Seq(GoodTask) /\ ForElements(loop, t, r, n)
<1>1. /\ loop \in Seq(GoodTask)
      /\ \A i \in 1 .. Len(loop) : loop[i] = ToDo("dealloc", t, <<r, i>>)
  BY ElementsGood DEF Calls
<1>2. CASE ClassOf(t) \in {"vector", "collection"}
  <2>1. loop = [i \in 1 .. n |-> ToDo("dealloc", t, <<r, i>>)] BY <1>2 DEF Elements
  <2>2. DOMAIN loop = 1 .. n BY <2>1
  <2>3. ASSUME NEW i \in 1 .. n
        PROVE  /\ loop[i].do = "dealloc" /\ loop[i].type = t /\ loop[i].at[1] = r /\ Len(loop[i].at) > 1
               /\ \A p \in Takes(loop[i]) :
                   p \in Spots(<<r, i>>, t) /\ ClassOf(p.type) = "vector" /\ p.at[1] = r /\ p.at[2] = i
                   /\ p.type \in OutsideTables[t]
               /\ \A p \in Spots(<<r, i>>, t) : ClassOf(p.type) = "vector" => p \in Takes(loop[i])
    <3>1. PICK at \in Seq(Nat) : at = <<r, i>>
      <4>1. i \in Nat OBVIOUS
      <4>2. <<r, i>> \in Seq(Nat) BY <4>1
      <4> QED BY <4>2
    <3>2. Len(at) = 2 /\ at[1] = r /\ at[2] = i /\ at # <<>> BY <3>1
    <3>3. PICK x : x = loop[i] OBVIOUS
    <3>4. x = ToDo("dealloc", t, at) BY <2>1, <3>1, <3>3
    <3>5. x.do = "dealloc" /\ x.type = t /\ x.at = at BY <3>4 DEF ToDo
    <3>6. Takes(x) = {p \in Spots(at, t) : ClassOf(p.type) = "vector" \/ Len(p.at) = 2} BY <3>5 DEF Takes
    <3>7. ASSUME NEW p \in Takes(x)
          PROVE  /\ p \in Spots(at, t) /\ ClassOf(p.type) = "vector" /\ p.at[1] = r /\ p.at[2] = i
                 /\ p.type \in OutsideTables[t]
      <4>1. p \in Spots(at, t) BY <3>6
      <4>2. \A k \in 1 .. Len(at) : p.at[k] = at[k] BY <4>1, SpotPrefix
      <4>3. p.at[1] = r /\ p.at[2] = i BY <3>2, <4>2
      <4>4. p.type \in OutsideTables[t] BY <4>1, SpotPrefix
      <4>5. ClassOf(p.type) = "vector"
        <5>1. CASE ClassOf(t) = "vector" BY <3>2, <4>1, <5>1, SpotsTyped
        <5>2. CASE ClassOf(t) = "collection" /\ ClassOf(p.type) = "table"
          <6>1. PICK m \in Nat : m = Len(p.at) BY <3>2, <4>1, SpotPrefix
          <6>2. m > 3
            <7>1. Len(p.at) > Len(at) + 1 BY <1>2, <3>2, <4>1, <5>2, SpotsTyped
            <7> QED BY <3>2, <6>1, <7>1
          <6>3. m # 2 BY <6>2
          <6> QED BY <3>6, <5>2, <6>1, <6>3
        <5>3. p.type \in Pointers BY <3>2, <4>1, SpotsTyped DEF Spot
        <5> QED BY <1>2, <5>1, <5>2, <5>3 DEF Pointers
      <4> QED BY <4>1, <4>3, <4>4, <4>5
    <3>8. \A p \in Spots(at, t) : ClassOf(p.type) = "vector" => p \in Takes(x) BY <3>6
    <3>9. Len(x.at) > 1
      <4>1. Len(at) > 1 BY <3>1
      <4> QED BY <3>5, <4>1, Zenon
    <3> QED BY <3>1, <3>2, <3>3, <3>5, <3>7, <3>8, <3>9, Zenon
  <2> QED BY <1>1, <1>2, <2>2, <2>3 DEF ForElements
<1>3. CASE ClassOf(t) \notin {"vector", "collection"}
  <2>1. loop = <<>> BY <1>3 DEF Elements
  <2>2. DOMAIN loop = {} BY <2>1
  <2> QED BY <1>1, <1>3, <2>2 DEF ForElements
<1> QED BY <1>2, <1>3

LEMMA NoPlaces ==
  ASSUME NEW r, regions[r].role \notin {"base", "array"}
  PROVE  PlacesIn(r) = {}
BY PlacesInAt DEF PlacesAt

LEMMA ArrayPlaces ==
  ASSUME NEW r, NEW t, NEW n, regions[r].role = "array", regions[r].type = t, regions[r].len = n
  PROVE  \A p : p \in PlacesIn(r) <=> ClassOf(t) # "table" /\ \E i \in 1 .. n : p \in Spots(<<r, i>>, t)
BY PlacesInAt DEF PlacesAt

(* A place that the call is to take its array from has been seen to, if all is sound. *)
LEMMA TakenStored ==
  ASSUME Inv, status = "ok", agenda # <<>>, First.do \in Releases,
         NEW v \in DOMAIN variables, Returning(v), First.at[1] \in DOMAIN regions,
         regions[First.at[1]].owner = v, NEW p \in PlacesIn(First.at[1]), SeenTo(p, "heaped")
  PROVE  p.at \in DOMAIN memory
<1>1. PlacesSettled BY DEF Inv
<1>2. \A i \in DOMAIN agenda : agenda[i].do \in Releases BY DEF Returning, Returns, Releases
<1>3. ~Pending(p) BY <1>2, NoneCovered DEF Pending
<1>4. OwnerOf(First.at[1]).place = "heaped" BY DEF OwnerOf, Returning
<1>5. SeenIn(p, First.at[1]) BY <1>3, <1>4 DEF SeenIn
<1> QED BY <1>1, <1>5 DEF PlacesSettled

LEMMA TasksAssociate ==
  ASSUME NEW p \in Seq(GoodTask), NEW q \in Seq(GoodTask), NEW s \in Seq(GoodTask)
  PROVE  (p \o q) \o s = p \o (q \o s)
BY p \in Seq(GoodTask), q \in Seq(GoodTask), s \in Seq(GoodTask)

(* The calls for an array and for what it is taken from. *)
LEMMA ArrayCalls ==
  ASSUME Inv, agenda # <<>>, First.do \in Releases, NEW a \in Nat, NEW loop \in Seq(GoodTask)
  PROVE  /\ (loop \o <<Free(a)>>) \o FreeBase = loop \o (<<Free(a)>> \o FreeBase)
         /\ Nested => loop \o <<Free(a)>> = loop \o (<<Free(a)>> \o FreeBase)
<1>1. First.type \in Types /\ First.at[1] \in Nat BY ReleaseKnown
<1>2. ASSUME NEW r \in Nat PROVE Free(r) \in GoodTask
  <2>1. PICK at : at = <<r>> OBVIOUS
  <2>2. at \in Seq(Nat) /\ at # <<>> /\ Free(r) = ToDo("free", First.type, at) BY <2>1 DEF Free
  <2> QED BY <1>1, <2>2, ToDoGood DEF Calls
<1>3. PICK f \in Seq(GoodTask) : f = <<Free(a)>>
  <2>1. PICK x \in GoodTask : x = Free(a) BY <1>2
  <2>2. <<x>> \in Seq(GoodTask) OBVIOUS
  <2> QED BY <2>1, <2>2
<1>4. PICK b \in Seq(GoodTask) : b = FreeBase
  <2>1. PICK x \in GoodTask : x = Free(First.at[1]) BY <1>1, <1>2
  <2>2. <<x>> \in Seq(GoodTask) /\ <<>> \in Seq(GoodTask) OBVIOUS
  <2> QED BY <2>1, <2>2 DEF FreeBase
<1>5. (loop \o f) \o b = loop \o (f \o b) BY TasksAssociate
<1>6. Nested => f \o b = f BY <1>4 DEF FreeBase
<1> QED BY <1>3, <1>4, <1>5, <1>6

(* What a vector that is given back is, when everything is in order. *)
LEMMA VectorTaken ==
  ASSUME Inv, status = "ok", agenda # <<>>, First.do = "dealloc", ClassOf(First.type) = "vector",
         NEW v \in DOMAIN variables, Returning(v), NEW t \in Types, t = First.type,
         NEW at \in Seq(Nat), at = First.at, NEW p, p = [at |-> at, type |-> t]
  PROVE  /\ Takes(First) = {p} /\ p.at = at /\ p.type = t
         /\ Orderly(v) /\ p \in PlacesIn(at[1]) => t \in OutsideTables[variables[v].type]
         /\ Orderly(v) /\ at \in DOMAIN memory => p \in PlacesIn(at[1])
<1>1. Typed /\ 1 \in DOMAIN agenda /\ First = agenda[1] BY ReleaseIs DEF Releases
<1>2. Spots(at, t) = {p} BY VectorSpots
<1>3. Takes(First) = {p} BY <1>2 DEF Takes
<1>4. ASSUME Orderly(v), p \in PlacesIn(at[1]) PROVE t \in OutsideTables[variables[v].type]
  <2>1. PICK r : r = at[1] OBVIOUS
  <2>2. regions[r].role \in {"base", "array"} BY <1>4, <2>1, NoPlaces
  <2> QED BY <1>1, <1>4, <2>1, <2>2 DEF Orderly
<1>5. ASSUME Orderly(v), at \in DOMAIN memory PROVE p \in PlacesIn(at[1]) BY <1>1, <1>3, <1>5 DEF Orderly
<1> QED BY <1>3, <1>4, <1>5

LEMMA VectorArray ==
  ASSUME Inv, NEW v \in DOMAIN variables, variables[v].place = "heaped", NEW r \in DOMAIN regions,
         regions[r].owner = v, NEW p \in PlacesIn(r), p.at \in DOMAIN memory,
         NEW t \in Types, p.type = t, ClassOf(t) = "vector", NEW a, a = memory[p.at]
  PROVE  /\ a \in DOMAIN regions /\ a \in Nat /\ a # 0 /\ regions[a].owner = v
         /\ Def[t].sized /\ regions[a].role = "array" /\ regions[a].type = ElementOf(t)
         /\ regions[a].len = IF Def[t].size = 0 THEN variables[v].count ELSE Def[t].size
<1>1. Typed /\ PointersLead BY DEF Inv
<1>2. p.at[1] = r BY <1>1, PlacesInTyped
<1>3. OwnerOf(r) = variables[v] BY DEF OwnerOf
<1>4. a \in DOMAIN regions /\ regions[a].owner = v /\ OwnerOf(a) = variables[v] /\ a \in Nat
  <2>1. OwnerOf(p.at[1]).place = "heaped" BY <1>2, <1>3
  <2> QED BY <1>2, <1>3, <2>1, PointsWithin
<1>5. Leads(p) BY <1>1 DEF PointersLead
<1>6. a # 0
  <2>1. regions \in Seq(Region) BY <1>1 DEF Typed, StorageOK
  <2> QED BY <1>4, <2>1
<1> QED BY <1>4, <1>5, <1>6 DEF Leads, SizeFor

(* The elements of an array of a variable that is given back: the calls for them take what
   was stored in them; and everything that was, unless a type excuses what is left. *)
LEMMA ElementsTaken ==
  ASSUME Inv, Tree, NEW v \in DOMAIN variables, variables[v].place = "heaped",
         NEW a \in DOMAIN regions, a \in Nat, regions[a].owner = v, NEW t \in Types,
         ClassOf(t) = "vector", t \in OutsideTables[variables[v].type], Def[t].sized,
         regions[a].role = "array", regions[a].type = ElementOf(t),
         regions[a].len = IF Def[t].size = 0 THEN variables[v].count ELSE Def[t].size,
         NEW loop, loop = Elements("dealloc", ElementOf(t), a, NumElem(t))
  PROVE  /\ \A i \in DOMAIN loop : \A q \in Takes(loop[i]) : q.at \in DOMAIN memory => q \in PlacesIn(a)
         /\ \/ HasTableInside(variables[v].type)
            \/ HasVariableLoop(variables[v].type)
            \/ \A p \in PlacesIn(a) : p.at \in DOMAIN memory => \E i \in DOMAIN loop : p \in Takes(loop[i])
         /\ ~Excused(variables[v]) =>
              \A i \in DOMAIN loop : Takes(loop[i]) \subseteq PlacesIn(a)
<1>1. Typed /\ Tree /\ StorageOK BY DEF Inv, Typed
<1>2. PICK e \in Types : e = ElementOf(t) BY ElementIsPart
<1>3. PICK n \in Nat : n = NumElem(t) BY <1>1, NumElemTyped
<1>4. PICK u \in Types : u = variables[v].type
  <2>1. variables \in Seq(Variable) BY <1>1 DEF StorageOK
  <2>2. PICK x \in Variable : x = variables[v] BY <2>1
  <2>3. x.type \in Types BY DEF Variable
  <2> QED BY <2>2, <2>3
<1>5. PICK len \in Nat : len = regions[a].len
  <2>1. regions \in Seq(Region) BY <1>1 DEF StorageOK
  <2>2. PICK x \in Region : x = regions[a] BY <2>1
  <2>3. x.len \in Nat BY DEF Region
  <2> QED BY <2>2, <2>3
<1>6. /\ \A i \in DOMAIN loop :
           /\ i \in 1 .. n /\ ClassOf(e) \in {"vector", "collection"}
           /\ \A p \in Takes(loop[i]) :
                p \in Spots(<<a, i>>, e) /\ ClassOf(p.type) = "vector" /\ p.at[1] = a /\ p.at[2] = i
                /\ p.type \in OutsideTables[e]
      /\ ClassOf(e) \in {"vector", "collection"} =>
           \A i \in 1 .. n : \A p \in Spots(<<a, i>>, e) :
             ClassOf(p.type) = "vector" => i \in DOMAIN loop /\ p \in Takes(loop[i])
  <2>1. loop = Elements("dealloc", e, a, n) BY <1>2, <1>3
  <2>2. ForElements(loop, e, a, n) BY <2>1, ElementLoop
  <2> QED BY <2>2 DEF ForElements
<1>7. \A p : p \in PlacesIn(a) <=> ClassOf(e) # "table" /\ \E i \in 1 .. len : p \in Spots(<<a, i>>, e)
  BY <1>2, <1>5, ArrayPlaces
<1>8. ASSUME NEW i \in Nat, NEW p \in Spots(<<a, i>>, e)
      PROVE  /\ p.at[1] = a /\ p.at[2] = i /\ p.type \in OutsideTables[e] /\ p.type \in Pointers
             /\ ClassOf(e) \notin {"primitive", "address"}
  <2>1. PICK at \in Seq(Nat) : at = <<a, i>>
    <3>1. <<a, i>> \in Seq(Nat) OBVIOUS
    <3> QED BY <3>1
  <2>2. Len(at) = 2 /\ at[1] = a /\ at[2] = i /\ at # <<>> BY <2>1
  <2>3. p \in Spots(at, e) BY <1>8, <2>1
  <2>4. p.type \in OutsideTables[e] /\ \A k \in 1 .. Len(at) : p.at[k] = at[k] BY <2>3, SpotPrefix
  <2>5. p \in Spot /\ ClassOf(e) \notin {"primitive", "address"} BY <2>2, <2>3, SpotsTyped
  <2> QED BY <2>2, <2>4, <2>5 DEF Spot
<1>9. ASSUME NEW i \in DOMAIN loop, NEW q \in Takes(loop[i]), q.at \in DOMAIN memory
      PROVE  q \in PlacesIn(a)
  <2>1. q.at[1] = a /\ q.at[2] = i /\ q \in Spots(<<a, i>>, e) /\ i \in Nat BY <1>6, <1>9
  <2>2. OwnerOf(q.at[1]).place = "heaped" BY <2>1 DEF OwnerOf
  <2>3. PICK p \in PlacesIn(q.at[1]) : p.at = q.at BY <1>1, <1>9, <2>2 DEF Tree, StoredInPlaces
  <2>4. PICK j \in 1 .. len : p \in Spots(<<a, j>>, e) BY <1>7, <2>1, <2>3
  <2>5. p.at[2] = j BY <1>8, <2>4
  <2>6. j = i BY <2>1, <2>3, <2>5
  <2>7. PICK at \in Seq(Nat) : at = <<a, i>>
    <3>1. <<a, i>> \in Seq(Nat) BY <2>1
    <3> QED BY <3>1
  <2>8. p = q BY <2>1, <2>3, <2>4, <2>6, <2>7, SameSpot
  <2> QED BY <2>1, <2>3, <2>8
<1>10. e \in OutsideTables[u] /\ OutsideTables[e] \subseteq OutsideTables[u]
       /\ OutsideTables[u] \subseteq Within[u] /\ u \in OutsideTables[u] /\ ClassOf(u) # "table"
  <2>1. Def[t].parts[1] = e /\ 1 \in DOMAIN Def[t].parts
    <3>1. Len(Def[t].parts) = 1 BY DefAssumption DEF ClassOf
    <3> QED BY <1>2, <3>1, DefTyped DEF ElementOf
  <2>2. e \in OutsideTables[u] BY <1>4, <2>1, OutsideParts
  <2>3. OutsideTables[e] \subseteq OutsideTables[u] BY <2>2, OutsideOfOutside
  <2>4. ClassOf(u) # "table"
    <3>1. CASE ClassOf(u) = "table"
      <4>1. OutsideTables[u] = {u} BY <3>1, OutsideLeaf
      <4> QED BY <1>4, <3>1, <4>1
    <3> QED BY <3>1
  <2> QED BY <2>2, <2>3, <2>4, OutsideIsWithin, OutsideIs
<1>11. ASSUME NEW q, q.type \in OutsideTables[e], ClassOf(q.type) = "vector", Def[t].size = 0
       PROVE  HasVariableLoop(u)
  <2>1. HasVector(ElementOf(t)) BY <1>2, <1>11 DEF HasVector
  <2> QED BY <1>4, <1>11, <2>1 DEF HasVariableLoop
<1>12. ASSUME ~HasTableInside(u), ~HasVariableLoop(u), NEW p \in PlacesIn(a)
       PROVE  \E i \in DOMAIN loop : p \in Takes(loop[i])
  <2>1. PICK i \in 1 .. len : p \in Spots(<<a, i>>, e) BY <1>7
  <2>2. p.type \in OutsideTables[e] /\ p.type \in Pointers /\ ClassOf(e) \notin {"primitive", "address", "table"}
    BY <1>7, <1>8, <2>1
  <2>3. ClassOf(p.type) = "vector"
    <3>1. CASE ClassOf(p.type) = "table"
      <4>1. p.type \in Within[u] /\ p.type # u BY <1>10, <2>2, <3>1
      <4> QED BY <1>12, <3>1, <4>1 DEF HasTableInside
    <3> QED BY <2>2, <3>1 DEF Pointers
  <2>4. Def[t].size # 0 BY <1>11, <1>12, <2>2, <2>3
  <2>5. n = len BY <1>3, <1>5, <2>4 DEF NumElem
  <2>6. ClassOf(e) \in {"vector", "collection"} BY <2>2, DefTyped DEF ClassOf, Classes
  <2> QED BY <1>6, <2>1, <2>3, <2>5, <2>6
<1>13. ASSUME ~Excused(variables[v]), NEW i \in DOMAIN loop, NEW q \in Takes(loop[i])
       PROVE  q \in PlacesIn(a)
  <2>1. i \in 1 .. n /\ q \in Spots(<<a, i>>, e) /\ ClassOf(q.type) = "vector" /\ q.type \in OutsideTables[e]
        /\ ClassOf(e) # "table"
    BY <1>6, <1>13
  <2>2. n <= len
    <3>1. CASE Def[t].size # 0 BY <1>3, <1>5, <3>1 DEF NumElem
    <3>2. CASE Def[t].size = 0
      <4>1. HasVariableLoop(u) BY <1>11, <2>1, <3>2
      <4>2. ~(count > variables[v].count) BY <1>4, <1>13, <4>1 DEF Excused
      <4>3. n = count /\ len = variables[v].count BY <1>3, <1>5, <3>2 DEF NumElem
      <4> QED BY <4>2, <4>3
    <3> QED BY <3>1, <3>2
  <2>3. i \in 1 .. len BY <2>1, <2>2
  <2> QED BY <1>7, <2>1, <2>3
<1> QED BY <1>4, <1>9, <1>12, <1>13

LEMMA VectorGives ==
  ASSUME Inv, Tree, DeallocVector, Stays, NEW v \in DOMAIN variables, Returning(v)
  PROVE  HandsOn(v)
<1>1. /\ status = "ok" /\ agenda # <<>> /\ First.do = "dealloc" /\ ClassOf(First.type) = "vector"
      /\ Readable(First.at) /\ First.do \in Releases
      /\ agenda' = ((Elements("dealloc", ElementOf(First.type), PointsTo(First.at), NumElem(First.type))
                      \o <<Free(PointsTo(First.at))>>) \o FreeBase) \o Rest
  BY DEF DeallocVector, Doing, GoOn, Class, Releases
<1>2. /\ Typed /\ 1 \in DOMAIN agenda /\ First = agenda[1] /\ First \in GoodTask
      /\ First.type \in Types /\ First.at \in Seq(Nat) /\ First.at # <<>> /\ First.at[1] \in Nat
      /\ Returns(First, variables[v]) /\ variables[v].type \in Types /\ variables[v].place = "heaped"
  BY <1>1, ReleaseIs
<1>3. PICK at \in Seq(Nat) : at = First.at BY <1>2
<1>4. PICK t \in Types : t = First.type BY <1>2
<1>5. PICK a \in Nat : a = PointsTo(First.at) BY <1>1, PointedKnown
<1>6. PICK e \in Types : e = ElementOf(t) BY <1>1, <1>4, ElementIsPart
<1>7. PICK n \in Nat : n = NumElem(t) BY <1>2, NumElemTyped
<1>8. PICK loop : loop = Elements("dealloc", e, a, n) OBVIOUS
<1>9. PICK back : back = <<Free(a)>> \o FreeBase OBVIOUS
<1>10. loop \in Seq(GoodTask) /\ ForElements(loop, e, a, n) BY <1>8, ElementLoop
<1>11. agenda' = (loop \o back) \o Rest
  <2>1. (loop \o <<Free(a)>>) \o FreeBase = loop \o back BY <1>1, <1>9, <1>10, ArrayCalls
  <2>2. agenda' = ((loop \o <<Free(a)>>) \o FreeBase) \o Rest BY <1>1, <1>4, <1>5, <1>6, <1>7, <1>8
  <2> QED BY <2>1, <2>2
<1>12. e \in GivenBack(variables[v].type)
  <2>1. t \in GivenBack(variables[v].type) BY <1>1, <1>2, <1>4 DEF Returns
  <2>2. Def[t].parts[1] = e /\ 1 \in DOMAIN Def[t].parts
    <3>1. Len(Def[t].parts) = 1 BY <1>1, <1>4, DefAssumption DEF ClassOf
    <3> QED BY <1>6, <3>1, DefTyped DEF ElementOf
  <2> QED BY <1>1, <1>2, <1>4, <2>1, <2>2, GivenBackParts
<1>13. \A i \in DOMAIN loop : Returns(loop[i], variables[v]) /\ Len(loop[i].at) > 1
  BY <1>10, <1>12 DEF Returns, ForElements
<1>14. PICK p : p = [at |-> at, type |-> t] OBVIOUS
<1>15. /\ Takes(First) = {p} /\ p.at = at /\ p.type = t
       /\ Orderly(v) /\ p \in PlacesIn(at[1]) => t \in OutsideTables[variables[v].type]
       /\ Orderly(v) /\ at \in DOMAIN memory => p \in PlacesIn(at[1])
  BY <1>1, <1>3, <1>4, <1>14, VectorTaken
<1>16. ASSUME Orderly(v)
       PROVE  at[1] \in DOMAIN regions /\ regions[at[1]].owner = v
  BY <1>2, <1>3, <1>16 DEF Orderly
<1>17. at \in DOMAIN memory => a = memory[at] BY <1>3, <1>5 DEF PointsTo
<1>18. ASSUME Orderly(v), at \in DOMAIN memory
       PROVE  /\ Gives(v, loop, back, a)
              /\ ~Excused(variables[v]) =>
                   \A i \in DOMAIN loop : Takes(loop[i]) \subseteq PlacesIn(loop[i].at[1])
  <2>1. PICK r \in DOMAIN regions : r = at[1] BY <1>16, <1>18
  <2>2. p \in PlacesIn(r) /\ t \in OutsideTables[variables[v].type] /\ regions[r].owner = v
    BY <1>15, <1>16, <1>18, <2>1
  <2>3. p.at \in DOMAIN memory /\ p.type = t /\ ClassOf(t) = "vector" /\ a = memory[p.at]
    BY <1>1, <1>4, <1>15, <1>17, <1>18
  <2>4. /\ a \in DOMAIN regions /\ a \in Nat /\ a # 0 /\ regions[a].owner = v
        /\ Def[t].sized /\ regions[a].role = "array" /\ regions[a].type = ElementOf(t)
        /\ regions[a].len = IF Def[t].size = 0 THEN variables[v].count ELSE Def[t].size
    <3>1. /\ variables[v].place = "heaped" /\ regions[r].owner = v /\ p \in PlacesIn(r)
          /\ p.at \in DOMAIN memory /\ p.type = t /\ ClassOf(t) = "vector" /\ a = memory[p.at]
      BY <1>2, <2>2, <2>3
    <3> QED BY <3>1, VectorArray
  <2>5. loop = Elements("dealloc", ElementOf(t), a, NumElem(t)) BY <1>6, <1>7, <1>8
  <2>6. /\ \A i \in DOMAIN loop : \A q \in Takes(loop[i]) : q.at \in DOMAIN memory => q \in PlacesIn(a)
        /\ \/ HasTableInside(variables[v].type)
           \/ HasVariableLoop(variables[v].type)
           \/ \A q \in PlacesIn(a) : q.at \in DOMAIN memory => \E i \in DOMAIN loop : q \in Takes(loop[i])
        /\ ~Excused(variables[v]) =>
             \A i \in DOMAIN loop : Takes(loop[i]) \subseteq PlacesIn(a)
    BY <1>2, <2>2, <2>3, <2>4, <2>5, ElementsTaken
  <2>7. e \in OutsideTables[variables[v].type]
    <3>1. Def[t].parts[1] = e /\ 1 \in DOMAIN Def[t].parts
      <4>1. Len(Def[t].parts) = 1 BY <1>1, <1>4, DefAssumption DEF ClassOf
      <4> QED BY <1>6, <4>1, DefTyped DEF ElementOf
    <3> QED BY <1>2, <2>2, <2>3, <3>1, OutsideParts
  <2>8. \A i, j \in DOMAIN loop : \A q \in Takes(loop[i]), s \in Takes(loop[j]) : q.at = s.at => i = j
    <3>1. \A i \in DOMAIN loop : \A q \in Takes(loop[i]) : q.at[2] = i BY <1>10 DEF ForElements
    <3> QED BY <3>1
  <2>9. \A i \in DOMAIN loop : loop[i].at[1] = a /\ loop[i].type = e BY <1>10 DEF ForElements
  <2>10. \A i \in DOMAIN loop :
           /\ Returns(loop[i], variables[v]) /\ Len(loop[i].at) > 1
           /\ loop[i].do = "dealloc" =>
                \/ loop[i].type \in OutsideTables[variables[v].type]
                \/ regions[loop[i].at[1]].role = "field"
    BY <1>13, <2>7, <2>9
  <2>11. \E q : Takes(First) = {q} /\ q.at \in DOMAIN memory /\ memory[q.at] = a BY <1>15, <2>3
  <2>12. /\ status = "ok" /\ agenda # <<>> /\ First.do \in {"dealloc", "field"}
         /\ loop \in Seq(GoodTask) /\ a \in Nat /\ agenda' = (loop \o back) \o Rest
         /\ UNCHANGED <<regions, memory, variables, count, built>>
    BY <1>1, <1>10, <1>11 DEF Stays
  <2>13. Gives(v, loop, back, a) BY <1>9, <2>4, <2>6, <2>8, <2>9, <2>10, <2>11, <2>12 DEF Gives
  <2> QED BY <2>6, <2>9, <2>13
<1>19. ASSUME Orderly(v), at \notin DOMAIN memory PROVE a = 0 BY <1>3, <1>5, <1>19 DEF PointsTo
<1>20. ASSUME Orderly(v), ~Excused(variables[v]), Sound(v) PROVE at \in DOMAIN memory
  <2>1. p \in PlacesIn(at[1]) BY <1>2, <1>3, <1>15, <1>20 DEF Sound
  <2>2. t \in OutsideTables[variables[v].type] BY <1>15, <1>20, <2>1
  <2>3. Def[t].sized
    <3>1. ~HasOpenSize(variables[v].type) BY <1>20 DEF Excused
    <3> QED BY <1>1, <1>4, <2>2, <3>1 DEF HasOpenSize, IsOpen
  <2>4. SeenTo(p, "heaped") BY <1>1, <1>4, <1>15, <2>3 DEF SeenTo
  <2>5. p \in PlacesIn(First.at[1]) /\ First.at[1] \in DOMAIN regions /\ regions[First.at[1]].owner = v
    BY <1>3, <1>16, <1>20, <2>1
  <2>6. p.at \in DOMAIN memory BY <1>1, <2>4, <2>5, TakenStored
  <2> QED BY <1>15, <2>6
<1>21. IsFrees(back, a) BY <1>9 DEF IsFrees
<1>22. Orderly(v) => Gives(v, loop, back, a) \/ (a = 0 /\ back = <<Free(a)>> \o FreeBase)
  BY <1>9, <1>18, <1>19
<1>23. Orderly(v) /\ ~Excused(variables[v]) /\ Sound(v) =>
         /\ Gives(v, loop, back, a)
         /\ \A i \in DOMAIN loop : Takes(loop[i]) \subseteq PlacesIn(loop[i].at[1])
  BY <1>18, <1>20
<1>24. GoesOn(v, loop, back, a) BY <1>10, <1>11, <1>13, <1>21, <1>22, <1>23 DEF GoesOn
<1> QED BY <1>24 DEF HandsOn

LEMMA FieldGives ==
  ASSUME Inv, Tree, DeallocField, Stays, NEW v \in DOMAIN variables, Returning(v)
  PROVE  HandsOn(v)
<1>1. /\ status = "ok" /\ agenda # <<>> /\ First.do = "field" /\ ClassOf(First.type) = "table"
      /\ Readable(First.at) /\ First.do \in Releases
      /\ agenda' = (Elements("dealloc", Def[First.type].parts[First.at[Len(First.at)]],
                             PointsTo(First.at), NumElem(First.type))
                      \o <<Free(PointsTo(First.at))>>) \o Rest
  BY Zenon DEF DeallocField, Doing, GoOn, Class, Releases
<1>2. /\ Typed /\ 1 \in DOMAIN agenda /\ First = agenda[1] /\ First \in GoodTask
      /\ First.type \in Types /\ First.at \in Seq(Nat) /\ First.at # <<>> /\ First.at[1] \in Nat
      /\ Returns(First, variables[v]) /\ variables[v].type \in Types /\ variables[v].place = "heaped"
  BY <1>1, ReleaseIs, Zenon
<1>3. PICK at \in Seq(Nat) : at = First.at BY <1>2
<1>4. PICK t \in Types : t = First.type BY <1>2
<1>5. PICK a \in Nat : a = PointsTo(First.at) BY <1>1, PointedKnown, Zenon
<1>6. PICK f : f \in DOMAIN Def[t].parts /\ f = at[Len(at)] BY <1>1, <1>2, <1>3, <1>4, Zenon DEF GoodTask
<1>7. PICK e \in Types : e = Def[t].parts[f] BY <1>6, DefTyped
<1>8. PICK n \in Nat : n = NumElem(t) BY <1>2, NumElemTyped
<1>9. PICK loop : loop = Elements("dealloc", e, a, n) OBVIOUS
<1>10. PICK back : back = <<Free(a)>> \o FreeBase OBVIOUS
<1>11. loop \in Seq(GoodTask) /\ ForElements(loop, e, a, n) BY <1>9, ElementLoop
<1>12. Nested
  <2>1. PICK k : k = Len(First.at) BY Zenon
  <2>2. k = 2 BY <1>1, <1>2, <2>1, Zenon DEF Returns
  <2>3. k > 1 BY <2>2
  <2> QED BY <2>1, <2>3 DEF Nested
<1>13. agenda' = (loop \o back) \o Rest
  <2>1. loop \o <<Free(a)>> = loop \o back BY <1>1, <1>10, <1>11, <1>12, ArrayCalls, Zenon
  <2>2. agenda' = (loop \o <<Free(a)>>) \o Rest BY <1>1, <1>3, <1>4, <1>5, <1>6, <1>7, <1>8, <1>9, Zenon
  <2> QED BY <2>1, <2>2
<1>14. PICK u \in Types : u = variables[v].type BY <1>2, Zenon
<1>15. t = u BY <1>1, <1>2, <1>4, <1>14, Zenon DEF Returns
<1>16. e \in PartsOf(u) BY <1>6, <1>7, <1>15, Zenon DEF PartsOf
<1>17. e \in GivenBack(u)
  <2>1. e \in OutsideTables[e] BY OutsideIs
  <2> QED BY <1>1, <1>4, <1>15, <1>16, <2>1, Zenon DEF GivenBack
<1>18. \A i \in DOMAIN loop : Returns(loop[i], variables[v]) /\ Len(loop[i].at) > 1
  BY <1>11, <1>14, <1>17 DEF Returns, ForElements
<1>19. PICK p : p = [at |-> at, type |-> t] OBVIOUS
<1>20. Takes(First) = {p} /\ p.at = at /\ p.type = t BY <1>1, <1>3, <1>4, <1>19, Zenon DEF Takes
<1>21. ASSUME Orderly(v)
       PROVE  /\ at[1] \in DOMAIN regions /\ regions[at[1]].owner = v
              /\ at \in DOMAIN memory => p \in PlacesIn(at[1])
  BY <1>2, <1>3, <1>20, <1>21 DEF Orderly
<1>22. at \in DOMAIN memory => a = memory[at] BY <1>3, <1>5 DEF PointsTo
<1>23. ASSUME Orderly(v), at \in DOMAIN memory
       PROVE  Gives(v, loop, back, a) /\ PlacesIn(a) = {}
  <2>1. PICK r \in DOMAIN regions : r = at[1] BY <1>21, <1>23
  <2>2. p \in PlacesIn(r) /\ regions[r].owner = v /\ p.at \in DOMAIN memory BY <1>20, <1>21, <1>23, <2>1
  <2>3. Leads(p) BY <2>2 DEF Inv, PointersLead
  <2>4. memory[p.at] = a BY <1>20, <1>22, <1>23, Zenon
  <2>5. regions[a].role = "field" BY <1>1, <1>4, <1>20, <2>3, <2>4, Zenon DEF Leads
  <2>6. PlacesIn(a) = {} BY <2>5, NoPlaces
  <2>7. a # 0 /\ a \in DOMAIN regions /\ regions[a].owner = v
    <3>1. OwnerOf(at[1]).place = "heaped" BY <1>2, <2>1, <2>2 DEF OwnerOf
    <3>2. a \in DOMAIN regions /\ regions[a].owner = v BY <1>20, <2>1, <2>2, <2>4, <3>1, PointsWithin
    <3>3. regions \in Seq(Region) BY <1>2 DEF Typed, StorageOK
    <3> QED BY <3>2, <3>3
  <2>8. ASSUME NEW i \in DOMAIN loop, NEW q \in Takes(loop[i]), q.at \in DOMAIN memory
        PROVE  q \in PlacesIn(a)
    <3>1. q.at[1] = a BY <1>11, <2>8 DEF ForElements
    <3>2. OwnerOf(q.at[1]).place = "heaped" BY <1>2, <2>7, <3>1 DEF OwnerOf
    <3>3. \E s \in PlacesIn(q.at[1]) : s.at = q.at BY <2>8, <3>2 DEF Tree, StoredInPlaces
    <3> QED BY <2>6, <3>1, <3>3
  <2>9. \A i, j \in DOMAIN loop : \A q \in Takes(loop[i]), s \in Takes(loop[j]) : q.at = s.at => i = j
    <3>1. \A i \in DOMAIN loop : \A q \in Takes(loop[i]) : q.at[2] = i BY <1>11 DEF ForElements
    <3> QED BY <3>1
  <2>10. \A i \in DOMAIN loop : loop[i].at[1] = a BY <1>11 DEF ForElements
  <2>11. \A i \in DOMAIN loop :
           /\ Returns(loop[i], variables[v]) /\ Len(loop[i].at) > 1
           /\ loop[i].do = "dealloc" =>
                \/ loop[i].type \in OutsideTables[variables[v].type]
                \/ regions[loop[i].at[1]].role = "field"
    BY <1>18, <2>5, <2>10
  <2>12. \E q : Takes(First) = {q} /\ q.at \in DOMAIN memory /\ memory[q.at] = a BY <1>20, <2>2, <2>4, Zenon
  <2>13. /\ status = "ok" /\ agenda # <<>> /\ First.do \in {"dealloc", "field"}
         /\ loop \in Seq(GoodTask) /\ a \in Nat /\ agenda' = (loop \o back) \o Rest
         /\ UNCHANGED <<regions, memory, variables, count, built>>
    BY <1>1, <1>11, <1>13, Zenon DEF Stays
  <2>14. Gives(v, loop, back, a) BY <1>10, <2>6, <2>7, <2>8, <2>9, <2>10, <2>11, <2>12, <2>13 DEF Gives
  <2> QED BY <2>6, <2>14
<1>24. ASSUME Orderly(v), at \notin DOMAIN memory PROVE a = 0 BY <1>3, <1>5, <1>24 DEF PointsTo
<1>25. ASSUME Orderly(v), ~Excused(variables[v]), Sound(v)
       PROVE  at \in DOMAIN memory /\ \A i \in DOMAIN loop : Takes(loop[i]) = {}
  <2>1. p \in PlacesIn(at[1]) BY <1>2, <1>3, <1>20, <1>25, Zenon DEF Sound
  <2>2. SeenTo(p, "heaped") BY <1>1, <1>4, <1>20, Zenon DEF SeenTo
  <2>3. p \in PlacesIn(First.at[1]) /\ First.at[1] \in DOMAIN regions /\ regions[First.at[1]].owner = v
    BY <1>3, <1>21, <1>25, <2>1, Zenon
  <2>4. p.at \in DOMAIN memory BY <1>1, <2>2, <2>3, TakenStored, Zenon
  <2>5. ~HasVector(e) BY <1>1, <1>4, <1>14, <1>15, <1>16, <1>25, Zenon DEF Excused, TableOfVectors
  <2>6. \A i \in DOMAIN loop : Takes(loop[i]) = {}
    <3>1. \A i \in DOMAIN loop : \A q \in Takes(loop[i]) :
            ClassOf(q.type) = "vector" /\ q.type \in OutsideTables[e]
      BY <1>11 DEF ForElements
    <3>2. \A i \in DOMAIN loop : \A q \in Takes(loop[i]) : FALSE BY <2>5, <3>1 DEF HasVector
    <3> QED BY <3>2
  <2> QED BY <1>20, <2>4, <2>6
<1>26. IsFrees(back, a) BY <1>10 DEF IsFrees
<1>27. Orderly(v) => Gives(v, loop, back, a) \/ (a = 0 /\ back = <<Free(a)>> \o FreeBase)
  BY <1>10, <1>23, <1>24
<1>28. Orderly(v) /\ ~Excused(variables[v]) /\ Sound(v) =>
         /\ Gives(v, loop, back, a)
         /\ \A i \in DOMAIN loop : Takes(loop[i]) \subseteq PlacesIn(loop[i].at[1])
  BY <1>23, <1>25
<1>29. GoesOn(v, loop, back, a) BY <1>11, <1>13, <1>18, <1>26, <1>27, <1>28 DEF GoesOn
<1> QED BY <1>29, Zenon DEF HandsOn

(* What a step does to what calls take, and to the places there are. *)
LEMMA TakesPrimed ==
  \A i : Takes(agenda[i])' = Takes(agenda'[i])
BY DEF Takes, Spots

LEMMA PlacesPrimed ==
  ASSUME regions' = regions
  PROVE  \A i : PlacesIn(agenda[i].at[1])' = PlacesIn(agenda'[i].at[1])
BY DEF PlacesIn

(* Giving back goes on until the end. *)
LEMMA HandsOnKeeps ==
  ASSUME Inv, Tree, status = "ok", agenda # <<>>, First.do \in {"dealloc", "field"}, Stays,
         NEW v \in DOMAIN variables, Giving(v), HandsOn(v)
  PROVE  Giving(v)'
<1>1. PICK loop, back, a : GoesOn(v, loop, back, a) BY DEF HandsOn
<1>2. /\ loop \in Seq(GoodTask) /\ a \in Nat /\ IsFrees(back, a) /\ agenda' = (loop \o back) \o Rest
      /\ \A i \in DOMAIN loop : Returns(loop[i], variables[v]) /\ Len(loop[i].at) > 1
  BY <1>1 DEF GoesOn
<1>3. Returning(v) /\ (Doomed \/ (Orderly(v) /\ Owed(v))) /\ Sound(v) /\ First.do \in Releases
  BY DEF Giving, Releases
<1>4. /\ back \in Seq(GoodTask)
      /\ \A i \in DOMAIN back :
           /\ back[i].do = "free" /\ Len(back[i].at) = 1 /\ Takes(back[i]) = {}
           /\ \/ back[i].at[1] = First.at[1] /\ ~Nested
              \/ back # FreeBase /\ back[i].at[1] = a
      /\ back # FreeBase => \E i \in DOMAIN back : back[i].at[1] = a
      /\ ~Nested => back # <<>> /\ back[Len(back)].at[1] = First.at[1]
  BY <1>2, <1>3, FreesAre
<1>5. Typed /\ variables' = variables /\ regions' = regions /\ count' = count BY DEF Inv, Stays
<1>6. PICK tasks \in Seq(GoodTask) : tasks = loop \o back BY <1>2, <1>4, Joined
<1>7. /\ Len(loop) \in Nat /\ Len(back) \in Nat
      /\ DOMAIN tasks = 1 .. Len(tasks) /\ Len(tasks) = Len(loop) + Len(back)
      /\ \A i \in DOMAIN tasks :
           \/ i <= Len(loop) /\ i \in DOMAIN loop /\ tasks[i] = loop[i]
           \/ i > Len(loop) /\ i - Len(loop) \in DOMAIN back /\ tasks[i] = back[i - Len(loop)]
      /\ \A i \in DOMAIN back : Len(loop) + i \in DOMAIN tasks /\ tasks[Len(loop) + i] = back[i]
  BY <1>2, <1>4, <1>6, Joined
<1>8. ASSUME NEW i \in DOMAIN tasks
      PROVE  Returns(tasks[i], variables[v]) /\ (tasks[i].do = "dealloc" => Len(tasks[i].at) # 1)
  <2>1. CASE i \in DOMAIN loop /\ tasks[i] = loop[i]
    <3>1. loop[i] \in GoodTask BY <1>2, <2>1
    <3>2. Len(loop[i].at) # 1 BY <1>2, <2>1, <3>1, LongerThanOne
    <3> QED BY <1>2, <2>1, <3>2
  <2>2. CASE i - Len(loop) \in DOMAIN back /\ tasks[i] = back[i - Len(loop)] BY <1>4, <2>2 DEF Returns
  <2> QED BY <1>7, <2>1, <2>2
<1>9. \/ Nested
      \/ /\ tasks # <<>> /\ tasks[Len(tasks)].at[1] = First.at[1]
         /\ Len(tasks[Len(tasks)].at) = 1
  <2>1. CASE ~Nested
    <3>1. Len(back) \in DOMAIN back BY <1>4, <2>1
    <3>2. tasks[Len(tasks)] = back[Len(back)] /\ Len(tasks) \in DOMAIN tasks BY <1>7, <3>1
    <3>3. tasks # <<>> BY <3>2
    <3> QED BY <1>4, <2>1, <3>1, <3>2, <3>3
  <2> QED BY <2>1
<1>10. agenda' = tasks \o Rest BY <1>2, <1>6
<1>11. Returning(v)' BY <1>3, <1>5, <1>8, <1>9, <1>10, StaysReturning
<1>12. ASSUME Doomed PROVE Doomed' BY <1>3, <1>5, <1>10, <1>12, StaysDoomed
<1>13. ASSUME a = 0, back = <<Free(a)>> \o FreeBase PROVE Doomed'
  <2>1. back # FreeBase BY <1>4, <1>13, MoreThanBase
  <2>2. PICK j \in DOMAIN back : back[j].at[1] = a /\ back[j].do = "free" BY <1>4, <2>1
  <2>3. Len(loop) + j \in DOMAIN agenda' /\ agenda'[Len(loop) + j] = back[j] BY <1>2, <1>4, <1>5, AgendaParts
  <2>4. PICK k \in DOMAIN agenda' : agenda'[k] = back[j] BY <2>3
  <2> QED BY <1>13, <2>2, <2>4 DEF Doomed
<1>14. ASSUME Orderly(v), Owed(v), Gives(v, loop, back, a) PROVE Orderly(v)' /\ Owed(v)'
  BY <1>3, <1>14, GivesOrderly, GivesOwed
<1>15. (Doomed \/ (Orderly(v) /\ Owed(v)))'
  <2>1. Orderly(v) => Gives(v, loop, back, a) \/ (a = 0 /\ back = <<Free(a)>> \o FreeBase) BY <1>1 DEF GoesOn
  <2> QED BY <1>3, <1>12, <1>13, <1>14, <2>1
<1>16. Excused(variables[v])' <=> Excused(variables[v]) BY <1>5 DEF Excused
<1>17. ASSUME ~Excused(variables[v])
       PROVE  (~Doomed /\ \A i \in DOMAIN agenda : Takes(agenda[i]) \subseteq PlacesIn(agenda[i].at[1]))'
  <2>1. ~Doomed /\ \A i \in DOMAIN agenda : Takes(agenda[i]) \subseteq PlacesIn(agenda[i].at[1])
    BY <1>3, <1>17 DEF Sound
  <2>2. Orderly(v) BY <1>3, <2>1
  <2>3. /\ Gives(v, loop, back, a)
        /\ \A i \in DOMAIN loop : Takes(loop[i]) \subseteq PlacesIn(loop[i].at[1])
    BY <1>1, <1>3, <1>17, <2>2 DEF GoesOn
  <2>4. First.at[1] # 0
    <3>1. First.at[1] \in DOMAIN regions /\ regions \in Seq(Region)
      BY <1>3, <1>5, <2>2, ReleaseIs DEF Orderly, Typed, StorageOK
    <3> QED BY <3>1
  <2>5. back # FreeBase => a # 0 BY <2>3 DEF Gives
  <2>6. ASSUME NEW i \in DOMAIN agenda'
        PROVE  /\ ~(agenda'[i].do = "free" /\ agenda'[i].at[1] = 0)
               /\ Takes(agenda'[i]) \subseteq PlacesIn(agenda'[i].at[1])
    <3>1. \/ i \in DOMAIN loop /\ agenda'[i] = loop[i]
          \/ \E j \in DOMAIN back : i = Len(loop) + j /\ agenda'[i] = back[j]
          \/ \E k \in DOMAIN agenda :
               k > 1 /\ i = Len(loop) + Len(back) + k - 1 /\ agenda'[i] = agenda[k]
      <4>1. agenda # <<>> /\ Typed /\ agenda' = (loop \o back) \o Rest BY <1>2, <1>5
      <4>2. \A m \in DOMAIN agenda' :
              \/ m \in DOMAIN loop /\ agenda'[m] = loop[m]
              \/ \E j \in DOMAIN back : m = Len(loop) + j /\ agenda'[m] = back[j]
              \/ \E k \in DOMAIN agenda :
                   k > 1 /\ m = Len(loop) + Len(back) + k - 1 /\ agenda'[m] = agenda[k]
        BY <1>2, <1>4, <4>1, AgendaParts
      <4> QED BY <2>6, <4>2
    <3>2. CASE i \in DOMAIN loop /\ agenda'[i] = loop[i]
      <4>1. loop[i] \in GoodTask BY <1>2, <3>2
      <4>2. Len(loop[i].at) # 1 BY <1>2, <3>2, <4>1, LongerThanOne
      <4>3. loop[i].do # "free" BY <1>2, <3>2, <4>2 DEF Returns
      <4> QED BY <2>3, <3>2, <4>3
    <3>3. CASE \E j \in DOMAIN back : agenda'[i] = back[j] BY <1>4, <2>4, <2>5, <3>3
    <3>4. CASE \E k \in DOMAIN agenda : agenda'[i] = agenda[k] BY <2>1, <3>4 DEF Doomed
    <3> QED BY <3>1, <3>2, <3>3, <3>4
  <2>7. ~Doomed' BY <2>6 DEF Doomed
  <2> QED BY <1>5, <2>6, <2>7, TakesPrimed, PlacesPrimed
<1>18. Sound(v)'
  <2>1. Excused(variables[v])' => Sound(v)' BY DEF Sound
  <2>2. (~Doomed /\ \A i \in DOMAIN agenda : Takes(agenda[i]) \subseteq PlacesIn(agenda[i].at[1]))' => Sound(v)'
    BY DEF Sound
  <2> QED BY <1>16, <1>17, <2>1, <2>2
<1> QED BY <1>11, <1>15, <1>18 DEF Giving

(* Calls that give back, and what comes to them. *)
LEMMA DeallocationGives ==
  ASSUME Inv, Tree, Deallocation \/ (Skip /\ First.do = "dealloc" /\ UNCHANGED <<variables, count, status>>),
         NEW v \in DOMAIN variables, Giving(v)
  PROVE  Giving(v)'
<1>1. Returning(v) BY DEF Giving
<1>2. CASE Deallocation
  <2>1. Stays BY <1>2 DEF Deallocation, Stays
  <2>2. HandsOn(v)
    BY <1>1, <1>2, <2>1, PlainGives, CollectionGives, VectorGives, TableGives, FieldGives DEF Deallocation
  <2>3. status = "ok" /\ agenda # <<>> /\ First.do \in {"dealloc", "field"}
    BY <1>2 DEF Deallocation, DeallocPlain, DeallocCollection, DeallocVector, DeallocTable, DeallocField, Doing
  <2> QED BY <2>1, <2>2, <2>3, HandsOnKeeps
<1>3. CASE Skip /\ First.do = "dealloc" /\ UNCHANGED <<variables, count, status>>
  <2>1. Stays BY <1>3 DEF Skip, Stays
  <2>2. HandsOn(v) BY <1>1, <1>3, <2>1, SkipGives
  <2>3. status = "ok" /\ agenda # <<>> /\ First.do \in {"dealloc", "field"} BY <1>3 DEF Skip, Doing
  <2> QED BY <2>1, <2>2, <2>3, HandsOnKeeps
<1> QED BY <1>2, <1>3

LEMMA FreeMeans ==
  ASSUME Inv, FreeStepped, NEW v \in DOMAIN variables, Returning(v), NEW r, r = First.at[1]
  PROVE  Frees(r)
<1>1. /\ agenda # <<>> /\ First.do = "free" /\ Live(r) /\ regions' = [regions EXCEPT ![r].live = FALSE]
      /\ agenda' = <<>> \o Rest /\ variables' = variables /\ count' = count /\ memory' = memory
  BY DEF FreeStepped
<1>2. Typed /\ regions \in Seq(Region) BY DEF Inv, Typed, StorageOK
<1>3. 1 \in DOMAIN agenda /\ First = agenda[1] /\ Returns(First, variables[v]) BY <1>1, ReleaseIs DEF Releases
<1>4. r \in DOMAIN regions /\ r # 0 BY <1>1, <1>2 DEF Live
<1>5. Takes(First) = {} /\ Len(First.at) = 1 BY <1>1, <1>3 DEF Takes, Returns
<1>6. \A q \in DOMAIN regions : regions[q] \in Region BY <1>2
<1>7. /\ DOMAIN regions' = DOMAIN regions /\ regions'[r].live = FALSE
      /\ \A q \in DOMAIN regions : q # r => regions'[q] = regions[q]
  BY <1>1, <1>4, <1>6 DEF Region
<1>8. SameStorage BY <1>1, <1>6 DEF SameStorage, Region
<1>9. PICK none \in Seq(GoodTask) : none = <<>>
  <2>1. <<>> \in Seq(GoodTask) OBVIOUS
  <2> QED BY <2>1, Zenon
<1>10. /\ DOMAIN agenda' = 1 .. Len(agenda') /\ Len(none) = 0 /\ DOMAIN none = {} /\ Len(agenda') \in Nat
       /\ agenda \in Seq(GoodTask)
       /\ \A i \in DOMAIN agenda' :
            \/ i \in DOMAIN none /\ agenda'[i] = none[i]
            \/ /\ i > Len(none) /\ i - Len(none) + 1 \in DOMAIN agenda /\ i - Len(none) + 1 > 1
               /\ agenda'[i] = agenda[i - Len(none) + 1]
       /\ \A j \in DOMAIN agenda : j > 1 =>
            Len(none) + j - 1 \in DOMAIN agenda' /\ agenda'[Len(none) + j - 1] = agenda[j]
  <2>1. agenda' \in Seq(GoodTask) BY <1>1, <1>2, <1>9, AgendaAfter
  <2>2. Len(none) = 0 /\ DOMAIN none = {} /\ DOMAIN agenda' = 1 .. Len(agenda') /\ Len(agenda') \in Nat
    BY <1>9, <2>1
  <2>3. agenda \in Seq(GoodTask) BY <1>2 DEF Typed
  <2> QED BY <1>1, <1>2, <1>9, <2>2, <2>3, AgendaAfter, Zenon
<1>11. Shorter
  <2>1. DOMAIN agenda \subseteq Nat /\ \A j \in DOMAIN agenda : j = 1 \/ j > 1 BY <1>10
  <2>2. ASSUME NEW i \in DOMAIN agenda'
        PROVE  i \in Nat /\ i + 1 \in DOMAIN agenda /\ i + 1 > 1 /\ agenda'[i] = agenda[i + 1]
    <3>1. i \in Nat BY <1>10
    <3>2. i - Len(none) + 1 = i + 1 BY <1>10, <3>1
    <3> QED BY <1>10, <3>1, <3>2
  <2>3. ASSUME NEW j \in DOMAIN agenda, j > 1
        PROVE  j - 1 \in DOMAIN agenda' /\ agenda'[j - 1] = agenda[j]
    <3>1. Len(none) + j - 1 = j - 1 BY <1>10, <2>1
    <3> QED BY <1>10, <2>3, <3>1
  <2> QED BY <2>1, <2>2, <2>3 DEF Shorter
<1> QED BY <1>1, <1>2, <1>3, <1>4, <1>5, <1>7, <1>8, <1>11 DEF Frees

LEMMA FreeTouched ==
  ASSUME Inv, FreeStepped, NEW v \in DOMAIN variables, Returning(v), NEW r, r = First.at[1]
  PROVE  /\ Touched(r)
         /\ \A q : Touched(q)' => Touched(q)
         /\ \A q : Touched(q) /\ q # r => Touched(q)'
         /\ \A q \in DOMAIN regions : Untouched(q)' <=> Untouched(q)
<1>1. /\ 1 \in DOMAIN agenda /\ First = agenda[1] /\ Shorter /\ r \in DOMAIN regions
      /\ \A q \in DOMAIN regions : q # r => regions'[q] = regions[q]
      /\ regions'[r].live = FALSE
  BY FreeMeans DEF Frees
<1>2. Touched(r) BY <1>1 DEF Touched
<1>3. ASSUME NEW q, Touched(q)' PROVE Touched(q)
  <2>1. PICK i \in DOMAIN agenda' : agenda'[i].at[1] = q BY <1>3 DEF Touched
  <2> QED BY <1>1, <2>1 DEF Touched, Shorter
<1>4. ASSUME NEW q, Touched(q), q # r PROVE Touched(q)'
  <2>1. PICK j \in DOMAIN agenda : agenda[j].at[1] = q BY <1>4 DEF Touched
  <2>2. j # 1 BY <1>1, <1>4, <2>1
  <2>3. j - 1 \in DOMAIN agenda' /\ agenda'[j - 1].at[1] = q BY <1>1, <2>1, <2>2 DEF Shorter
  <2> QED BY <2>3 DEF Touched
<1>5. ASSUME NEW q \in DOMAIN regions PROVE Untouched(q)' <=> Untouched(q)
  <2>1. CASE q = r BY <1>1, <1>2, <2>1 DEF Untouched
  <2>2. CASE q # r
    <3>1. regions'[q] = regions[q] BY <1>1, <2>2
    <3>2. Touched(q)' <=> Touched(q) BY <1>3, <1>4, <2>2
    <3> QED BY <3>1, <3>2 DEF Untouched
  <2> QED BY <2>1, <2>2
<1> QED BY <1>2, <1>3, <1>4, <1>5

LEMMA ThenPlaces ==
  \A i : PlacesIn(agenda[i].at[1])' = PlacesThen(agenda'[i].at[1])
BY DEF PlacesIn, PlacesThen, PlacesAt, Spots

LEMMA SamePlacesThen ==
  ASSUME Inv, SameStorage, NEW r \in DOMAIN regions
  PROVE  PlacesThen(r) = PlacesIn(r)
<1>1. PlacesIn(r)' = PlacesIn(r) BY SameStorageMeans
<1> QED BY <1>1, PlacesInPrimed DEF PlacesThen

LEMMA FreeOrderly ==
  ASSUME Inv, FreeStepped, NEW v \in DOMAIN variables, Returning(v), Orderly(v)
  PROVE  Orderly(v)'
<1>1. PICK r : r = First.at[1] OBVIOUS
<1>2. Frees(r) BY <1>1, FreeMeans
<1>3. /\ Shorter /\ SameStorage /\ 1 \in DOMAIN agenda /\ First = agenda[1] /\ Len(First.at) = 1
      /\ \A q \in DOMAIN regions : q # r => regions'[q] = regions[q]
      /\ memory' = memory /\ variables' = variables /\ DOMAIN regions' = DOMAIN regions
  BY <1>2 DEF Frees, SameStorage
<1>4. /\ DOMAIN agenda \subseteq Nat /\ DOMAIN agenda' \subseteq Nat
      /\ \A i \in DOMAIN agenda' : i + 1 \in DOMAIN agenda /\ i + 1 > 1 /\ agenda'[i] = agenda[i + 1]
      /\ \A j \in DOMAIN agenda : j = 1 \/ (j > 1 /\ j - 1 \in DOMAIN agenda' /\ agenda'[j - 1] = agenda[j])
  BY <1>3 DEF Shorter
<1>5. \A q \in DOMAIN regions : Untouched(q)' <=> Untouched(q) BY <1>1, FreeTouched
<1>6. /\ \A q \in DOMAIN regions : PlacesIn(q)' = PlacesIn(q) /\ PlacesThen(q) = PlacesIn(q)
  BY <1>3, SameStorageMeans, SamePlacesThen
<1>7. /\ \A i \in DOMAIN agenda :
           /\ InOrder(i)
           /\ agenda[i].at[1] \in DOMAIN regions /\ regions[agenda[i].at[1]].owner = v
           /\ regions[agenda[i].at[1]].live
           /\ agenda[i].do = "dealloc" =>
                \/ agenda[i].type \in OutsideTables[variables[v].type]
                \/ regions[agenda[i].at[1]].role = "field"
      /\ \A i, j \in DOMAIN agenda : \A p \in Takes(agenda[i]), q \in Takes(agenda[j]) :
           p.at = q.at => i = j
      /\ \A i \in DOMAIN agenda : \A p \in Takes(agenda[i]) :
           p.at \in DOMAIN memory => p \in PlacesIn(p.at[1]) /\ Untouched(memory[p.at])
      /\ \A q \in DOMAIN regions : regions[q].owner = v /\ Untouched(q) =>
           \A p \in PlacesIn(q) : p.at \in DOMAIN memory => Untouched(memory[p.at])
  BY DEF Orderly
<1>8. \A j \in DOMAIN agenda : j > 1 => agenda[j].at[1] # r BY <1>1, <1>3, <1>7 DEF InOrder
<1>9. ASSUME NEW i \in DOMAIN agenda' PROVE InOrder(i)'
  <2>1. PICK k \in DOMAIN agenda : k = i + 1 /\ k > 1 /\ agenda'[i] = agenda[k] /\ i \in Nat BY <1>4, <1>9
  <2>2. ASSUME Len(agenda[k].at) > 1
        PROVE  \E j \in DOMAIN agenda' :
                 j > i /\ agenda'[j].do = "free" /\ agenda'[j].at[1] = agenda'[i].at[1]
    <3>1. PICK j \in DOMAIN agenda : j > k /\ agenda[j].do = "free" /\ agenda[j].at[1] = agenda[k].at[1]
      BY <1>7, <2>2 DEF InOrder
    <3>2. j \in Nat /\ j # 1 /\ j - 1 > i BY <1>4, <2>1, <3>1
    <3>3. j - 1 \in DOMAIN agenda' /\ agenda'[j - 1] = agenda[j] BY <1>4, <3>2
    <3> QED BY <2>1, <3>1, <3>2, <3>3
  <2>3. ASSUME Len(agenda[k].at) = 1, NEW j \in DOMAIN agenda', j > i
        PROVE  agenda'[j].at[1] # agenda'[i].at[1]
    <3>1. j \in Nat /\ j + 1 \in DOMAIN agenda /\ agenda'[j] = agenda[j + 1] /\ j + 1 > k BY <1>4, <2>1, <2>3
    <3>2. agenda[j + 1].at[1] # agenda[k].at[1] BY <1>7, <2>3, <3>1 DEF InOrder
    <3> QED BY <2>1, <3>1, <3>2
  <2> QED BY <2>1, <2>2, <2>3 DEF InOrder
<1>10. ASSUME NEW i \in DOMAIN agenda'
       PROVE  /\ agenda'[i].at[1] \in DOMAIN regions' /\ regions'[agenda'[i].at[1]].owner = v
              /\ regions'[agenda'[i].at[1]].live
              /\ agenda'[i].do = "dealloc" =>
                   \/ agenda'[i].type \in OutsideTables[variables'[v].type]
                   \/ regions'[agenda'[i].at[1]].role = "field"
  <2>1. PICK k \in DOMAIN agenda : k > 1 /\ agenda'[i] = agenda[k] BY <1>4, <1>10
  <2>2. agenda[k].at[1] # r BY <1>8, <2>1
  <2>3. agenda[k].at[1] \in DOMAIN regions /\ regions'[agenda[k].at[1]] = regions[agenda[k].at[1]]
    BY <1>3, <1>7, <2>2
  <2> QED BY <1>3, <1>7, <2>1, <2>3
<1>11. ASSUME NEW i \in DOMAIN agenda', NEW j \in DOMAIN agenda',
              NEW p \in Takes(agenda'[i]), NEW q \in Takes(agenda'[j]), p.at = q.at
       PROVE  i = j
  <2>1. i \in Nat /\ j \in Nat /\ i + 1 \in DOMAIN agenda /\ j + 1 \in DOMAIN agenda
        /\ agenda'[i] = agenda[i + 1] /\ agenda'[j] = agenda[j + 1]
    BY <1>4
  <2>2. i + 1 = j + 1 BY <1>7, <1>11, <2>1
  <2> QED BY <2>1, <2>2
<1>12. ASSUME NEW a, a \in DOMAIN memory, Untouched(memory[a]) PROVE Untouched(memory[a])'
  <2>1. PICK q : q = memory[a] OBVIOUS
  <2>2. q \in DOMAIN regions BY <1>2, <1>12, <2>1 DEF Frees, Typed, StorageOK
  <2>3. Untouched(q)' BY <1>5, <1>12, <2>1, <2>2
  <2>4. q = memory'[a] BY <1>3, <2>1
  <2> QED BY <2>3, <2>4 DEF Untouched, Touched
<1>13. ASSUME NEW i \in DOMAIN agenda', NEW p \in Takes(agenda'[i]), p.at \in DOMAIN memory
       PROVE  p \in PlacesIn(p.at[1])' /\ Untouched(memory[p.at])'
  <2>1. PICK k \in DOMAIN agenda : agenda'[i] = agenda[k] BY <1>4, <1>13
  <2>2. p \in PlacesIn(p.at[1]) /\ Untouched(memory[p.at]) BY <1>7, <1>13, <2>1
  <2>3. PICK s : s = p.at[1] OBVIOUS
  <2>4. s \in DOMAIN regions BY <1>2, <1>13, <2>3 DEF Inv, StorageKnown
  <2>5. p \in PlacesIn(s)' BY <1>6, <2>2, <2>3, <2>4
  <2> QED BY <1>12, <1>13, <2>2, <2>3, <2>5
<1>14. ASSUME NEW q \in DOMAIN regions', regions'[q].owner = v, Untouched(q)',
              NEW p \in PlacesIn(q)', p.at \in DOMAIN memory'
       PROVE  Untouched(memory[p.at])'
  <2>1. q \in DOMAIN regions /\ regions[q].owner = v /\ Untouched(q) /\ p \in PlacesIn(q)
    BY <1>3, <1>5, <1>6, <1>14 DEF SameStorage
  <2>2. Untouched(memory[p.at]) BY <1>3, <1>7, <1>14, <2>1
  <2> QED BY <1>3, <1>12, <1>14, <2>2
<1> QED BY <1>3, <1>9, <1>10, <1>11, <1>13, <1>14, TakesPrimed DEF Orderly

LEMMA SameAllPlaces ==
  ASSUME Inv, SameStorage
  PROVE  AllPlaces' = AllPlaces
<1>1. DOMAIN regions' = DOMAIN regions /\ \A s \in DOMAIN regions : PlacesIn(s)' = PlacesIn(s)
  BY SameStorageMeans DEF SameStorage
<1>2. AllPlaces' = UNION {PlacesIn(s)' : s \in DOMAIN regions'} BY DEF AllPlaces, PlacesIn
<1>3. \A p : p \in AllPlaces' <=> \E s \in DOMAIN regions : p \in PlacesIn(s)' BY <1>1, <1>2
<1>4. \A p : p \in AllPlaces <=> \E s \in DOMAIN regions : p \in PlacesIn(s) BY DEF AllPlaces
<1> QED BY <1>1, <1>3, <1>4

LEMMA FreeOwed ==
  ASSUME Inv, FreeStepped, NEW v \in DOMAIN variables, Returning(v), Orderly(v), Owed(v)
  PROVE  Owed(v)'
<1>1. PICK r : r = First.at[1] OBVIOUS
<1>2. Frees(r) BY <1>1, FreeMeans
<1>3. /\ Shorter /\ SameStorage /\ 1 \in DOMAIN agenda /\ First = agenda[1] /\ Takes(First) = {}
      /\ regions'[r].live = FALSE /\ r \in DOMAIN regions
      /\ \A q \in DOMAIN regions : q # r => regions'[q] = regions[q]
      /\ variables' = variables /\ DOMAIN regions' = DOMAIN regions
  BY <1>2 DEF Frees, SameStorage
<1>4. /\ \A q : Touched(q) /\ q # r => Touched(q)'
      /\ \A q \in DOMAIN regions : Untouched(q)' <=> Untouched(q)
  BY <1>1, FreeTouched
<1>5. CASE HasTableInside(variables[v].type) \/ HasVariableLoop(variables[v].type) BY <1>3, <1>5 DEF Owed
<1>6. CASE ~HasTableInside(variables[v].type) /\ ~HasVariableLoop(variables[v].type)
  <2> DEFINE Taken(p) == \E i \in DOMAIN agenda' : p \in Takes(agenda'[i])
  <2>1. ASSUME NEW q \in DOMAIN regions', regions'[q].owner = v, regions'[q].live,
               regions'[q].role # "handle", ~(Touched(q)')
        PROVE  \E p \in AllPlaces : Parent(p, q) /\ (Untouched(p.at[1])' \/ Taken(p))
    <3>1. q # r BY <1>3, <2>1
    <3>2. q \in DOMAIN regions /\ regions'[q] = regions[q] /\ ~Touched(q) BY <1>3, <1>4, <2>1, <3>1
    <3>3. PICK p \in AllPlaces :
            Parent(p, q) /\ (Untouched(p.at[1]) \/ \E i \in DOMAIN agenda : p \in Takes(agenda[i]))
      BY <1>6, <2>1, <3>2 DEF Owed
    <3>4. PICK s : s = p.at[1] OBVIOUS
    <3>5. s \in DOMAIN regions BY <3>3, <3>4 DEF Parent
    <3>6. CASE Untouched(s)
      <4>1. Untouched(s)' BY <1>4, <3>5, <3>6
      <4>2. Untouched(p.at[1])' BY <3>4, <4>1
      <4> QED BY <3>3, <4>2
    <3>7. ASSUME NEW i \in DOMAIN agenda, p \in Takes(agenda[i]) PROVE Taken(p)
      <4>1. i # 1 BY <1>3, <3>7
      <4>2. i - 1 \in DOMAIN agenda' /\ agenda'[i - 1] = agenda[i] BY <1>3, <4>1 DEF Shorter
      <4> QED BY <3>7, <4>2
    <3> QED BY <3>3, <3>4, <3>6, <3>7
  <2>2. \A i : Takes(agenda[i])' = Takes(agenda'[i]) BY TakesPrimed
  <2>3. AllPlaces' = AllPlaces BY <1>3, SameAllPlaces
  <2>4. \A p : \A q \in DOMAIN regions : Parent(p, q)' <=> Parent(p, q) BY <1>3, SameStorageMeans
  <2>5. \A q \in DOMAIN regions' :
          regions'[q].owner = v /\ regions'[q].live /\ regions'[q].role # "handle" =>
            \/ Touched(q)'
            \/ \E p \in AllPlaces' : Parent(p, q)' /\ (Untouched(p.at[1])' \/ Taken(p))
    BY <1>3, <2>1, <2>3, <2>4
  <2>6. \A p : Taken(p) <=> \E i \in DOMAIN agenda' : p \in Takes(agenda[i])' BY <2>2
  <2> QED BY <2>5, <2>6 DEF Owed
<1> QED BY <1>5, <1>6

LEMMA FreeKeeps ==
  ASSUME Inv, FreeStepped, NEW v \in DOMAIN variables, Giving(v), Rest # <<>>
  PROVE  Giving(v)'
<1>1. PICK r : r = First.at[1] OBVIOUS
<1>2. Returning(v) /\ (Doomed \/ (Orderly(v) /\ Owed(v))) /\ Sound(v) BY DEF Giving
<1>3. Frees(r) BY <1>1, <1>2, FreeMeans
<1>4. /\ Typed /\ Shorter /\ SameStorage /\ 1 \in DOMAIN agenda /\ First = agenda[1] /\ r # 0
      /\ variables' = variables /\ count' = count /\ agenda' = <<>> \o Rest
  BY <1>3 DEF Frees
<1>5. /\ \A i \in DOMAIN agenda' : i + 1 \in DOMAIN agenda /\ agenda'[i] = agenda[i + 1]
      /\ \A j \in DOMAIN agenda : j = 1 \/ (j - 1 \in DOMAIN agenda' /\ agenda'[j - 1] = agenda[j])
  BY <1>4, Zenon DEF Shorter
<1>6. Returning(v)'
  <2>1. PICK tasks \in Seq(GoodTask) : tasks = <<>>
    <3>1. <<>> \in Seq(GoodTask) OBVIOUS
    <3> QED BY <3>1
  <2>2. DOMAIN tasks = {} /\ agenda' = tasks \o Rest /\ agenda # <<>> BY <1>4, <2>1
  <2> QED BY <1>2, <1>4, <2>2, StaysReturning, Zenon
<1>7. ASSUME Doomed PROVE Doomed'
  <2>1. PICK i \in DOMAIN agenda : agenda[i].do = "free" /\ agenda[i].at[1] = 0 BY <1>7 DEF Doomed
  <2>2. i # 1 BY <1>1, <1>4, <2>1
  <2>3. i - 1 \in DOMAIN agenda' /\ agenda'[i - 1] = agenda[i] BY <1>5, <2>2
  <2> QED BY <2>1, <2>3 DEF Doomed
<1>8. (Doomed \/ (Orderly(v) /\ Owed(v)))' BY <1>2, <1>7, FreeOrderly, FreeOwed
<1>9. Excused(variables[v])' <=> Excused(variables[v]) BY <1>4 DEF Excused
<1>10. ASSUME ~Excused(variables[v])
       PROVE  (~Doomed /\ \A i \in DOMAIN agenda : Takes(agenda[i]) \subseteq PlacesIn(agenda[i].at[1]))'
  <2>1. ~Doomed /\ \A i \in DOMAIN agenda : Takes(agenda[i]) \subseteq PlacesIn(agenda[i].at[1])
    BY <1>2, <1>10 DEF Sound
  <2>2. \A i \in DOMAIN agenda : agenda[i].at[1] \in DOMAIN regions BY <1>2, <2>1 DEF Orderly
  <2>3. ASSUME NEW i \in DOMAIN agenda'
        PROVE  Takes(agenda'[i]) \subseteq PlacesThen(agenda'[i].at[1])
    <3>1. PICK k \in DOMAIN agenda : agenda'[i] = agenda[k] BY <1>5, <2>3
    <3>2. PICK s : s = agenda[k].at[1] OBVIOUS
    <3>3. PlacesThen(s) = PlacesIn(s) BY <1>4, <2>2, <3>2, SamePlacesThen
    <3>4. Takes(agenda[k]) \subseteq PlacesIn(s) BY <2>1, <3>2
    <3> QED BY <3>1, <3>2, <3>3, <3>4
  <2>4. ~Doomed' BY <1>5, <2>1 DEF Doomed
  <2>5. \A i : Takes(agenda[i])' = Takes(agenda'[i]) BY TakesPrimed
  <2>6. \A i : PlacesIn(agenda[i].at[1])' = PlacesThen(agenda'[i].at[1]) BY ThenPlaces
  <2> QED BY <2>3, <2>4, <2>5, <2>6
<1>11. Sound(v)'
  <2>1. Excused(variables[v])' => Sound(v)' BY DEF Sound
  <2>2. (~Doomed /\ \A i \in DOMAIN agenda : Takes(agenda[i]) \subseteq PlacesIn(agenda[i].at[1]))' => Sound(v)'
    BY DEF Sound
  <2> QED BY <1>9, <1>10, <2>1, <2>2
<1> QED BY <1>6, <1>8, <1>11 DEF Giving

LEMMA NoneLeftIs ==
  NoneLeft <=> \A r \in DOMAIN regions : Gone(r) => Left(r) \/ Returning(regions[r].owner)
BY DEF NoneLeft, Gone, Left

(* With the last region of a variable, everything is given back that is to be. *)
LEMMA FreeEnds ==
  ASSUME Inv, FreeStepped, NEW v \in DOMAIN variables, Giving(v), Rest = <<>>,
         NEW q \in DOMAIN regions, regions[q].owner = v, regions'[q].live
  PROVE  Left(q)
<1>1. PICK r : r = First.at[1] OBVIOUS
<1>2. Returning(v) /\ (Doomed \/ (Orderly(v) /\ Owed(v))) BY DEF Giving
<1>3. Frees(r) BY <1>1, <1>2, FreeMeans
<1>4. /\ Typed /\ Shorter /\ 1 \in DOMAIN agenda /\ First = agenda[1] /\ r # 0 /\ Takes(First) = {}
      /\ regions'[r].live = FALSE /\ agenda' = <<>> \o Rest
      /\ \A s \in DOMAIN regions : s # r => regions'[s] = regions[s]
  BY <1>3 DEF Frees
<1>5. DOMAIN agenda' = {} BY <1>4
<1>6. \A i \in DOMAIN agenda : i = 1 BY <1>4, <1>5 DEF Shorter
<1>7. ~Doomed BY <1>1, <1>4, <1>6 DEF Doomed
<1>8. Orderly(v) /\ Owed(v) BY <1>2, <1>7
<1>9. \A s : Touched(s) => s = r BY <1>1, <1>4, <1>6 DEF Touched
<1>10. Touched(r) BY <1>1, <1>4 DEF Touched
<1>11. OwnerOf(q) = variables[v] BY DEF OwnerOf
<1> SUFFICES ASSUME ~HasTableInside(variables[v].type), ~HasVariableLoop(variables[v].type),
                    regions[q].role # "handle"
             PROVE  FALSE
  BY <1>11 DEF Left
<1>12. PICK S : S = {s \in DOMAIN regions : regions[s].owner = v /\ regions[s].live
                                             /\ regions[s].role # "handle" /\ s # r}
  OBVIOUS
<1>13. q \in S BY <1>4, <1>12
<1>14. S \subseteq Nat
  <2>1. regions \in Seq(Region) BY <1>4 DEF Typed, StorageOK
  <2> QED BY <1>12, <2>1
<1>15. PICK s \in S : \A m \in S : s <= m BY <1>13, <1>14, LowestNumber
<1>16. PICK p \in AllPlaces :
         Parent(p, s) /\ (Untouched(p.at[1]) \/ \E i \in DOMAIN agenda : p \in Takes(agenda[i]))
  <2>1. s \in DOMAIN regions /\ regions[s].owner = v /\ regions[s].live /\ regions[s].role # "handle" /\ ~Touched(s)
    BY <1>9, <1>12, <1>15
  <2> QED BY <1>8, <2>1 DEF Owed
<1>17. \A i \in DOMAIN agenda : Takes(agenda[i]) = {} BY <1>4, <1>6
<1>18. PICK m : m = p.at[1] OBVIOUS
<1>19. m \in DOMAIN regions /\ p \in PlacesIn(m) /\ m < s /\ regions[m].owner = v
  <2>1. s \in DOMAIN regions /\ regions[s].owner = v BY <1>12, <1>15
  <2> QED BY <1>16, <1>18, <2>1 DEF Parent
<1>20. Untouched(m) BY <1>16, <1>17, <1>18
<1>21. m # r /\ regions[m].live BY <1>10, <1>20 DEF Untouched
<1>22. regions[m].role # "handle" BY <1>19, NoPlaces
<1>23. m \in S BY <1>12, <1>19, <1>21, <1>22
<1>24. m \in Nat /\ s \in Nat /\ s <= m BY <1>14, <1>15, <1>23
<1> QED BY <1>19, <1>24

(* Only one variable is unheaped at a time. *)
LEMMA OneReturning ==
  ASSUME Inv, NEW v \in DOMAIN variables, NEW w \in DOMAIN variables, Returning(v), Returning(w)
  PROVE  v = w
<1>1. variables[v].base = variables[w].base BY DEF Returning
<1>2. regions[variables[v].base].owner = v /\ regions[variables[w].base].owner = w BY DEF Inv, StorageKnown
<1> QED BY <1>1, <1>2

LEMMA FreeReturned ==
  ASSUME Inv, FreeStepped, Returned
  PROVE  Returned'
<1>1. /\ status = "ok" /\ agenda # <<>> /\ First.do = "free" /\ variables' = variables
      /\ agenda' = <<>> \o Rest
  BY DEF FreeStepped
<1>2. Typed /\ 1 \in DOMAIN agenda /\ First = agenda[1] BY <1>1 DEF Inv, Typed, First
<1>3. PICK v \in DOMAIN variables : Giving(v)
  <2>1. First.do \notin Allocates BY <1>1 DEF Allocates
  <2> QED BY <1>1, <1>2, <2>1 DEF Returned, Phase
<1>4. Returning(v) BY <1>3 DEF Giving
<1>5. PICK r : r = First.at[1] OBVIOUS
<1>6. Frees(r) BY <1>4, <1>5, FreeMeans
<1>7. SameStorage /\ regions'[r].live = FALSE /\ \A q \in DOMAIN regions : q # r => regions'[q] = regions[q]
  BY <1>6 DEF Frees
<1>8. CASE Rest # <<>>
  <2>1. Giving(v)' BY <1>3, <1>8, FreeKeeps
  <2>2. Phase' BY <1>1, <2>1 DEF Phase
  <2>3. ASSUME NEW q \in DOMAIN regions', Gone(q)' PROVE Left(q)' \/ Returning(regions[q].owner)'
    <3>1. q \in DOMAIN regions /\ regions'[q] = regions[q] BY <1>7, <2>3 DEF SameStorage, Gone
    <3>2. PICK w : w = regions[q].owner OBVIOUS
    <3>3. w \in DOMAIN variables BY <1>2, <3>1, <3>2 DEF Typed, StorageOK
    <3>4. CASE w = v
      <4>1. Returning(w)' BY <2>1, <3>4 DEF Giving
      <4>2. w = regions'[q].owner BY <3>1, <3>2
      <4> QED BY <4>1, <4>2 DEF Returning
    <3>5. CASE w # v
      <4>1. Gone(q) BY <1>1, <2>3, <3>1 DEF Gone, OwnerOf
      <4>2. Left(q) \/ Returning(w) BY <1>1, <3>1, <3>2, <4>1, NoneLeftIs DEF Returned
      <4>3. Left(q) BY <1>4, <3>3, <3>5, <4>2, OneReturning
      <4> QED BY <1>1, <3>1, <4>3 DEF Left, OwnerOf
    <3> QED BY <3>4, <3>5
  <2>4. NoneLeft' BY <2>3 DEF NoneLeft, Gone, Left
  <2> QED BY <2>2, <2>4 DEF Returned
<1>9. CASE Rest = <<>>
  <2>1. agenda' = <<>> BY <1>1, <1>9
  <2>2. ASSUME NEW q \in DOMAIN regions', Gone(q)' PROVE Left(q)'
    <3>1. q \in DOMAIN regions /\ regions'[q] = regions[q] /\ regions'[q].live
      BY <1>7, <2>2 DEF SameStorage, Gone
    <3>2. PICK w : w = regions[q].owner OBVIOUS
    <3>3. w \in DOMAIN variables BY <1>2, <3>1, <3>2 DEF Typed, StorageOK
    <3>4. Left(q)
      <4>1. CASE w = v BY <1>3, <1>9, <3>1, <3>2, <4>1, FreeEnds
      <4>2. CASE w # v
        <5>1. Gone(q) BY <1>1, <2>2, <3>1 DEF Gone, OwnerOf
        <5>2. Left(q) \/ Returning(w) BY <1>1, <3>1, <3>2, <5>1, NoneLeftIs DEF Returned
        <5> QED BY <1>4, <3>3, <4>2, <5>2, OneReturning
      <4> QED BY <4>1, <4>2
    <3> QED BY <1>1, <3>1, <3>4 DEF Left, OwnerOf
  <2>3. NoneLeft' BY <2>2 DEF NoneLeft, Gone, Left
  <2> QED BY <2>1, <2>3 DEF Returned, Phase
<1> QED BY <1>8, <1>9

(* The whole storage of a variable is there when it begins to be unheaped. *)
LEMMA UnheapGives ==
  ASSUME Inv, Tree, Idle, NEW v \in DOMAIN variables,
         variables[v].place = "heaped", variables[v].live,
         variables' = [variables EXCEPT ![v].live = FALSE],
         agenda' = <<ToDo("dealloc", variables[v].type, <<variables[v].base>>)>>,
         UNCHANGED <<regions, memory, count, built, status>>
  PROVE  Giving(v)' /\ SameStorage /\ \A w \in DOMAIN variables : w # v => variables'[w] = variables[w]
<1>1. /\ Typed /\ StorageKnown /\ regions \in Seq(Region) /\ variables \in Seq(Variable)
      /\ HasParents /\ BasesKnown /\ regions' = regions /\ memory' = memory
  BY DEF Inv, Typed, StorageOK, Tree
<1>2. PICK t \in Types : t = variables[v].type
  <2>1. PICK x \in Variable : x = variables[v] BY <1>1
  <2>2. x.type \in Types BY DEF Variable
  <2> QED BY <2>1, <2>2
<1>3. PICK b \in DOMAIN regions : b = variables[v].base BY <1>1 DEF Typed, StorageOK
<1>4. b \in Nat /\ b # 0 BY <1>1
<1>5. PICK at \in Seq(Nat) : at = <<b>>
  <2>1. <<b>> \in Seq(Nat) BY <1>4
  <2> QED BY <2>1
<1>6. Len(at) = 1 /\ at[1] = b /\ at # <<>> BY <1>5
<1>7. PICK x : x = ToDo("dealloc", t, at) OBVIOUS
<1>8. x.do = "dealloc" /\ x.type = t /\ x.at = at BY <1>7 DEF ToDo
<1>9. agenda' = <<x>> BY <1>2, <1>3, <1>5, <1>7
<1>10. Len(agenda') = 1 /\ DOMAIN agenda' = {1} /\ agenda'[1] = x /\ agenda' # <<>> BY <1>9
<1>11. /\ DOMAIN variables' = DOMAIN variables
       /\ variables'[v].place = "heaped" /\ variables'[v].live = FALSE /\ variables'[v].base = b
       /\ variables'[v].type = t /\ variables'[v].count = variables[v].count
       /\ \A w \in DOMAIN variables : w # v => variables'[w] = variables[w]
  <2>1. variables[v] \in Variable BY <1>1
  <2> QED BY <1>2, <1>3, <2>1 DEF Variable
<1>12. SameStorage BY <1>1, <1>2, <1>3, <1>11 DEF SameStorage
<1>13. Returning(v)'
  <2>1. t \in GivenBack(t) BY OutsideIs DEF GivenBack
  <2>2. \A i \in DOMAIN agenda' : Returns(agenda[i], variables[v])' BY <1>8, <1>10, <1>11, <2>1 DEF Returns
  <2>3. agenda'[Len(agenda')] = x BY <1>10
  <2>4. Len(x.at) = 1 /\ x.at[1] = b BY <1>6, <1>8, Zenon
  <2>5. \A i \in DOMAIN agenda' : agenda'[i].type = variables'[v].type BY <1>8, <1>10, <1>11
  <2> QED BY <1>10, <1>11, <2>2, <2>3, <2>4, <2>5 DEF Returning
<1>14. /\ regions[b].owner = v /\ regions[b].role = "base" /\ regions[b].type = t
  BY <1>1, <1>2, <1>3 DEF StorageKnown
<1>15. ASSUME NEW r \in DOMAIN regions, regions[r].owner = v PROVE regions[r].live /\ OwnerOf(r).place = "heaped"
  BY <1>1, <1>15 DEF StorageKnown, OwnerOf
<1>16. \A r : Touched(r)' <=> r = b BY <1>6, <1>8, <1>10 DEF Touched
<1>17. \A r \in DOMAIN regions : regions[r].owner = v /\ r # b => Untouched(r)'
  BY <1>1, <1>15, <1>16 DEF Untouched
<1>18. PlacesIn(b) = Spots(at, t)
  <2>1. PlacesIn(b) = PlacesAt(b, "base", t, regions[b].len) BY <1>14, PlacesInAt
  <2> QED BY <1>5, <2>1 DEF PlacesAt
<1>19. Takes(x) = {p \in Spots(at, t) : ClassOf(p.type) = "vector" \/ Len(p.at) = 2} BY <1>8 DEF Takes
<1>20. ASSUME NEW r \in DOMAIN regions, regions[r].owner = v, NEW p \in PlacesIn(r), p.at \in DOMAIN memory
       PROVE  Untouched(memory[p.at])'
  <2>1. p.at[1] = r BY <1>1, <1>20, PlacesInTyped
  <2>2. OwnerOf(p.at[1]).place = "heaped" BY <1>15, <1>20, <2>1
  <2>3. PICK m : m = memory[p.at] OBVIOUS
  <2>4. m \in DOMAIN regions /\ regions[m].owner = v /\ regions[m].role \in {"array", "field"}
    BY <1>20, <2>1, <2>2, <2>3, PointsWithin
  <2>5. m # b BY <1>14, <2>4
  <2>6. Untouched(m)' BY <1>17, <2>4, <2>5
  <2>7. m = memory'[p.at] BY <1>1, <2>3
  <2> QED BY <2>6, <2>7 DEF Untouched, Touched
<1>21. \A r : PlacesIn(r)' = PlacesIn(r) BY <1>1 DEF PlacesIn
<1>22. \A i : Takes(agenda[i])' = Takes(agenda'[i]) BY TakesPrimed
<1>23. Orderly(v)'
  <2>1. ASSUME NEW i \in DOMAIN agenda' PROVE InOrder(i)'
    <3>1. i = 1 /\ agenda'[i].at = at /\ \A j \in DOMAIN agenda' : ~(j > i) BY <1>8, <1>10
    <3>2. ~(Len(agenda'[i].at) > 1)
      <4>1. ~(Len(at) > 1) BY <1>5
      <4> QED BY <3>1, <4>1, Zenon
    <3> QED BY <3>1, <3>2 DEF InOrder
  <2>2. ASSUME NEW i \in DOMAIN agenda'
        PROVE  /\ agenda'[i].at[1] \in DOMAIN regions' /\ regions'[agenda'[i].at[1]].owner = v
               /\ regions'[agenda'[i].at[1]].live /\ agenda'[i].type \in OutsideTables[variables'[v].type]
    <3>1. agenda'[i].at[1] = b /\ agenda'[i].type = t BY <1>6, <1>8, <1>10
    <3>2. t \in OutsideTables[t] BY OutsideIs
    <3> QED BY <1>1, <1>11, <1>14, <1>15, <3>1, <3>2
  <2>3. ASSUME NEW i \in DOMAIN agenda', NEW p \in Takes(agenda'[i]), p.at \in DOMAIN memory'
        PROVE  p \in PlacesIn(p.at[1])' /\ Untouched(memory[p.at])'
    <3>1. p \in PlacesIn(b) BY <1>10, <1>18, <1>19, <2>3
    <3>2. p.at[1] = b BY <1>1, <3>1, PlacesInTyped
    <3>3. p \in PlacesIn(b)' BY <1>21, <3>1
    <3> QED BY <1>1, <1>14, <1>20, <2>3, <3>1, <3>2, <3>3
  <2>4. ASSUME NEW r \in DOMAIN regions', regions'[r].owner = v, NEW p \in PlacesIn(r)', p.at \in DOMAIN memory'
        PROVE  Untouched(memory[p.at])'
    BY <1>1, <1>20, <1>21, <2>4
  <2>5. \A i, j \in DOMAIN agenda' : i = j BY <1>10
  <2> QED BY <1>22, <2>1, <2>2, <2>3, <2>4, <2>5 DEF Orderly
<1>24. Owed(v)'
  <2>1. ASSUME ~HasTableInside(t), NEW r \in DOMAIN regions, regions[r].owner = v,
               regions[r].role # "handle", r # b
        PROVE  \E p \in AllPlaces : Parent(p, r) /\ (Untouched(p.at[1])' \/ p \in Takes(x))
    <3>1. regions[r].role \in {"array", "field"}
      <4>1. regions[r].role \in {"base", "handle", "array", "field"}
        <5>1. PICK y \in Region : y = regions[r] BY <1>1
        <5>2. y.role \in {"base", "handle", "array", "field"} BY DEF Region
        <5> QED BY <5>1, <5>2
      <4>2. regions[r].role # "base" BY <1>1, <1>3, <2>1 DEF BasesKnown
      <4> QED BY <2>1, <4>1, <4>2
    <3>2. PICK p \in AllPlaces : Parent(p, r) BY <1>1, <1>15, <2>1, <3>1 DEF HasParents
    <3>3. PICK s : s = p.at[1] OBVIOUS
    <3>4. s \in DOMAIN regions /\ regions[s].owner = v /\ p \in PlacesIn(s) BY <2>1, <3>2, <3>3 DEF Parent
    <3>5. CASE s # b
      <4>1. Untouched(s)' BY <1>17, <3>4, <3>5
      <4>2. Untouched(p.at[1])' BY <3>3, <4>1
      <4> QED BY <3>2, <4>2
    <3>6. CASE s = b
      <4>1. p \in Spots(at, t) BY <1>18, <3>4, <3>6
      <4>2. p.type \in Pointers /\ p.type \in OutsideTables[t] BY <1>6, <4>1, SpotsTyped, SpotPrefix DEF Spot
      <4>3. CASE ClassOf(p.type) = "table"
        <5>1. p.type = t
          <6>1. p.type \in Within[t] BY <4>2, OutsideIsWithin
          <6> QED BY <2>1, <4>3, <6>1 DEF HasTableInside
        <5>2. PICK f \in DOMAIN Def[t].parts : p.at = at \o <<f>>
          <6>1. ClassOf(t) = "table" BY <4>3, <5>1
          <6> QED BY <1>6, <4>1, <6>1, SpotsTyped
        <5>3. Len(p.at) = 2 BY <1>5, <5>2
        <5> QED BY <1>19, <3>2, <4>1, <5>3
      <4> QED BY <1>19, <3>2, <4>1, <4>2, <4>3 DEF Pointers
    <3> QED BY <3>5, <3>6
  <2>2. \A p : \A r \in DOMAIN regions : Parent(p, r)' <=> Parent(p, r) BY <1>12, SameStorageMeans
  <2>3. AllPlaces' = AllPlaces BY <1>12, SameAllPlaces
  <2>4. \A p : p \in Takes(x) => \E i \in DOMAIN agenda' : p \in Takes(agenda[i])' BY <1>10, <1>22
  <2>5. CASE HasTableInside(t) BY <1>11, <2>5 DEF Owed
  <2>6. CASE ~HasTableInside(t)
    <3>1. \A r \in DOMAIN regions' :
            regions'[r].owner = v /\ regions'[r].live /\ regions'[r].role # "handle" =>
              \/ Touched(r)'
              \/ \E p \in AllPlaces' : Parent(p, r)' /\
                   (Untouched(p.at[1])' \/ \E i \in DOMAIN agenda' : p \in Takes(agenda[i])')
      BY <1>1, <1>16, <2>1, <2>2, <2>3, <2>4, <2>6
    <3> QED BY <3>1 DEF Owed
  <2> QED BY <2>5, <2>6
<1>25. Sound(v)'
  <2>1. ~Doomed' BY <1>8, <1>10 DEF Doomed
  <2>2. ASSUME NEW i \in DOMAIN agenda' PROVE Takes(agenda'[i]) \subseteq PlacesIn(agenda'[i].at[1])
    <3>1. agenda'[i] = x /\ x.at[1] = b BY <1>6, <1>8, <1>10
    <3> QED BY <1>18, <1>19, <3>1
  <2>3. (~Doomed /\ \A i \in DOMAIN agenda : Takes(agenda[i]) \subseteq PlacesIn(agenda[i].at[1]))'
    BY <1>1, <1>22, <2>1, <2>2, PlacesPrimed
  <2>4. (~Doomed /\ \A i \in DOMAIN agenda : Takes(agenda[i]) \subseteq PlacesIn(agenda[i].at[1]))' => Sound(v)'
    BY DEF Sound
  <2> QED BY <2>3, <2>4
<1>26. Giving(v)' BY <1>13, <1>23, <1>24, <1>25 DEF Giving
<1> QED BY <1>11, <1>12, <1>26

LEMMA UnheapReturned ==
  ASSUME Inv, Tree, Returned, Unheap
  PROVE  Returned'
<1>1. PICK v \in DOMAIN variables :
        /\ variables[v].place = "heaped" /\ variables[v].live
        /\ variables' = [variables EXCEPT ![v].live = FALSE]
        /\ agenda' = <<ToDo("dealloc", variables[v].type, <<variables[v].base>>)>>
  BY DEF Unheap
<1>2. Idle /\ UNCHANGED <<regions, memory, count, built, status>> BY DEF Unheap
<1>3. Giving(v)' /\ SameStorage /\ \A w \in DOMAIN variables : w # v => variables'[w] = variables[w]
  BY <1>1, <1>2, UnheapGives
<1>4. DOMAIN variables' = DOMAIN variables /\ regions' = regions BY <1>2, <1>3 DEF SameStorage
<1>5. Phase' BY <1>3, <1>4 DEF Phase
<1>6. ASSUME NEW q \in DOMAIN regions', Gone(q)' PROVE Left(q)' \/ Returning(regions[q].owner)'
  <2>1. PICK w : w = regions[q].owner OBVIOUS
  <2>2. q \in DOMAIN regions /\ w \in DOMAIN variables BY <1>4, <1>6, <2>1 DEF Inv, Typed, StorageOK
  <2>3. CASE w = v
    <3>1. Returning(w)' BY <1>3, <2>3 DEF Giving
    <3>2. w = regions'[q].owner BY <1>4, <2>1
    <3> QED BY <3>1, <3>2 DEF Returning
  <2>4. CASE w # v
    <3>1. variables'[w] = variables[w] BY <1>3, <2>2, <2>4
    <3>2. Gone(q) BY <1>4, <1>6, <2>1, <3>1 DEF Gone, OwnerOf
    <3>3. Left(q) \/ Returning(w) BY <1>2, <2>1, <2>2, <3>2, NoneLeftIs DEF Returned, Idle
    <3>4. ~Returning(w) BY <1>2 DEF Idle, Returning
    <3> QED BY <1>4, <2>1, <3>1, <3>3, <3>4 DEF Left, OwnerOf
  <2> QED BY <2>3, <2>4
<1>7. NoneLeft' BY <1>6 DEF NoneLeft, Gone, Left
<1> QED BY <1>5, <1>7 DEF Returned

(* Steps at which no region is given back, nor any variable unheaped. *)
LEMMA StillNoneLeft ==
  ASSUME Inv, NoneLeft, \A w \in DOMAIN variables : Returning(w) => Returning(w)',
         DOMAIN regions \subseteq DOMAIN regions',
         \A r \in DOMAIN regions : regions'[r] = regions[r],
         \A w \in DOMAIN variables : variables'[w] = variables[w],
         \A r \in DOMAIN regions' \ DOMAIN regions : OwnerOf(r)'.live
  PROVE  NoneLeft'
<1>1. ASSUME NEW q \in DOMAIN regions', Gone(q)' PROVE Left(q)' \/ Returning(regions[q].owner)'
  <2>1. q \in DOMAIN regions /\ regions'[q] = regions[q] BY <1>1 DEF Gone
  <2>2. PICK w : w = regions[q].owner OBVIOUS
  <2>3. w \in DOMAIN variables /\ variables'[w] = variables[w] BY <2>1, <2>2 DEF Inv, Typed, StorageOK
  <2>4. Gone(q) BY <1>1, <2>1, <2>2, <2>3 DEF Gone, OwnerOf
  <2>5. Left(q) \/ Returning(w) BY <2>1, <2>2, <2>4, NoneLeftIs
  <2>6. CASE Left(q) BY <2>1, <2>2, <2>3, <2>6 DEF Left, OwnerOf
  <2>7. CASE Returning(w)
    <3>1. Returning(w)' BY <2>3, <2>7
    <3>2. w = regions'[q].owner BY <2>1, <2>2
    <3> QED BY <3>1, <3>2 DEF Returning
  <2> QED BY <2>5, <2>6, <2>7
<1> QED BY <1>1 DEF NoneLeft, Gone, Left

LEMMA AllocReturned ==
  ASSUME Inv, Returned, AllocStepped
  PROVE  Returned'
<1>1. PICK new, tasks, D, C : AllocStep(new, tasks, D, C) BY DEF AllocStepped
<1>2. /\ status = "ok" /\ agenda # <<>> /\ First.do \in Allocates /\ variables' = variables
      /\ new \in Seq(Region) /\ \A i \in DOMAIN new : new[i].owner = Len(variables) /\ new[i].live
      /\ regions' = regions \o new /\ tasks \in Seq(GoodTask) /\ agenda' = tasks \o Rest
      /\ \A i \in DOMAIN tasks : ForDeclared(tasks[i])
  BY <1>1 DEF AllocStep
<1>3. Typed /\ 1 \in DOMAIN agenda /\ First = agenda[1] /\ variables # <<>> BY <1>2 DEF Inv, Typed, First
<1>4. \A w \in DOMAIN variables : ~Returning(w) BY <1>2, <1>3 DEF Returning, Returns, Allocates
<1>5. Latest.live /\ \A i \in DOMAIN agenda : agenda[i].do \in Allocates
  BY <1>2, <1>4 DEF Returned, Phase, Giving
<1>6. Phase'
  <2>1. \A i \in DOMAIN tasks : tasks[i].do \in Allocates BY <1>2 DEF ForDeclared, DoneFor
  <2>2. \A i \in DOMAIN agenda' :
          \/ i \in DOMAIN tasks /\ agenda'[i] = tasks[i]
          \/ \E j \in DOMAIN agenda : agenda'[i] = agenda[j]
    BY <1>2, <1>3, AgendaAfter
  <2>3. \A i \in DOMAIN agenda' : agenda'[i].do \in Allocates BY <1>5, <2>1, <2>2
  <2>4. Latest' = Latest BY <1>2 DEF Latest
  <2> QED BY <1>5, <2>3, <2>4 DEF Phase
<1>7. NoneLeft'
  <2>1. /\ DOMAIN regions \subseteq DOMAIN regions'
        /\ \A r \in DOMAIN regions : regions'[r] = regions[r]
        /\ \A r \in DOMAIN regions' \ DOMAIN regions : OwnerOf(r)' = variables[Len(variables)]
    BY <1>2, <1>3, RegionsGrow
  <2>2. \A r \in DOMAIN regions' \ DOMAIN regions : OwnerOf(r)'.live BY <1>5, <2>1 DEF Latest
  <2>3. NoneLeft BY <1>2 DEF Returned
  <2> QED BY <1>2, <1>4, <2>1, <2>2, <2>3, StillNoneLeft
<1> QED BY <1>6, <1>7 DEF Returned

LEMMA DeclareReturned ==
  ASSUME Inv, Returned, DeclareStepped
  PROVE  Returned'
<1>1. Idle BY DEF DeclareStepped
<1>2. PICK v, region, tasks, C : Declares(v, region, tasks, C) BY DEF DeclareStepped
<1>3. /\ v \in Variable /\ v.live /\ regions' = Append(regions, BaseRegion(region, v.type))
      /\ variables' = Append(variables, v) /\ tasks \in Seq(GoodTask) /\ agenda' = tasks
      /\ \A i \in DOMAIN tasks : tasks[i].do \in DoneFor(v.place)
  BY <1>2 DEF Declares
<1>4. /\ regions \in Seq(Region) /\ variables \in Seq(Variable) /\ Len(variables) \in Nat
  BY DEF Inv, Typed, StorageOK
<1>5. \A w \in DOMAIN variables : ~Returning(w) BY <1>1 DEF Idle, Returning
<1>6. /\ Len(variables') = Len(variables) + 1 /\ variables'[Len(variables) + 1] = v
      /\ \A w \in DOMAIN variables : variables'[w] = variables[w]
  BY <1>3, <1>4
<1>7. Phase'
  <2>1. Latest'.live BY <1>3, <1>6 DEF Latest
  <2>2. \A i \in DOMAIN agenda' : agenda'[i].do \in Allocates BY <1>3 DEF DoneFor
  <2> QED BY <2>1, <2>2 DEF Phase
<1>8. NoneLeft'
  <2>1. /\ DOMAIN regions \subseteq DOMAIN regions'
        /\ \A r \in DOMAIN regions : regions'[r] = regions[r]
        /\ \A r \in DOMAIN regions' \ DOMAIN regions : regions'[r] = BaseRegion(region, v.type)
    BY <1>3, <1>4
  <2>2. \A r \in DOMAIN regions' \ DOMAIN regions : regions'[r].owner = Len(variables) + 1
    BY <2>1 DEF BaseRegion
  <2>3. \A r \in DOMAIN regions' \ DOMAIN regions : OwnerOf(r)'.live BY <1>3, <1>6, <2>2 DEF OwnerOf
  <2>4. NoneLeft BY <1>1 DEF Returned, Idle
  <2> QED BY <1>5, <1>6, <2>1, <2>3, <2>4, StillNoneLeft
<1> QED BY <1>7, <1>8 DEF Returned

LEMMA ReleaseReturned ==
  ASSUME Inv, Tree, Returned, First.do \in Releases, agenda # <<>>,
         Deallocation \/ (Skip /\ First.do = "dealloc" /\ UNCHANGED <<variables, count, status>>)
  PROVE  Returned'
<1>1. status = "ok" /\ UNCHANGED <<regions, variables>>
  BY DEF Deallocation, DeallocPlain, DeallocCollection, DeallocVector, DeallocTable, DeallocField, Doing, Skip
<1>2. Typed /\ 1 \in DOMAIN agenda /\ First = agenda[1] BY DEF Inv, Typed, First
<1>3. PICK v \in DOMAIN variables : Giving(v)
  <2>1. First.do \notin Allocates BY DEF Allocates, Releases
  <2> QED BY <1>1, <1>2, <2>1 DEF Returned, Phase
<1>4. Giving(v)' BY <1>3, DeallocationGives
<1>5. \A w \in DOMAIN variables : Returning(w) => Returning(w)'
  <2>1. ASSUME NEW w \in DOMAIN variables, Returning(w) PROVE Returning(w)'
    <3>1. w = v BY <1>3, <2>1, OneReturning DEF Giving
    <3> QED BY <1>4, <3>1 DEF Giving
  <2> QED BY <2>1
<1>6. Phase' BY <1>1, <1>4 DEF Phase
<1>7. NoneLeft'
  <2>1. NoneLeft BY <1>1 DEF Returned
  <2> QED BY <1>1, <1>5, <2>1, StillNoneLeft
<1> QED BY <1>6, <1>7 DEF Returned

LEMMA CountReturned ==
  ASSUME Inv, Returned, AssignCount
  PROVE  Returned'
<1>1. Idle /\ UNCHANGED <<regions, memory, variables, agenda, built, status>> BY DEF AssignCount
<1>2. \A w \in DOMAIN variables : ~Returning(w) BY <1>1 DEF Idle, Returning
<1>3. NoneLeft'
  <2>1. NoneLeft BY <1>1 DEF Returned, Idle
  <2> QED BY <1>1, <1>2, <2>1, StillNoneLeft
<1> QED BY <1>1, <1>3 DEF Returned, Phase, Idle

LEMMA StutterReturned ==
  ASSUME Inv, Returned, UNCHANGED storage
  PROVE  Returned'
<1>1. UNCHANGED <<regions, memory, variables, agenda, count, built, status>> BY DEF storage
<1>2. \A v : Returning(v)' <=> Returning(v) BY <1>1 DEF Returning, Returns
<1>3. \A r : Touched(r)' <=> Touched(r) BY <1>1 DEF Touched
<1>4. \A r : Untouched(r)' <=> Untouched(r) BY <1>1, <1>3 DEF Untouched
<1>5. \A i : Takes(agenda[i])' = Takes(agenda[i]) BY <1>1, TakesPrimed
<1>6. \A r : PlacesIn(r)' = PlacesIn(r) BY <1>1 DEF PlacesIn
<1>7. SameStorage BY <1>1 DEF SameStorage
<1>8. /\ AllPlaces' = AllPlaces
      /\ \A p : \A r \in DOMAIN regions : Parent(p, r)' <=> Parent(p, r)
  BY <1>7, SameAllPlaces, SameStorageMeans
<1>9. \A i : InOrder(i)' <=> InOrder(i) BY <1>1 DEF InOrder
<1>10. \A a : Untouched(memory[a])' <=> Untouched(memory[a]) BY <1>1 DEF Untouched, Touched
<1>11. \A v : Orderly(v)' <=> Orderly(v) BY <1>1, <1>4, <1>5, <1>6, <1>9, <1>10 DEF Orderly
<1>12. \A v : Owed(v)' <=> Owed(v) BY <1>1, <1>3, <1>4, <1>5, <1>8 DEF Owed
<1>13. Doomed' <=> Doomed BY <1>1 DEF Doomed
<1>14. \A v : Sound(v)' <=> Sound(v) BY <1>1, <1>5, <1>13, PlacesPrimed DEF Sound, Excused
<1>15. \A v : Giving(v)' <=> Giving(v) BY <1>2, <1>11, <1>12, <1>13, <1>14 DEF Giving
<1>16. Phase' <=> Phase BY <1>1, <1>15 DEF Phase, Latest
<1>17. ASSUME status = "ok" PROVE NoneLeft' BY <1>1, <1>2, <1>17, StillNoneLeft DEF Returned
<1> QED BY <1>1, <1>16, <1>17 DEF Returned

LEMMA NextKeepsReturned ==
  ASSUME Inv, Tree, Returned, [Separate]_storage
  PROVE  Returned'
<1>1. CASE Statement
  BY <1>1, DeclareSteps, PassStep, DeclareReturned, UnheapReturned, CountReturned DEF Statement
<1>2. CASE Allocation
  <2>1. UNCHANGED <<variables, count, status>> BY <1>2 DEF Allocation
  <2>2. CASE AllocStepped BY <2>2, AllocReturned
  <2>3. CASE Skip /\ First.do = "dealloc"
    <3>1. First.do \in Releases /\ agenda # <<>> BY <2>3 DEF Skip, Doing, Releases
    <3> QED BY <2>1, <2>3, <3>1, ReleaseReturned
  <2> QED BY <1>2, <2>1, <2>2, <2>3, VectorSteps, TableSteps, CollectionSteps, MemberStep, SkipStep DEF Allocation
<1>3. CASE CopyVector
  <2>1. status' = "wild" => Returned' BY DEF Returned
  <2> QED BY <1>3, <2>1, CopyVectorStep, AllocReturned
<1>4. CASE CopyCrash \/ DeallocCrash \/ ReadWild \/ AssignWild
  BY <1>4 DEF CopyCrash, DeallocCrash, ReadWild, AssignWild, Returned
<1>5. CASE Deallocation
  <2>1. First.do \in Releases /\ agenda # <<>>
    BY <1>5 DEF Deallocation, DeallocPlain, DeallocCollection, DeallocVector, DeallocTable, DeallocField, Doing, Releases
  <2> QED BY <1>5, <2>1, ReleaseReturned
<1>6. CASE FreeRegion
  <2> DEFINE r == First.at[1]
  <2>1. CASE Live(r) /\ regions[r].place = "heap"
    <3>1. FreeStepped BY <1>6, <2>1 DEF FreeRegion, FreeStepped, GoOn
    <3> QED BY <3>1, FreeReturned
  <2>2. CASE ~(Live(r) /\ regions[r].place = "heap") BY <1>6, <2>2 DEF FreeRegion, Returned
  <2> QED BY <2>1, <2>2
<1>7. CASE UNCHANGED storage BY <1>7, StutterReturned
<1> QED BY <1>1, <1>2, <1>3, <1>4, <1>5, <1>6, <1>7 DEF Separate

LEMMA ReturnedHolds == Spec => [](Apart => Inv /\ Tree /\ Returned)
<1>1. Init => Returned
  <2> SUFFICES ASSUME Init PROVE Returned
    OBVIOUS
  <2>1. agenda = <<>> /\ DOMAIN regions = {} BY DEF Init
  <2> QED BY <2>1 DEF Returned, Phase, NoneLeft
<1>2. (Apart => Inv /\ Tree /\ Returned) /\ [Next]_vars => (Apart' => Returned')
  BY ApartStep, NextKeepsReturned
<1> QED BY <1>1, <1>2, TreeHolds, PTL DEF Spec

(* Whatever the types of a program and however long it runs: until a variable is stored in  *)
(* another, nothing is left of a variable that has been unheaped but the handles of the     *)
(* vectors and tables within it, unless its type holds a table inside, or vectors in a      *)
(* vector whose size is the program variable, which may have shrunk since (build.cpp        *)
(* 889-1015, 1129-1157, 1904-2036).                                                         *)
THEOREM OnlyTheHandlesAreLeft == Spec => [](Apart => OnlyHandlesLeak)
<1>1. Inv /\ Tree /\ Returned => OnlyHandlesLeak
  <2> SUFFICES ASSUME Returned, Idle PROVE OnlyHandlesLeak
    BY DEF OnlyHandlesLeak
  <2>1. NoneLeft /\ \A w : ~Returning(w) BY DEF Returned, Idle, Returning
  <2> QED BY <2>1 DEF NoneLeft, OnlyHandlesLeak, OwnerOf
<1> QED BY <1>1, ReturnedHolds, PTL

-----------------------------------------------------------------------------
(* Why building crashes, and why copying reads a wild pointer. *)

(* A call that sets up a part of a context. *)
LEMMA ContextHandsOn ==
  ASSUME Inv, Allocation, agenda # <<>>, First.do = "context", ~HasOpenSize(First.type),
         NEW u \in OutsideTables[First.type], ClassOf(u) = "vector"
  PROVE  SizeIsBuilt(u)' \/ SizeToCome(u)'
<1>1. /\ Typed /\ First.type \in Types /\ First.at \in Seq(Nat) /\ First.at # <<>> /\ 1 \in DOMAIN agenda
      /\ First = agenda[1] /\ First \in GoodTask /\ Rest \in Seq(GoodTask)
  <2>1. Typed BY DEF Inv
  <2> QED BY <2>1, FirstKnown DEF Typed, First
<1>2. PICK t \in Types : t = First.type BY <1>1
<1>3. PICK at \in Seq(Nat) : at = First.at BY <1>1
<1>4. Charged(First) /\ First.do \in Allocates BY <1>1 DEF Inv, AllCharged, Allocates
<1>5. Declared = "context" /\ Latest.type \in Types /\ t \in OutsideTables[Latest.type] /\ Latest.type \in Literal
  <2>1. Declared = "context" /\ t \in OutsideTables[Latest.type] BY <1>2, <1>4 DEF Charged, DoneFor, Allocates
  <2>2. Len(variables) \in DOMAIN variables /\ variables \in Seq(Variable)
    BY <1>1, FirstKnown DEF Typed, StorageOK
  <2>3. PICK x \in Variable : x = Latest BY <2>2 DEF Latest
  <2>4. x.type \in Types BY DEF Variable
  <2>5. Latest.type \in Literal BY <1>1, <2>1, <2>2 DEF Typed, Declared, Latest
  <2> QED BY <2>1, <2>3, <2>4, <2>5
<1>6. t \in Literal BY <1>5, OutsideIs
<1>7. ASSUME NEW tasks \in Seq(GoodTask), agenda' = tasks \o Rest,
             NEW k \in DOMAIN tasks, tasks[k].do = "context", u \in OutsideTables[tasks[k].type]
      PROVE  SizeToCome(u)'
  <2>1. k \in DOMAIN agenda' /\ agenda'[k] = tasks[k] BY <1>1, <1>7, AgendaAfter
  <2> QED BY <1>7, <2>1 DEF SizeToCome
<1>8. CASE ClassOf(t) = "vector"
  <2>1. ContextVector
    BY <1>2, <1>8 DEF Allocation, HeapVector, HeapTable, HeapCollection, ContextVector, ContextTable,
      ContextCollection, StackVector, StackTable, StackCollection, StackMember, StackSubcollection,
      CopyCollection, Skip, Doing, Class
  <2>2. Def[t].sized
    <3>1. t \in OutsideTables[t] BY OutsideIs
    <3> QED BY <1>2, <1>8, <3>1 DEF HasOpenSize, IsOpen
  <2>3. CASE u = t
    <3>1. <<First.type, variables[Len(variables)].place>> \in built'
      BY <1>2, <2>1, <2>2 DEF ContextVector, AllocateVector
    <3> QED BY <1>2, <1>5, <2>3, <3>1 DEF SizeIsBuilt, Declared, Latest
  <2>4. CASE u # t
    <3>1. PICK e \in Types : e = ElementOf(t) BY <1>8, ElementIsPart
    <3>2. u \in OutsideTables[e] BY <1>2, <1>8, <2>4, <3>1, OutsideIs, ElementIsPart
    <3>3. PICK n \in Nat : n = NumElem(t) BY <1>1, NumElemTyped
    <3>4. n >= 1
      <4>1. Def[t].size > 0 /\ Def[t].size \in Nat
        BY <1>6, <1>8, <2>2, LiteralAssumption, DefTyped DEF ClassOf
      <4> QED BY <3>3, <4>1 DEF NumElem
    <3>5. ClassOf(e) \in {"vector", "collection"}
      <4>1. CASE ClassOf(e) \notin {"vector", "collection"} BY <3>2, <4>1, OutsideLeaf
      <4> QED BY <4>1
    <3>6. PICK r : r = Len(regions) + Len(<<NewRegion("heap", "handle", First.type, 1)>>) + 1 OBVIOUS
    <3>7. r \in Nat
      <4>1. Len(regions) \in Nat BY <1>1 DEF Typed, StorageOK
      <4>2. Len(<<NewRegion("heap", "handle", First.type, 1)>>) = 1 OBVIOUS
      <4> QED BY <3>6, <4>1, <4>2
    <3>8. PICK tasks : tasks = Elements("context", e, r, n) OBVIOUS
    <3>9. agenda' = tasks \o Rest
      BY <1>2, <2>1, <2>2, <3>1, <3>3, <3>6, <3>8 DEF ContextVector, AllocateVector, GoOn
    <3>10. tasks \in Seq(GoodTask) BY <3>7, <3>8, ElementsGood DEF Calls
    <3>11. tasks = [i \in 1 .. n |-> ToDo("context", e, <<r, i>>)] BY <3>5, <3>8 DEF Elements
    <3>12. 1 \in DOMAIN tasks /\ tasks[1] = ToDo("context", e, <<r, 1>>) BY <3>4, <3>11
    <3>13. tasks[1].do = "context" /\ tasks[1].type = e BY <3>12 DEF ToDo
    <3> QED BY <1>7, <3>2, <3>9, <3>10, <3>12, <3>13
  <2> QED BY <2>3, <2>4
<1>9. CASE ClassOf(t) = "collection"
  <2>1. ContextCollection
    BY <1>2, <1>9 DEF Allocation, HeapVector, HeapTable, HeapCollection, ContextVector, ContextTable,
      ContextCollection, StackVector, StackTable, StackCollection, StackMember, StackSubcollection,
      CopyCollection, Skip, Doing, Class
  <2>2. u # t BY <1>9
  <2>3. PICK s \in Reached(t) : u \in OutsideTables[s] BY <1>2, <2>2, OutsideIs
  <2>4. PICK m \in DOMAIN Def[t].parts : s = Def[t].parts[m] BY <1>9, <2>3 DEF Reached, PartsOf
  <2>5. PICK tasks : tasks = Members("context", t, at) OBVIOUS
  <2>6. agenda' = tasks \o Rest BY <1>2, <1>3, <2>1, <2>5 DEF ContextCollection, GoOn
  <2>7. tasks \in Seq(GoodTask) BY <1>1, <1>3, <2>5, MembersGood DEF Calls
  <2>8. m \in DOMAIN tasks /\ tasks[m].do = "context" /\ tasks[m].type = s BY <2>4, <2>5 DEF Members, ToDo
  <2> QED BY <1>7, <2>3, <2>6, <2>7, <2>8
<1>10. CASE ClassOf(t) \notin {"vector", "collection"}
  <2>1. u = t BY <1>2, <1>10, OutsideLeaf
  <2> QED BY <1>10, <2>1
<1> QED BY <1>8, <1>9, <1>10

LEMMA BuiltGoesOn ==
  ASSUME Inv, BuiltKnown, agenda # <<>>, NEW tasks \in Seq(GoodTask), agenda' = tasks \o Rest,
         variables' = variables, built \subseteq built', Allocation \/ First.do # "context"
  PROVE  BuiltKnown'
<1>1. Typed /\ 1 \in DOMAIN agenda /\ First = agenda[1] /\ agenda \in Seq(GoodTask) BY DEF Inv, Typed, First
<1>2. \A u : SizeIsBuilt(u) => SizeIsBuilt(u)' BY DEF SizeIsBuilt
<1>3. ASSUME NEW v \in DOMAIN variables, variables[v].place = "context", ~HasOpenSize(variables[v].type),
             NEW u \in OutsideTables[variables[v].type], ClassOf(u) = "vector",
             v = Len(variables), SizeToCome(u)
      PROVE  SizeIsBuilt(u)' \/ SizeToCome(u)'
  <2>1. PICK i \in DOMAIN agenda : agenda[i].do = "context" /\ u \in OutsideTables[agenda[i].type]
    BY <1>3 DEF SizeToCome
  <2>2. CASE i # 1
    <3>1. i > 1 BY <1>1, <2>2
    <3>2. Len(tasks) + i - 1 \in DOMAIN agenda' /\ agenda'[Len(tasks) + i - 1] = agenda[i]
      BY <1>1, <3>1, AgendaAfter
    <3>3. PICK k \in DOMAIN agenda' : agenda'[k] = agenda[i] BY <3>2
    <3> QED BY <2>1, <3>3 DEF SizeToCome
  <2>3. CASE i = 1
    <3>1. First.do = "context" /\ u \in OutsideTables[First.type] /\ Allocation BY <1>1, <2>1, <2>3
    <3>2. PICK t \in Types : t = variables[v].type
      <4>1. PICK x \in Variable : x = variables[v] BY <1>1 DEF Typed, StorageOK
      <4>2. x.type \in Types BY DEF Variable
      <4> QED BY <4>1, <4>2
    <3>3. First.type \in OutsideTables[t]
      <4>1. Charged(First) BY <1>1 DEF Inv, AllCharged
      <4> QED BY <1>3, <3>1, <3>2, <4>1 DEF Charged, Allocates, Latest
    <3>4. ~HasOpenSize(First.type)
      <4>1. OutsideTables[First.type] \subseteq OutsideTables[t] BY <3>3, OutsideOfOutside
      <4> QED BY <1>3, <3>2, <4>1 DEF HasOpenSize
    <3> QED BY <1>3, <3>1, <3>4, ContextHandsOn
  <2> QED BY <2>2, <2>3
<1>4. ASSUME NEW v \in DOMAIN variables', variables'[v].place = "context", ~HasOpenSize(variables'[v].type),
             NEW u \in OutsideTables[variables'[v].type], ClassOf(u) = "vector"
      PROVE  SizeIsBuilt(u)' \/ (v = Len(variables') /\ SizeToCome(u)')
  <2>1. SizeIsBuilt(u) \/ (v = Len(variables) /\ SizeToCome(u)) BY <1>4 DEF BuiltKnown
  <2> QED BY <1>2, <1>3, <1>4, <2>1
<1> QED BY <1>4 DEF BuiltKnown

(* Statements leave the contexts that there are as they are. *)
LEMMA BuiltBetween ==
  ASSUME Inv, BuiltKnown, agenda = <<>>, built \subseteq built',
         DOMAIN variables \subseteq DOMAIN variables',
         \A v \in DOMAIN variables :
           variables'[v].place = variables[v].place /\ variables'[v].type = variables[v].type,
         \A v \in DOMAIN variables' \ DOMAIN variables :
           variables'[v].place = "context" /\ ~HasOpenSize(variables'[v].type) =>
             v = Len(variables') /\ \A u \in OutsideTables[variables'[v].type] : SizeToCome(u)'
  PROVE  BuiltKnown'
<1>1. ASSUME NEW v \in DOMAIN variables', variables'[v].place = "context", ~HasOpenSize(variables'[v].type),
             NEW u \in OutsideTables[variables'[v].type], ClassOf(u) = "vector"
      PROVE  SizeIsBuilt(u)' \/ (v = Len(variables') /\ SizeToCome(u)')
  <2>1. CASE v \in DOMAIN variables
    <3>1. SizeIsBuilt(u) \/ SizeToCome(u) BY <1>1, <2>1 DEF BuiltKnown
    <3>2. ~SizeToCome(u) BY DEF SizeToCome
    <3> QED BY <3>1, <3>2 DEF SizeIsBuilt
  <2>2. CASE v \notin DOMAIN variables BY <1>1, <2>2
  <2> QED BY <2>1, <2>2
<1> QED BY <1>1 DEF BuiltKnown

(* What a declaration does to the variables. *)
LEMMA DeclaredLast ==
  ASSUME Inv, NEW v \in Variable, variables' = Append(variables, v)
  PROVE  /\ DOMAIN variables \subseteq DOMAIN variables'
         /\ \A w \in DOMAIN variables : variables'[w] = variables[w]
         /\ \A w \in DOMAIN variables' \ DOMAIN variables : w = Len(variables') /\ variables'[w] = v
         /\ Len(variables') = Len(variables) + 1 /\ Len(variables) \in Nat
         /\ Len(variables) + 1 \in DOMAIN variables' /\ Latest' = v
<1>1. variables \in Seq(Variable) BY DEF Inv, Typed, StorageOK
<1>2. /\ Len(variables') = Len(variables) + 1 /\ Len(variables) \in Nat
      /\ DOMAIN variables = 1 .. Len(variables) /\ DOMAIN variables' = 1 .. (Len(variables) + 1)
      /\ variables'[Len(variables) + 1] = v
      /\ \A w \in DOMAIN variables : variables'[w] = variables[w]
  BY <1>1
<1>3. Latest' = v BY <1>2 DEF Latest
<1> QED BY <1>2, <1>3

LEMMA NextKeepsBuilt ==
  ASSUME Inv, BuiltKnown, [Separate]_storage
  PROVE  BuiltKnown'
<1>1. Typed BY DEF Inv
<1>2. ASSUME AllocStepped, Allocation \/ First.do # "context" PROVE BuiltKnown'
  <2>1. PICK new, tasks, D, C : AllocStep(new, tasks, D, C) BY <1>2 DEF AllocStepped
  <2>2. agenda # <<>> /\ tasks \in Seq(GoodTask) /\ agenda' = tasks \o Rest /\ variables' = variables
        /\ built \subseteq built'
    BY <2>1 DEF AllocStep
  <2> QED BY <1>2, <2>2, BuiltGoesOn
<1>3. ASSUME ReleaseStepped PROVE BuiltKnown'
  <2>1. PICK tasks : Unheaping(tasks) /\ agenda' = tasks \o Rest BY <1>3 DEF ReleaseStepped
  <2>2. agenda # <<>> /\ tasks \in Seq(GoodTask) /\ variables' = variables /\ built \subseteq built'
        /\ First.do # "context"
    BY <1>3, <2>1 DEF ReleaseStepped, Unheaping, Releases
  <2> QED BY <2>1, <2>2, BuiltGoesOn
<1>4. ASSUME FreeStepped PROVE BuiltKnown'
  <2>1. PICK tasks \in Seq(GoodTask) : tasks = <<>>
    <3>1. <<>> \in Seq(GoodTask) OBVIOUS
    <3> QED BY <3>1
  <2>2. agenda # <<>> /\ agenda' = tasks \o Rest /\ variables' = variables /\ built \subseteq built'
        /\ First.do # "context"
    BY <1>4, <2>1 DEF FreeStepped
  <2> QED BY <2>2, BuiltGoesOn
<1>5. ASSUME Quiet PROVE BuiltKnown'
  <2>1. variables' = variables /\ agenda' = agenda /\ built' = built BY <1>5 DEF Quiet
  <2> QED BY <2>1 DEF BuiltKnown, SizeIsBuilt, SizeToCome
<1>6. ASSUME NEW place, NEW region, NEW t \in Types, NEW tasks, Declare(place, region, t, tasks),
             place \in {"heaped", "stacked", "context", "argument"},
             place = "context" => HasOpenSize(t) \/ tasks = <<ToDo("context", t, Base)>>
      PROVE  BuiltKnown'
  <2>1. PICK v : v = [place |-> place, type |-> t, base |-> Len(regions) + 1, count |-> count, live |-> TRUE]
    OBVIOUS
  <2>2. v \in Variable /\ v.place = place /\ v.type = t
    <3>1. Len(regions) \in Nat /\ count \in Nat BY <1>1, CountsAssumption DEF Typed, StorageOK
    <3> QED BY <1>6, <2>1, <3>1 DEF Variable
  <2>3. agenda = <<>> /\ variables' = Append(variables, v) /\ built' = built /\ agenda' = tasks
    BY <1>6, <2>1 DEF Declare, Idle
  <2>4. ASSUME tasks = <<ToDo("context", t, Base)>>, NEW u \in OutsideTables[t] PROVE SizeToCome(u)'
    <3>1. 1 \in DOMAIN agenda' /\ agenda'[1].do = "context" /\ agenda'[1].type = t BY <2>3, <2>4 DEF ToDo
    <3> QED BY <2>4, <3>1 DEF SizeToCome
  <2>5. /\ DOMAIN variables \subseteq DOMAIN variables'
        /\ \A w \in DOMAIN variables : variables'[w] = variables[w]
        /\ \A w \in DOMAIN variables' \ DOMAIN variables : w = Len(variables') /\ variables'[w] = v
    BY <2>2, <2>3, DeclaredLast
  <2> QED BY <1>6, <2>2, <2>3, <2>4, <2>5, BuiltBetween
<1>7. CASE DeclareHeaped \/ DeclareStacked BY <1>6, <1>7 DEF DeclareHeaped, DeclareStacked
<1>8. CASE DeclareContext
  <2>1. PICK t \in Literal :
          Declare("context", "global", t,
                  IF IsOpen(t) THEN <<>> ELSE <<ToDo("context", t, Base)>>)
    BY <1>8 DEF DeclareContext
  <2>2. t \in Types /\ t \in OutsideTables[t] BY LiteralAssumption, OutsideIs
  <2>3. IsOpen(t) => HasOpenSize(t) BY <2>2 DEF HasOpenSize
  <2> QED BY <1>6, <2>1, <2>2, <2>3
<1>9. CASE PassArgument
  <2>1. PICK w \in DOMAIN variables :
          /\ variables' = Append(variables,
               [place |-> "argument", type |-> variables[w].type, base |-> Len(regions) + 1,
                count |-> count, live |-> TRUE])
          /\ TRUE
    BY <1>9 DEF PassArgument
  <2>2. PICK v : v = [place |-> "argument", type |-> variables[w].type, base |-> Len(regions) + 1,
                      count |-> count, live |-> TRUE]
    OBVIOUS
  <2>3. v \in Variable /\ v.place = "argument"
    <3>1. Len(regions) \in Nat /\ count \in Nat /\ variables \in Seq(Variable)
      BY <1>1, CountsAssumption DEF Typed, StorageOK
    <3>2. PICK x \in Variable : x = variables[w] BY <3>1
    <3>3. x.type \in Types BY DEF Variable
    <3> QED BY <2>2, <3>1, <3>2, <3>3 DEF Variable
  <2>4. agenda = <<>> /\ variables' = Append(variables, v) /\ built' = built
    BY <1>9, <2>1, <2>2 DEF PassArgument, Idle
  <2>5. /\ DOMAIN variables \subseteq DOMAIN variables'
        /\ \A u \in DOMAIN variables : variables'[u] = variables[u]
        /\ \A u \in DOMAIN variables' \ DOMAIN variables : u = Len(variables') /\ variables'[u] = v
    BY <2>3, <2>4, DeclaredLast
  <2> QED BY <2>3, <2>4, <2>5, BuiltBetween
<1>10. CASE Unheap
  <2>1. PICK v \in DOMAIN variables : variables' = [variables EXCEPT ![v].live = FALSE] BY <1>10 DEF Unheap
  <2>2. \A w \in DOMAIN variables : variables[w] \in Variable BY <1>1 DEF Typed, StorageOK
  <2>3. /\ DOMAIN variables' = DOMAIN variables
        /\ \A w \in DOMAIN variables :
             variables'[w].place = variables[w].place /\ variables'[w].type = variables[w].type
    BY <2>1, <2>2 DEF Variable
  <2>4. agenda = <<>> /\ built' = built BY <1>10 DEF Unheap, Idle
  <2> QED BY <2>3, <2>4, BuiltBetween
<1>11. CASE AssignCount BY <1>5, <1>11 DEF AssignCount, Quiet
<1>12. CASE Allocation
  <2>1. UNCHANGED <<variables, count, status>> BY <1>12 DEF Allocation
  <2> QED BY <1>2, <1>3, <1>12, <2>1, VectorSteps, TableSteps, CollectionSteps, MemberStep, SkipStep DEF Allocation
<1>13. CASE CopyVector
  <2>1. First.do # "context" BY <1>13 DEF CopyVector, Doing
  <2> QED BY <1>2, <1>5, <1>13, <2>1, CopyVectorStep DEF Quiet
<1>14. CASE CopyCrash \/ DeallocCrash \/ ReadWild \/ AssignWild
  BY <1>5, <1>14 DEF CopyCrash, DeallocCrash, ReadWild, AssignWild, Quiet
<1>15. CASE Deallocation BY <1>3, <1>15, DeallocSteps
<1>16. CASE FreeRegion
  <2> DEFINE r == First.at[1]
  <2>1. CASE Live(r) /\ regions[r].place = "heap"
    <3>1. FreeStepped BY <1>16, <2>1 DEF FreeRegion, FreeStepped, GoOn
    <3> QED BY <1>4, <3>1
  <2>2. CASE ~(Live(r) /\ regions[r].place = "heap") BY <1>5, <1>16, <2>2 DEF FreeRegion, Quiet
  <2> QED BY <2>1, <2>2
<1>17. CASE UNCHANGED storage BY <1>5, <1>17 DEF storage, Quiet
<1> QED BY <1>7, <1>8, <1>9, <1>10, <1>11, <1>12, <1>13, <1>14, <1>15, <1>16, <1>17 DEF Separate, Statement

LEMMA TailOf ==
  ASSUME NEW b \in Nat, NEW s \in Seq(Nat)
  PROVE  Tail(<<b>> \o s) = s
<1> QED OBVIOUS

(* The place of a spot when its path starts in another region. *)
LEMMA Moved ==
  ASSUME NEW t \in Types, NEW at \in Seq(Nat), at # <<>>, NEW p \in Spots(at, t), NEW b \in Nat
  PROVE  \E q \in Spots(<<b>> \o Tail(at), t) :
           /\ q.at \in Seq(Nat) /\ q.at # <<>> /\ q.at[1] = b
           /\ p.at[1] = at[1] /\ p.at = <<at[1]>> \o Tail(q.at) /\ q.type = p.type
           /\ q.at = <<b>> \o Tail(p.at)
<1> PICK q : q = [at |-> <<b>> \o Tail(p.at), type |-> p.type]
  OBVIOUS
<1>1. q \in Spots(<<b>> \o Tail(at), t) BY SpotMoves
<1>2. p \in Spot /\ p.at # <<>> /\ p.at[1] = at[1] BY SpotsTyped
<1>3. PICK c \in Seq(Nat) : c = p.at BY <1>2 DEF Spot
<1>4. c # <<>> /\ c[1] = at[1] BY <1>2, <1>3
<1>5. /\ <<b>> \o Tail(c) \in Seq(Nat) /\ <<b>> \o Tail(c) # <<>> /\ (<<b>> \o Tail(c))[1] = b
      /\ Tail(<<b>> \o Tail(c)) = Tail(c)
  <2> DEFINE d == <<b>> \o Tail(c)
  <2>1. d \in Seq(Nat) /\ d # <<>> /\ d[1] = b BY <1>4
  <2>2. Tail(d) = Tail(c)
    <3>1. Tail(c) \in Seq(Nat) BY <1>4
    <3> QED BY <3>1, TailOf
  <2> QED BY <2>1, <2>2
<1>6. c = <<c[1]>> \o Tail(c) BY <1>4
<1>7. q.at = <<b>> \o Tail(c) /\ q.type = p.type BY <1>3
<1> QED BY <1>1, <1>3, <1>4, <1>5, <1>6, <1>7

(* The vectors of a variable that is not being set up have their arrays. *)
LEMMA LendersPlace ==
  ASSUME Inv, status = "ok", NEW r \in DOMAIN regions, OwnerOf(r).place # "stacked",
         agenda = <<>> \/ regions[r].owner # Len(variables),
         NEW q \in PlacesIn(r), ClassOf(q.type) = "vector", Def[q.type].sized
  PROVE  q.at \in DOMAIN memory /\ Own(q.at) /\ q.at[1] = r
<1>1. q.at[1] = r BY PlacesInTyped DEF Inv
<1>2. ~Pending(q)
  <2> SUFFICES ASSUME NEW i \in DOMAIN agenda, q \in Cover(agenda[i]) PROVE FALSE
    BY DEF Pending
  <2>1. regions[q.at[1]].owner = Len(variables) BY CoverKnown
  <2> QED BY <1>1, <2>1
<1>3. SeenIn(q, r) BY <1>2 DEF SeenIn, SeenTo
<1> QED BY <1>1, <1>3 DEF Inv, PlacesSettled

LEMMA NothingToCopy ==
  ASSUME \A i \in DOMAIN agenda' : agenda'[i].do # "copy"
  PROVE  CopyKnown'
<1> QED BY DEF CopyKnown, Loaned

(* Only what belongs to an argument is copied. *)
LEMMA OnlyArguments ==
  ASSUME Inv', Declared' # "argument"
  PROVE  CopyKnown'
<1>1. ASSUME NEW i \in DOMAIN agenda', agenda'[i].do = "copy" PROVE FALSE
  <2>1. Charged(agenda[i])' BY <1>1 DEF Inv, AllCharged
  <2>2. agenda'[i].do \in DoneFor(Declared') BY <1>1, <2>1 DEF Charged, Allocates
  <2> QED BY <1>1, <2>2 DEF DoneFor
<1> QED BY <1>1, NothingToCopy

(* The storage stays, and so does what is lent. *)
LEMMA CopyGoesOn ==
  ASSUME Inv, CopyKnown, agenda # <<>>, UNCHANGED <<regions, memory, variables>>, First.do = "copy",
         NEW tasks \in Seq(GoodTask), agenda' = tasks \o Rest,
         \A k \in DOMAIN tasks : Cover(tasks[k]) \subseteq Cover(First)
  PROVE  CopyKnown'
<1>1. Typed /\ 1 \in DOMAIN agenda /\ First = agenda[1] /\ agenda \in Seq(GoodTask) BY DEF Inv, Typed, First
<1>2. LikeStacked => LikeStacked' BY DEF LikeStacked, Latest
<1>3. \A a : Lent(a) => Lent(a)' BY DEF Lent, OwnerOf
<1>4. ASSUME ~LikeStacked, NEW i \in DOMAIN agenda', agenda'[i].do = "copy", NEW p \in Cover(agenda'[i]),
             ClassOf(p.type) = "vector", Def[p.type].sized
      PROVE  Lent(p.at)
  <2>1. \E k \in DOMAIN agenda : agenda[k].do = "copy" /\ p \in Cover(agenda[k])
    <3>1. CASE i \in DOMAIN tasks /\ agenda'[i] = tasks[i] BY <1>1, <1>4, <3>1
    <3>2. CASE i - Len(tasks) + 1 \in DOMAIN agenda /\ agenda'[i] = agenda[i - Len(tasks) + 1] BY <1>4, <3>2
    <3> QED BY <1>1, <3>1, <3>2, AgendaAfter
  <2> QED BY <1>4, <2>1 DEF CopyKnown, Loaned
<1> QED BY <1>2, <1>3, <1>4 DEF CopyKnown, Loaned

LEMMA PassedLent ==
  ASSUME Inv, Inv', PassArgument
  PROVE  CopyKnown'
<1>1. PICK u \in DOMAIN variables :
         LET t == variables[u].type
             from == variables[u].base
             base == Len(regions) + 1
             slots == {b \in DOMAIN memory : b[1] = from}
         IN /\ variables[u].live /\ t \in Literal /\ ClassOf(t) \in {"vector", "collection"}
            /\ regions' = Append(regions, BaseRegion("stack", t))
            /\ variables' = Append(variables,
                 [place |-> "argument", type |-> t, base |-> base, count |-> count, live |-> TRUE])
            /\ memory' = [b \in DOMAIN memory \cup {<<base>> \o Tail(c) : c \in slots} |->
                            IF b[1] = base THEN memory[<<from>> \o Tail(b)] ELSE memory[b]]
            /\ agenda' = IF IsOpen(t) THEN <<>> ELSE <<ToDo("copy", t, <<base>>)>>
  BY Zenon DEF PassArgument
<1>2. PICK x \in Variable : x = variables[u] BY DEF Inv, Typed, StorageOK
<1>3. PICK t \in Types : t = variables[u].type BY <1>2 DEF Variable
<1>4. PICK base \in Nat : base = Len(regions) + 1
  <2>1. Len(regions) + 1 \in Nat BY DEF Inv, Typed, StorageOK
  <2> QED BY <2>1
<1>5. PICK from \in DOMAIN regions : from = variables[u].base BY DEF Inv, Typed, StorageOK
<1>6. /\ base \notin DOMAIN regions /\ from \in Nat /\ regions \in Seq(Region)
      /\ regions[from].owner = u /\ regions[from].role = "base" /\ regions[from].type = t
      /\ status = "ok" /\ agenda = <<>>
  <2>1. regions \in Seq(Region) /\ status = "ok" /\ agenda = <<>>
    BY DEF PassArgument, Idle, Inv, Typed, StorageOK
  <2>2. regions[from].owner = u /\ regions[from].role = "base" /\ regions[from].type = t
    BY <1>3, <1>5 DEF Inv, StorageKnown
  <2> QED BY <1>4, <1>5, <2>1, <2>2
<1>7. PICK v : v = [place |-> "argument", type |-> t, base |-> base, count |-> count, live |-> TRUE] OBVIOUS
<1>8. /\ v \in Variable /\ v.type = t /\ variables' = Append(variables, v) /\ variables[u].live
      /\ regions' = Append(regions, BaseRegion("stack", t))
  <2>1. count \in Nat BY CountsAssumption DEF Inv, Typed, StorageOK
  <2> QED BY <1>1, <1>3, <1>4, <1>7, <2>1 DEF Variable
<1>9. /\ \A w \in DOMAIN variables : w \in DOMAIN variables' /\ variables'[w] = variables[w]
      /\ Len(variables') = Len(variables) + 1 /\ Len(variables) \in Nat /\ Latest' = v
      /\ DOMAIN variables = 1 .. Len(variables)
  <2>1. variables \in Seq(Variable) BY DEF Inv, Typed, StorageOK
  <2> QED BY <1>8, <2>1, DeclaredLast
<1>10. ASSUME ~LikeStacked', NEW i \in DOMAIN agenda', agenda'[i].do = "copy",
              NEW p \in Cover(agenda'[i]), ClassOf(p.type) = "vector", Def[p.type].sized
       PROVE  Lent(p.at)'
  <2>1. variables[u].place # "stacked" BY <1>3, <1>8, <1>9, <1>10 DEF LikeStacked
  <2>2. agenda'[i] = ToDo("copy", t, <<base>>) BY <1>1, <1>3, <1>4, <1>10
  <2>3. PICK at \in Seq(Nat) : at = <<base>>
    <3>1. <<base>> \in Seq(Nat) OBVIOUS
    <3> QED BY <3>1
  <2>4. p \in Spots(at, t) BY <1>10, <2>2, <2>3 DEF Cover, ToDo
  <2>5. at # <<>> /\ at[1] = base /\ Tail(at) = <<>> BY <2>3
  <2>6. PICK q \in Spots(<<from>> \o Tail(at), t) :
          /\ q.at \in Seq(Nat) /\ q.at # <<>> /\ q.at[1] = from
          /\ p.at[1] = at[1] /\ p.at = <<at[1]>> \o Tail(q.at) /\ q.type = p.type
          /\ q.at = <<from>> \o Tail(p.at)
    <3>1. from \in Nat /\ at # <<>> /\ p \in Spots(at, t) BY <1>6, <2>4, <2>5
    <3> QED BY <3>1, Moved
  <2>7. /\ q \in Spots(<<from>> \o Tail(at), t) /\ q.at[1] = from /\ q.at \in Seq(Nat)
        /\ p.at[1] = base /\ p.at = <<base>> \o Tail(q.at) /\ q.type = p.type
        /\ q.at = <<from>> \o Tail(p.at)
    BY <2>5, <2>6
  <2>8. q \in PlacesIn(from)
    <3>1. <<from>> \o <<>> = <<from>> BY <1>6, NothingJoined
    <3>2. q \in PlacesAt(from, "base", t, regions[from].len) BY <2>5, <2>7, <3>1 DEF PlacesAt
    <3> QED BY <1>6, <3>2, PlacesInAt
  <2>9. OwnerOf(from) = variables[u] BY <1>6 DEF OwnerOf
  <2>10. q.at \in DOMAIN memory /\ Own(q.at) BY <1>6, <1>10, <2>1, <2>7, <2>8, <2>9, LendersPlace
  <2>11. PICK m \in DOMAIN regions : m = memory[q.at] BY <2>10 DEF Inv, Typed, StorageOK
  <2>12. regions[m].owner = u BY <1>6, <2>7, <2>10, <2>11 DEF Own
  <2>13. p.at \in DOMAIN memory' /\ memory'[p.at] = m
    <3> DEFINE slots == {b \in DOMAIN memory : b[1] = from}
               C == {<<base>> \o Tail(c) : c \in slots}
    <3>1. memory' = [b \in DOMAIN memory \cup C |->
                       IF b[1] = base THEN memory[<<from>> \o Tail(b)] ELSE memory[b]]
      BY <1>1, <1>4, <1>5
    <3>2. q.at \in slots BY <2>7, <2>10
    <3>3. p.at \in C BY <2>7, <3>2
    <3> HIDE DEF C
    <3> QED BY <2>7, <2>11, <3>1, <3>3
  <2>14. regions'[m] = regions[m] BY <1>6, <1>8
  <2>15. OwnerOf(m)' = variables[u] BY <1>9, <2>12, <2>14 DEF OwnerOf
  <2>16. u # Len(variables') BY <1>9
  <2> QED BY <1>8, <2>1, <2>12, <2>13, <2>14, <2>15, <2>16 DEF Lent
<1> QED BY <1>10 DEF CopyKnown, Loaned

LEMMA CopiedLent ==
  ASSUME Inv, Inv', Tree, CopyKnown, CopyVector
  PROVE  CopyKnown'
<1>21. PICK t : t = First.type OBVIOUS
<1>22. PICK at : at = First.at OBVIOUS
<1>23. PICK n : n = NumElem(t) OBVIOUS
<1>24. PICK old : old = PointsTo(at) OBVIOUS
<1>1. /\ status = "ok" /\ agenda # <<>> /\ First.do = "copy" /\ ClassOf(t) = "vector"
      /\ UNCHANGED <<variables, count, built>> /\ First.do \in Allocates
      /\ \E place \in {"heaped", "stacked", "context"} : <<t, place>> \in built
  BY <1>21 DEF CopyVector, Doing, Class, Allocates
<1>2. /\ t \in Types /\ at \in Seq(Nat) /\ at # <<>> /\ at[1] \in DOMAIN regions
      /\ regions \in Seq(Region) /\ Len(regions) \in Nat /\ DOMAIN regions = 1 .. Len(regions)
      /\ Declared = "argument" /\ count = Latest.count /\ Latest.type \in Literal
      /\ t \in OutsideTables[Latest.type] /\ Latest.type \in Types
  BY <1>1, <1>21, <1>22, CallKnown DEF DoneFor
<1>3. Typed /\ StorageKnown /\ PointersLead /\ 1 \in DOMAIN agenda /\ First = agenda[1] /\ agenda \in Seq(GoodTask)
  BY <1>1 DEF Inv, Typed, First
<1>4. ElementOf(t) \in Types /\ n \in Nat /\ Def[t].sized
  BY <1>1, <1>2, <1>3, <1>23, DefTyped, NumElemTyped DEF ClassOf, PointersLead
<1>5. [at |-> at, type |-> t] \in Cover(First)
  <2>1. [at |-> at, type |-> t] \in Spots(at, t) BY <1>1, <1>2, VectorSpots
  <2> QED BY <1>1, <1>21, <1>22, <2>1 DEF Cover
<1>6. LikeStacked => LikeStacked' BY <1>1 DEF LikeStacked, Latest
<1>7. CASE LikeStacked BY <1>6, <1>7 DEF CopyKnown
<1>8. CASE ~Live(old)
  <2>1. UNCHANGED <<regions, memory, agenda>> BY <1>8, <1>22, <1>24 DEF CopyVector
  <2>2. \A a : Lent(a) => Lent(a)' BY <1>1, <2>1 DEF Lent, OwnerOf
  <2> QED BY <1>6, <2>1, <2>2 DEF CopyKnown, Loaned
<1>9. CASE ~LikeStacked /\ Live(old)
  <2>23. PICK handles \in Seq(Region) : handles = CopyHandles
    <3>1. IsHandles(CopyHandles) BY <1>2, <1>21, HandleOnly DEF CopyHandles
    <3> QED BY <3>1 DEF IsHandles
  <2>1. PICK array \in Nat : array = Len(regions) + Len(handles) + 1
    <3>1. Len(regions) + Len(handles) + 1 \in Nat BY <1>2
    <3> QED BY <3>1
  <2>21. PICK e \in Types : e = ElementOf(t) BY <1>4
  <2>22. PICK tasks : tasks = Elements("copy", e, array, n) OBVIOUS
  <2> DEFINE slots == {b \in DOMAIN memory : b[1] = old}
             C == {<<array>> \o Tail(b) : b \in slots}
             new == <<NewRegion("stack", "array", e, n)>>
  <2>2. /\ regions' = (regions \o handles) \o new
        /\ memory' = [b \in DOMAIN memory \cup C \cup {at} |->
                        IF b = at THEN array
                        ELSE IF b \in C THEN memory[<<old>> \o Tail(b)] ELSE memory[b]]
        /\ agenda' = tasks \o Rest
    <3> DEFINE old0 == PointsTo(First.at)
               array0 == Len(regions) + Len(CopyHandles) + 1
               slots0 == {b \in DOMAIN memory : b[1] = old0}
               C0 == {<<array0>> \o Tail(b) : b \in slots0}
               new0 == <<NewRegion("stack", "array", ElementOf(First.type), NumElem(First.type))>>
    <3>1. Live(old0) BY <1>9, <1>22, <1>24
    <3>2. /\ regions' = (regions \o CopyHandles) \o new0
          /\ memory' = [b \in DOMAIN memory \cup C0 \cup {First.at} |->
                          IF b = First.at THEN array0
                          ELSE IF b \in C0 THEN memory[<<old0>> \o Tail(b)] ELSE memory[b]]
          /\ agenda' = Elements("copy", ElementOf(First.type), array0, NumElem(First.type)) \o Rest
      BY <3>1, Zenon DEF CopyVector, GoOn
    <3>3. old0 = old /\ array0 = array /\ C0 = C /\ new0 = new
      BY <1>21, <1>22, <1>23, <1>24, <2>1, <2>21, <2>23
    <3> HIDE DEF old0, array0, slots0, C0, new0, slots, C, new
    <3>4. tasks = Elements("copy", ElementOf(First.type), array0, NumElem(First.type))
      BY <1>21, <1>23, <2>21, <2>22, <3>3
    <3> QED BY <1>22, <2>23, <3>2, <3>3, <3>4
  <2>3. array \notin DOMAIN regions /\ \A r \in DOMAIN regions : regions'[r] = regions[r]
    <3>1. NewRegion("stack", "array", e, n) \in Region
      <4>1. Len(variables) \in Nat BY <1>3 DEF Typed, StorageOK
      <4> QED BY <1>2, <1>4, <4>1 DEF NewRegion, Region
    <3> HIDE DEF new
    <3>2. new \in Seq(Region) BY <3>1 DEF new
    <3> QED BY <1>2, <2>1, <2>2, <3>2
  <2>4. Lent(at)
    <3>1. Loaned(First) BY <1>3, <1>9 DEF CopyKnown
    <3>2. PICK p \in Cover(First) : p.at = at /\ p.type = t BY <1>5
    <3> QED BY <1>1, <1>4, <3>1, <3>2 DEF Loaned
  <2>5. /\ at \in DOMAIN memory /\ old = memory[at] /\ old \in DOMAIN regions /\ old \in Nat
        /\ regions[old].owner # Len(variables) /\ OwnerOf(old).live /\ OwnerOf(old).place # "stacked"
    <3>1. at \in DOMAIN memory /\ old = memory[at] BY <1>24, <2>4 DEF Lent, PointsTo
    <3>2. old \in DOMAIN regions BY <1>3, <3>1 DEF Typed, StorageOK
    <3> QED BY <1>2, <2>4, <3>1, <3>2 DEF Lent
  <2>6. regions[old].role = "array" /\ regions[old].type = e /\ regions[old].len = n
    <3>1. PICK p \in Spots(at, t) : p.at = at /\ p.type = t
      <4>1. [at |-> at, type |-> t] \in Spots(at, t) BY <1>1, <1>2, VectorSpots
      <4> QED BY <4>1
    <3>2. p \in PlacesIn(at[1]) BY <1>1, <1>21, <1>22, <3>1, CallKnown
    <3>3. Leads(p) BY <1>2, <1>3, <2>5, <3>1, <3>2 DEF PointersLead
    <3>4. /\ regions[old].role = "array" /\ regions[old].type = e
          /\ regions[old].len = SizeFor(t, old)
      BY <1>1, <2>5, <2>21, <3>1, <3>3 DEF Leads
    <3>5. Def[t].size # 0
      <4>1. t \in Literal BY <1>2, OutsideIs
      <4> QED BY <1>1, <1>4, <4>1, LiteralAssumption, DefTyped DEF ClassOf
    <3> QED BY <1>23, <3>4, <3>5 DEF SizeFor, NumElem
  <2>7. tasks \in Seq(GoodTask) BY <1>4, <2>22, ElementsGood DEF Calls
  <2>8. \A c \in C : c[1] = array
    <3>1. ASSUME NEW b \in slots PROVE (<<array>> \o Tail(b))[1] = array
      <4>1. b \in Seq(Nat) /\ b # <<>> BY <1>3 DEF Typed, StorageOK
      <4> QED BY <4>1
    <3> QED BY <3>1
  <2> HIDE DEF slots, C, new
  <2>9. ASSUME NEW i \in DOMAIN agenda', NEW k \in DOMAIN agenda, k > 1, agenda'[i] = agenda[k],
               agenda'[i].do = "copy", NEW p \in Cover(agenda'[i]), ClassOf(p.type) = "vector", Def[p.type].sized
        PROVE  Lent(p.at)'
    <3>1. p \in Cover(agenda[k]) /\ agenda[k].do = "copy" BY <2>9
    <3>2. Lent(p.at) BY <1>9, <2>9, <3>1 DEF CopyKnown, Loaned
    <3>3. p.at # at
      <4>1. PICK q \in Cover(agenda[1]) : q.at = at BY <1>3, <1>5
      <4>2. k # 1 BY <1>3, <2>9
      <4> QED BY <1>3, <3>1, <4>1, <4>2 DEF Tree, CoversApart
    <3>4. p.at[1] \in DOMAIN regions BY <3>1, CoverKnown
    <3>5. p.at \notin C /\ p.at \in DOMAIN memory BY <2>3, <2>8, <3>2, <3>4 DEF Lent
    <3>6. PICK m \in DOMAIN regions : m = memory[p.at] BY <1>3, <3>5 DEF Typed, StorageOK
    <3>7. memory'[p.at] = m /\ p.at \in DOMAIN memory' BY <2>2, <3>3, <3>5, <3>6
    <3>8. regions'[m] = regions[m] /\ OwnerOf(m)' = OwnerOf(m) BY <1>1, <2>3 DEF OwnerOf
    <3> QED BY <1>1, <3>2, <3>6, <3>7, <3>8 DEF Lent
  <2>10. ASSUME NEW i \in DOMAIN agenda', i \in DOMAIN tasks, agenda'[i] = tasks[i],
                NEW p \in Cover(agenda'[i]), ClassOf(p.type) = "vector", Def[p.type].sized
         PROVE  Lent(p.at)'
    <3>1. tasks[i] = ToDo("copy", e, <<array, i>>) /\ i \in 1 .. n /\ ClassOf(e) \in {"vector", "collection"}
      BY <1>4, <2>10, <2>22 DEF Elements
    <3>2. PICK place \in Seq(Nat) : place = <<array, i>>
      <4>1. <<array, i>> \in Seq(Nat) BY <1>4, <3>1
      <4> QED BY <4>1
    <3>3. p \in Spots(place, e) BY <2>10, <3>1, <3>2 DEF Cover, ToDo
    <3>4. place # <<>> /\ place[1] = array /\ Tail(place) = <<i>> BY <1>4, <3>1, <3>2
    <3>5. PICK q \in Spots(<<old>> \o Tail(place), e) :
            /\ q.at \in Seq(Nat) /\ q.at # <<>> /\ q.at[1] = old
            /\ p.at[1] = place[1] /\ p.at = <<place[1]>> \o Tail(q.at) /\ q.type = p.type
            /\ q.at = <<old>> \o Tail(p.at)
      <4>1. old \in Nat /\ place # <<>> /\ p \in Spots(place, e) /\ place \in Seq(Nat) /\ e \in Types
        BY <2>5, <3>3, <3>4
      <4>2. PICK b \in Nat : b = old BY <4>1
      <4>3. \E q \in Spots(<<b>> \o Tail(place), e) :
              /\ q.at \in Seq(Nat) /\ q.at # <<>> /\ q.at[1] = b
              /\ p.at[1] = place[1] /\ p.at = <<place[1]>> \o Tail(q.at) /\ q.type = p.type
              /\ q.at = <<b>> \o Tail(p.at)
        BY <4>1, Moved, Zenon
      <4> QED BY <4>2, <4>3
    <3>6. q \in PlacesIn(old)
      <4>1. <<old>> \o <<i>> = <<old, i>>
        <5>1. old \in Nat /\ i \in Nat BY <1>4, <2>5, <3>1
        <5> QED BY <5>1, PairJoined
      <4>2. q \in Spots(<<old, i>>, e) BY <3>4, <3>5, <4>1
      <4>3. ClassOf(e) # "table" BY <3>1
      <4> QED BY <2>6, <3>1, <4>2, <4>3, ArrayPlaces
    <3>7. q.at \in DOMAIN memory /\ Own(q.at) BY <1>1, <2>5, <2>10, <3>5, <3>6, LendersPlace
    <3>8. PICK m \in DOMAIN regions : m = memory[q.at] BY <1>3, <3>7 DEF Typed, StorageOK
    <3>9. regions[m].owner = regions[old].owner BY <3>5, <3>7, <3>8 DEF Own
    <3>10. q.at \in slots /\ p.at \in C
      <4>1. q.at \in slots BY <3>5, <3>7 DEF slots
      <4>2. p.at = <<array>> \o Tail(q.at) BY <3>4, <3>5
      <4> QED BY <4>1, <4>2 DEF C
    <3>11. p.at # at BY <1>2, <2>3, <3>4, <3>5
    <3>12. memory'[p.at] = m /\ p.at \in DOMAIN memory' BY <2>2, <3>5, <3>8, <3>10, <3>11
    <3>13. regions'[m] = regions[m] /\ OwnerOf(m)' = OwnerOf(old) BY <1>1, <2>3, <3>9 DEF OwnerOf
    <3> QED BY <1>1, <2>5, <3>9, <3>12, <3>13 DEF Lent
  <2>11. ASSUME NEW i \in DOMAIN agenda' PROVE Loaned(agenda[i])'
    <3>1. CASE i \in DOMAIN tasks /\ agenda'[i] = tasks[i] BY <2>10, <3>1 DEF Loaned
    <3>2. CASE i - Len(tasks) + 1 \in DOMAIN agenda /\ i - Len(tasks) + 1 > 1 /\ agenda'[i] = agenda[i - Len(tasks) + 1]
      BY <2>9, <3>2 DEF Loaned
    <3>3. \/ i \in DOMAIN tasks /\ agenda'[i] = tasks[i]
          \/ /\ i - Len(tasks) + 1 \in DOMAIN agenda /\ i - Len(tasks) + 1 > 1
             /\ agenda'[i] = agenda[i - Len(tasks) + 1]
      <4>1. agenda' = tasks \o Rest BY <2>2
      <4>2. agenda # <<>> /\ Typed BY <1>1, <1>3
      <4> QED BY <2>7, <4>1, <4>2, AgendaAfter
    <3> QED BY <3>1, <3>2, <3>3
  <2> QED BY <2>11 DEF CopyKnown
<1> QED BY <1>7, <1>8, <1>9

LEMMA NextKeepsCopy ==
  ASSUME Inv, Tree, CopyKnown, [Separate]_storage
  PROVE  CopyKnown'
<1>1. Typed /\ Inv' BY NextKeepsInv DEF Inv
<1>2. ASSUME agenda # <<>>, First.do \in Releases, NEW tasks \in Seq(GoodTask), agenda' = tasks \o Rest,
             \A i \in DOMAIN tasks : tasks[i].do \in Releases
      PROVE  CopyKnown'
  <2>1. \A i \in DOMAIN agenda : agenda[i].do \in Releases
    <3>1. First = agenda[1] /\ 1 \in DOMAIN agenda BY <1>1, <1>2 DEF Typed, StorageOK, First
    <3> QED BY <1>2, <3>1 DEF Tree, OneKind, Releases, Allocates
  <2>2. ASSUME NEW i \in DOMAIN agenda' PROVE agenda'[i].do \in Releases
    BY <1>1, <1>2, <2>1, AgendaAfter, Zenon
  <2> QED BY <2>2, NothingToCopy DEF Releases
<1>3. ASSUME ReleaseStepped PROVE CopyKnown'
  <2>1. PICK tasks : Unheaping(tasks) /\ agenda' = tasks \o Rest BY <1>3 DEF ReleaseStepped
  <2>2. agenda # <<>> /\ First.do \in Releases /\ tasks \in Seq(GoodTask)
        /\ \A i \in DOMAIN tasks : tasks[i].do \in Releases
    BY <1>3, <2>1 DEF ReleaseStepped, Unheaping, ForUnheaped
  <2> QED BY <1>2, <2>1, <2>2
<1>4. ASSUME FreeStepped PROVE CopyKnown'
  <2>1. PICK tasks \in Seq(GoodTask) : tasks = <<>>
    <3>1. <<>> \in Seq(GoodTask) OBVIOUS
    <3> QED BY <3>1
  <2>2. agenda # <<>> /\ agenda' = tasks \o Rest /\ First.do \in Releases
    BY <1>4, <2>1 DEF FreeStepped, Releases
  <2>3. \A i \in DOMAIN tasks : tasks[i].do \in Releases
    <3>1. DOMAIN tasks = {} BY <2>1
    <3> QED BY <3>1, Zenon
  <2> QED BY <1>2, <2>2, <2>3
<1>5. ASSUME Quiet PROVE CopyKnown'
  BY <1>5, Zenon DEF Quiet, CopyKnown, Loaned, LikeStacked, Lent, OwnerOf, Latest
<1>6. ASSUME agenda # <<>>, First.do \in Allocates, First.do # "copy", variables' = variables PROVE CopyKnown'
  <2>1. Declared # "argument" BY <1>6, CallKnown DEF DoneFor
  <2>2. Declared' # "argument" BY <1>6, <2>1 DEF Declared, Latest
  <2> QED BY <1>1, <2>2, OnlyArguments
<1>7. CASE DeclareHeaped \/ DeclareStacked \/ DeclareContext
  <2>1. \A i \in DOMAIN agenda' : agenda'[i].do # "copy"
    <3>1. \E t \in Types :
            \/ agenda' = <<>>
            \/ \E do \in {"heap", "stack", "context"} : agenda' = <<ToDo(do, t, Base)>>
      BY <1>7, LiteralAssumption DEF DeclareHeaped, DeclareStacked, DeclareContext, Declare
    <3>2. ASSUME NEW t \in Types, NEW do \in {"heap", "stack", "context"}, agenda' = <<ToDo(do, t, Base)>>,
                 NEW i \in DOMAIN agenda'
          PROVE  agenda'[i].do # "copy"
      <4>1. agenda'[i] = ToDo(do, t, Base) BY <3>2
      <4> QED BY <4>1 DEF ToDo
    <3> QED BY <3>1, <3>2
  <2> QED BY <2>1, NothingToCopy
<1>8. CASE PassArgument BY <1>1, <1>8, PassedLent
<1>9. CASE Unheap
  <2>1. PICK v : agenda' = <<ToDo("dealloc", variables[v].type, <<variables[v].base>>)>> BY <1>9 DEF Unheap
  <2>2. ASSUME NEW i \in DOMAIN agenda' PROVE agenda'[i].do # "copy"
    <3>1. agenda'[i] = ToDo("dealloc", variables[v].type, <<variables[v].base>>) BY <2>1, <2>2
    <3> QED BY <3>1 DEF ToDo
  <2> QED BY <2>2, NothingToCopy
<1>10. CASE AssignCount BY <1>5, <1>10 DEF AssignCount, Quiet
<1>11. ASSUME CopyCollection \/ Skip, First.do = "copy", UNCHANGED <<variables, count, status>> PROVE CopyKnown'
  <2>1. PICK t : t = First.type OBVIOUS
  <2>2. PICK at : at = First.at OBVIOUS
  <2>3. agenda # <<>> /\ UNCHANGED <<regions, memory, variables>> BY <1>11 DEF CopyCollection, Skip, Doing
  <2>4. t \in Types /\ at \in Seq(Nat) /\ at # <<>> BY <1>1, <2>1, <2>2, <2>3, FirstKnown
  <2>5. CASE Skip
    <3>1. PICK tasks \in Seq(GoodTask) : tasks = <<>>
      <4>1. <<>> \in Seq(GoodTask) OBVIOUS
      <4> QED BY <4>1
    <3>2. agenda' = tasks \o Rest BY <2>5, <3>1 DEF Skip, GoOn
    <3>3. \A k \in DOMAIN tasks : Cover(tasks[k]) \subseteq Cover(First) BY <3>1
    <3> QED BY <1>11, <2>3, <3>2, <3>3, CopyGoesOn
  <2>6. CASE CopyCollection
    <3>1. PICK tasks : tasks = Members("copy", t, at) OBVIOUS
    <3>2. agenda' = tasks \o Rest /\ ClassOf(t) = "collection"
      BY <2>1, <2>2, <2>6, <3>1 DEF CopyCollection, GoOn, Doing, Class
    <3>3. tasks \in Seq(GoodTask) BY <2>4, <3>1, MembersGood DEF Calls
    <3>4. ASSUME NEW m \in DOMAIN tasks, NEW p \in Cover(tasks[m]) PROVE p \in Cover(First)
      <4>1. m \in DOMAIN Def[t].parts /\ tasks[m] = ToDo("copy", Def[t].parts[m], at \o <<m>>)
        BY <3>1, <3>4 DEF Members
      <4>2. p \in Spots(at \o <<m>>, Def[t].parts[m]) BY <3>4, <4>1 DEF Cover, ToDo
      <4>3. p \in Spots(at, t) BY <2>4, <3>2, <4>1, <4>2, MemberSpots
      <4> QED BY <1>11, <2>1, <2>2, <4>3 DEF Cover
    <3> QED BY <1>11, <2>3, <3>2, <3>3, <3>4, CopyGoesOn
  <2> QED BY <1>11, <2>5, <2>6
<1>12. CASE Allocation
  <2>1. UNCHANGED <<variables, count, status>> BY <1>12 DEF Allocation
  <2>2. agenda # <<>>
    BY <1>12 DEF Allocation, HeapVector, HeapTable, HeapCollection, ContextVector, ContextTable,
      ContextCollection, StackVector, StackTable, StackCollection, StackMember, StackSubcollection,
      CopyCollection, Skip, Doing
  <2>3. CASE First.do \in Allocates /\ First.do # "copy" BY <1>6, <2>1, <2>2, <2>3
  <2>4. CASE First.do = "copy"
    <3>1. CopyCollection \/ Skip
      BY <1>12, <2>4 DEF Allocation, HeapVector, HeapTable, HeapCollection, ContextVector, ContextTable,
        ContextCollection, StackVector, StackTable, StackCollection, StackMember, StackSubcollection, Doing
    <3> QED BY <1>11, <2>1, <2>4, <3>1
  <2>5. CASE First.do \notin Allocates
    <3>1. Skip
      BY <1>12, <2>5 DEF Allocation, HeapVector, HeapTable, HeapCollection, ContextVector, ContextTable,
        ContextCollection, StackVector, StackTable, StackCollection, StackMember, StackSubcollection,
        CopyCollection, Doing, Allocates
    <3>2. AllocStepped => First.do \in Allocates BY DEF AllocStepped, AllocStep
    <3> QED BY <1>3, <2>1, <2>5, <3>1, <3>2, SkipStep
  <2> QED BY <2>3, <2>4, <2>5
<1>13. CASE CopyVector BY <1>1, <1>13, CopiedLent
<1>14. CASE CopyCrash \/ DeallocCrash \/ ReadWild \/ AssignWild
  BY <1>5, <1>14 DEF CopyCrash, DeallocCrash, ReadWild, AssignWild, Quiet
<1>15. CASE Deallocation BY <1>3, <1>15, DeallocSteps
<1>16. CASE FreeRegion
  <2> DEFINE r == First.at[1]
  <2>1. CASE Live(r) /\ regions[r].place = "heap"
    <3>1. FreeStepped BY <1>16, <2>1 DEF FreeRegion, FreeStepped, GoOn
    <3> QED BY <1>4, <3>1
  <2>2. CASE ~(Live(r) /\ regions[r].place = "heap") BY <1>5, <1>16, <2>2 DEF FreeRegion, Quiet
  <2> QED BY <2>1, <2>2
<1>17. CASE UNCHANGED storage BY <1>5, <1>17 DEF storage, Quiet
<1> QED BY <1>7, <1>8, <1>9, <1>10, <1>11, <1>12, <1>13, <1>14, <1>15, <1>16, <1>17 DEF Separate, Statement

-----------------------------------------------------------------------------
(* Every fault has a cause. *)

(* The variable that is being unheaped. *)
LEMMA UnheapedIs ==
  ASSUME Inv, NEW v \in DOMAIN variables, Returning(v)
  PROVE  Unheaped = v
<1>1. agenda[Len(agenda)].at[1] = variables[v].base BY DEF Returning
<1>2. \A w \in DOMAIN variables : regions[variables[w].base].owner = w BY DEF Inv, StorageKnown
<1>3. PICK b : b = agenda[Len(agenda)].at[1] OBVIOUS
<1>4. \A w \in DOMAIN variables : variables[w].base = b <=> w = v BY <1>1, <1>2, <1>3
<1>5. Unheaped = CHOOSE w \in DOMAIN variables : variables[w].base = b BY <1>3 DEF Unheaped
<1>6. Unheaped \in DOMAIN variables /\ variables[Unheaped].base = b BY <1>4, <1>5
<1> QED BY <1>4, <1>6

LEMMA SomeGiving ==
  ASSUME Inv, Returned, status = "ok", agenda # <<>>, First.do \in Releases
  PROVE  \E v \in DOMAIN variables : Giving(v) /\ Returning(v) /\ Unheaped = v
<1>1. First = agenda[1] /\ 1 \in DOMAIN agenda BY DEF Inv, Typed, First
<1>2. PICK v \in DOMAIN variables : Giving(v) BY <1>1 DEF Returned, Phase, Allocates, Releases
<1>3. Returning(v) BY <1>2 DEF Giving
<1> QED BY <1>2, <1>3, UnheapedIs

LEMMA ThenOne ==
  ASSUME NEW s \in Seq(Nat), Len(s) = 1, NEW m \in Nat
  PROVE  s \o <<m>> \in Seq(Nat) /\ Len(s \o <<m>>) = 2 /\ (s \o <<m>>)[2] = m
<1>1. <<m>> \in Seq(Nat) /\ Len(<<m>>) = 1 /\ <<m>>[1] = m OBVIOUS
<1>2. PICK u \in Seq(Nat) : u = <<m>> BY <1>1
<1>3. s \o u \in Seq(Nat) /\ Len(s \o u) = 2 /\ (s \o u)[2] = u[1]
  <2>1. Len(u) = 1 BY <1>1, <1>2
  <2>2. /\ s \o u \in Seq(Nat) /\ Len(s \o u) = Len(s) + Len(u)
        /\ \A i \in 1 .. Len(s) + Len(u) : (s \o u)[i] = IF i <= Len(s) THEN s[i] ELSE u[i - Len(s)]
    BY ConcatProperties, Zenon
  <2> QED BY <2>1, <2>2
<1> QED BY <1>1, <1>2, <1>3

(* An element is one of its array, and a member one of its collection. *)
LEMMA SpotWithin ==
  ASSUME Inv, Tree, NEW r \in DOMAIN regions, NEW p \in PlacesIn(r), NEW at \in Seq(Nat), at = p.at, Len(at) > 1
  PROVE  at[2] <= regions[r].len
<1>1. regions \in Seq(Region) /\ r \in Nat BY DEF Inv, Typed, StorageOK
<1>2. PICK x \in Region : x = regions[r] BY <1>1
<1>3. PICK t \in Types : t = regions[r].type BY <1>2 DEF Region
<1>4. p \in PlacesAt(r, regions[r].role, t, regions[r].len) BY <1>3, PlacesInAt
<1>5. CASE regions[r].role # "base"
  <2>1. PICK i \in 1 .. regions[r].len : p \in Spots(<<r, i>>, t) BY <1>4, <1>5 DEF PlacesAt
  <2>2. regions[r].len \in Nat BY <1>2 DEF Region
  <2>3. PICK s \in Seq(Nat) : s = <<r, i>>
    <3>1. <<r, i>> \in Seq(Nat) BY <1>1, <2>1, <2>2
    <3> QED BY <3>1
  <2>4. Len(s) = 2 /\ s[2] = i BY <2>3
  <2>5. \A k \in 1 .. Len(s) : p.at[k] = s[k] BY <2>1, <2>3, SpotPrefix
  <2>6. at[2] = i BY <2>4, <2>5
  <2> QED BY <2>1, <2>2, <2>6
<1>6. CASE regions[r].role = "base"
  <2>1. p \in Spots(<<r>>, t) BY <1>4, <1>6 DEF PlacesAt
  <2>2. regions[r].len = Len(Def[t].parts) /\ DOMAIN Def[t].parts = 1 .. Len(Def[t].parts) /\ Len(Def[t].parts) \in Nat
    <3>1. PICK v \in DOMAIN variables : r = variables[v].base
      BY <1>6 DEF Inv, Tree, BasesKnown, Typed, StorageOK
    <3>2. t = variables[v].type BY <1>3, <3>1 DEF Inv, StorageKnown
    <3>3. regions[r].len = Len(Def[t].parts) BY <3>1, <3>2 DEF Tree, BasesKnown
    <3> QED BY <3>3, DefTyped
  <2>3. PICK s \in Seq(Nat) : s = <<r>>
    <3>1. <<r>> \in Seq(Nat) BY <1>1
    <3> QED BY <3>1
  <2>4. s # <<>> /\ Len(s) = 1 /\ p \in Spots(s, t) BY <2>1, <2>3
  <2>5. ASSUME NEW m \in DOMAIN Def[t].parts, NEW e \in Seq(Nat), e = s \o <<m>>, NEW u \in Types, p \in Spots(e, u)
        PROVE  at[2] <= regions[r].len
    <3>1. Len(e) = 2 /\ e[2] = m
      <4>1. m \in Nat BY <2>2
      <4> QED BY <2>4, <2>5, <4>1, ThenOne
    <3>2. \A k \in 1 .. Len(e) : p.at[k] = e[k] BY <2>5, SpotPrefix
    <3>3. at[2] = m BY <3>1, <3>2
    <3> QED BY <2>2, <3>3
  <2>6. \A m \in DOMAIN Def[t].parts : m \in Nat /\ s \o <<m>> \in Seq(Nat) /\ Len(s \o <<m>>) = 2 /\ (s \o <<m>>)[2] = m
    <3>1. DOMAIN Def[t].parts \subseteq Nat BY <2>2
    <3> QED BY <2>4, <3>1, ThenOne
  <2>7. CASE ClassOf(t) = "vector"
    <3>1. p.at = s BY <2>4, <2>7, VectorSpots
    <3>2. at = s BY <3>1
    <3>3. Len(at) = 1 BY <2>4, <3>2
    <3> QED BY <3>3
  <2>8. CASE ClassOf(t) = "table"
    <3>1. PICK f \in DOMAIN Def[t].parts : p.at = s \o <<f>>
      <4>3. PICK q \in Places[t] : p = [at |-> s \o q.path, type |-> q.type] BY <2>4, Zenon DEF Spots
      <4>1. p.at = s \o q.path BY <4>3
      <4>2. PICK f \in DOMAIN Def[t].parts : q.path = <<f>> BY <2>8, PlacesKinds
      <4> QED BY <4>1, <4>2
    <3>2. at[2] = f BY <2>6, <3>1
    <3> QED BY <2>2, <3>2
  <2>9. CASE ClassOf(t) \notin {"vector", "table"}
    <3>1. PICK m \in DOMAIN Def[t].parts : p \in Spots(s \o <<m>>, Def[t].parts[m])
      BY <2>4, <2>9, SpotsOfMember
    <3>2. Def[t].parts[m] \in Types BY DefTyped
    <3> QED BY <2>5, <2>6, <3>1, <3>2
  <2> QED BY <2>7, <2>8, <2>9
<1> QED BY <1>5, <1>6

LEMMA CopyWild ==
  ASSUME Inv, CopyKnown, CopyVector, ~Live(PointsTo(First.at))
  PROVE  LikeStacked
<1>1. PICK t : t = First.type OBVIOUS
<1>2. PICK at : at = First.at OBVIOUS
<1>3. /\ agenda # <<>> /\ First.do = "copy" /\ ClassOf(t) = "vector" /\ First.do \in Allocates
      /\ \E place \in {"heaped", "stacked", "context"} : <<t, place>> \in built
  BY <1>1 DEF CopyVector, Doing, Class, Allocates
<1>4. t \in Types /\ at \in Seq(Nat) /\ at # <<>> BY <1>1, <1>2, <1>3, CallKnown
<1>5. 1 \in DOMAIN agenda /\ First = agenda[1] /\ Def[t].sized BY <1>3 DEF Inv, Typed, First, PointersLead
<1>6. PICK p \in Cover(First) : p.at = at /\ p.type = t
  <2>1. [at |-> at, type |-> t] \in Spots(at, t) BY <1>3, <1>4, VectorSpots
  <2>2. [at |-> at, type |-> t] \in Cover(First) BY <1>1, <1>2, <1>3, <2>1 DEF Cover
  <2> QED BY <2>2
<1>7. SUFFICES ASSUME ~LikeStacked PROVE FALSE OBVIOUS
<1>8. Lent(at) BY <1>3, <1>5, <1>6, <1>7 DEF CopyKnown, Loaned
<1>9. PICK m \in DOMAIN regions : m = memory[at] BY <1>8 DEF Lent, Inv, Typed, StorageOK
<1>10. regions[m].live BY <1>8, <1>9 DEF Lent, Inv, StorageKnown
<1>11. PointsTo(at) = m BY <1>8, <1>9 DEF Lent, PointsTo
<1>12. ~Live(PointsTo(at)) BY <1>2
<1> QED BY <1>10, <1>11, <1>12 DEF Live

(* What is not part of something else is the variable itself. *)
LEMMA TopIsBase ==
  ASSUME Inv, Tree, agenda # <<>>, First.do \in Allocates, ClassOf(First.type) = "vector", ~Nested
  PROVE  First.at = <<Latest.base>>
<1>1. PICK t \in Types : t = First.type BY CallKnown
<1>2. PICK at \in Seq(Nat) : at = First.at BY CallKnown
<1>3. PICK r \in DOMAIN regions : r = at[1] BY <1>2, CallKnown
<1>4. at # <<>> /\ regions[r].owner = Len(variables) /\ Spots(at, t) \subseteq PlacesIn(r)
  BY <1>1, <1>2, <1>3, CallKnown
<1>7. regions \in Seq(Region) /\ r \in Nat BY DEF Inv, Typed, StorageOK
<1>12. PICK n \in Nat : n = Len(at) /\ n >= 1 BY <1>2, CallKnown
<1>11. ~(n > 1) BY <1>2, <1>12 DEF Nested
<1>13. Len(at) = 1 BY <1>11, <1>12
<1>5. at = <<r>> BY <1>3, <1>7, <1>13
<1>6. PICK p \in PlacesIn(r) : p.at = at
  <2>1. Spots(at, t) = {[at |-> at, type |-> t]} BY <1>1, VectorSpots
  <2>2. [at |-> at, type |-> t] \in PlacesIn(r) BY <1>4, <2>1
  <2> QED BY <2>2
<1>8. PICK x \in Region : x = regions[r] BY <1>7
<1>9. PICK e \in Types : e = regions[r].type BY <1>8 DEF Region
<1>10. ASSUME regions[r].role # "base" PROVE FALSE
  <2>1. p \in PlacesAt(r, regions[r].role, e, regions[r].len) BY <1>9, PlacesInAt
  <2>2. PICK i \in 1 .. regions[r].len : ClassOf(e) # "table" /\ p \in Spots(<<r, i>>, e)
    BY <1>10, <2>1 DEF PlacesAt
  <2>3. regions[r].len \in Nat BY <1>8 DEF Region
  <2>4. PICK s \in Seq(Nat) : s = <<r, i>>
    <3>1. <<r, i>> \in Seq(Nat) BY <1>7, <2>2, <2>3
    <3> QED BY <3>1
  <2>5. Len(s) = 2 /\ s # <<>> /\ p \in Spots(s, e) BY <2>2, <2>4
  <2>6. Len(p.at) > Len(s) \/ p = [at |-> s, type |-> e] BY <2>2, <2>5, SpotsTyped, Zenon
  <2>7. Len(p.at) = 1 /\ Len(s) = 2 BY <1>6, <1>13, <2>5
  <2>8. CASE Len(p.at) > Len(s)
    <3>1. 1 > 2 BY <2>7, <2>8
    <3> QED BY <3>1
  <2>9. CASE p = [at |-> s, type |-> e]
    <3>1. p.at = s BY <2>9
    <3>2. 1 = 2 BY <2>7, <3>1, Zenon
    <3> QED BY <3>2
  <2> QED BY <2>6, <2>8, <2>9
<1> QED BY <1>2, <1>4, <1>5, <1>10 DEF Tree, BasesKnown, Latest

LEMMA CopyCrashes ==
  ASSUME Inv, Tree, BuiltKnown, CopyCrash
  PROVE  /\ Declared = "argument" /\ HasVector(Latest.type)
         /\ \/ First.at = <<Latest.base>>
            \/ HasOpenSize(Latest.type)
            \/ \A u \in DOMAIN variables :
                 variables[u].place = "context" => variables[u].type # Latest.type
<1>1. PICK t : t = First.type OBVIOUS
<1>2. /\ agenda # <<>> /\ First.do = "copy" /\ ClassOf(t) = "vector" /\ First.do \in Allocates
      /\ <<t, "context">> \notin built \/ ~Nested
  BY <1>1 DEF CopyCrash, Doing, Class, Allocates
<1>3. Declared = "argument" /\ t \in OutsideTables[Latest.type] BY <1>1, <1>2, CallKnown DEF DoneFor
<1>4. HasVector(Latest.type) BY <1>2, <1>3 DEF HasVector
<1>6. ~Nested => First.at = <<Latest.base>> BY <1>1, <1>2, TopIsBase
<1>5. ASSUME Nested, ~HasOpenSize(Latest.type), NEW u \in DOMAIN variables, variables[u].place = "context",
             variables[u].type = Latest.type
      PROVE  FALSE
  <2>1. u # Len(variables) BY <1>3, <1>5 DEF Declared, Latest
  <2>2. SizeIsBuilt(t) BY <1>2, <1>3, <1>5, <2>1 DEF BuiltKnown
  <2> QED BY <1>2, <1>5, <2>2 DEF SizeIsBuilt
<1> QED BY <1>3, <1>4, <1>5, <1>6

LEMMA DeallocCrashes ==
  ASSUME Inv, Returned, DeallocCrash
  PROVE  OpenSizeGivenBack(variables[Unheaped].type)
<1>1. PICK t : t = First.type OBVIOUS
<1>2. status = "ok" /\ agenda # <<>> /\ First.do = "dealloc" /\ First.do \in Releases /\ ClassOf(t) = "vector" /\ ~Def[t].sized
  BY <1>1 DEF DeallocCrash, Doing, Class, Releases
<1>3. PICK v \in DOMAIN variables : Returning(v) /\ Unheaped = v BY <1>2, SomeGiving
<1>4. PICK s : s = variables[v].type OBVIOUS
<1>5. t \in GivenBack(s) BY <1>1, <1>2, <1>3, <1>4, ReleaseIs DEF Returns
<1>6. OpenSizeGivenBack(s) BY <1>2, <1>5 DEF GivenBack, OpenSizeGivenBack, HasOpenSize, IsOpen
<1> QED BY <1>3, <1>4, <1>6

LEMMA ReadsWild ==
  ASSUME Inv, Tree, Returned, ReadWild
  PROVE  Excused(variables[Unheaped])
<1>1. PICK t : t = First.type OBVIOUS
<1>2. PICK at : at = First.at OBVIOUS
<1>3. /\ status = "ok" /\ agenda # <<>> /\ First.do \in Releases
      /\ (First.do = "dealloc" /\ ClassOf(t) = "vector") \/ First.do = "field"
  BY <1>1 DEF ReadWild, Doing, Class, Releases
<1>4. PICK v \in DOMAIN variables : Giving(v) /\ Returning(v) /\ Unheaped = v BY <1>3, SomeGiving
<1>5. SUFFICES ASSUME ~Excused(variables[v]) PROVE FALSE BY <1>4
<1>6. Orderly(v) /\ \A i \in DOMAIN agenda : Takes(agenda[i]) \subseteq PlacesIn(agenda[i].at[1])
  BY <1>4, <1>5 DEF Giving, Sound
<1>7. t \in Types /\ at \in Seq(Nat) /\ at # <<>> /\ First = agenda[1] /\ 1 \in DOMAIN agenda
  BY <1>1, <1>2, <1>3, <1>4, ReleaseIs
<1>8. PICK p \in Takes(First) : p.at = at
  <2>1. PICK p : p = [at |-> at, type |-> t] OBVIOUS
  <2>2. CASE First.do = "dealloc" /\ ClassOf(t) = "vector"
    <3>1. Takes(First) = {p} /\ p.at = at BY <1>1, <1>2, <1>3, <1>4, <1>7, <2>1, <2>2, VectorTaken
    <3> QED BY <3>1
  <2>3. CASE First.do = "field" BY <1>1, <1>2, <2>1, <2>3 DEF Takes
  <2> QED BY <1>3, <2>2, <2>3
<1>9. PICK r : r = at[1] OBVIOUS
<1>10. p \in PlacesIn(r) /\ r \in DOMAIN regions /\ regions[r].live
  <2>1. agenda[1].at[1] = r BY <1>2, <1>7, <1>9
  <2> QED BY <1>6, <1>7, <1>8, <2>1 DEF Orderly
<1>11. Len(at) > 1 => at[2] <= regions[r].len BY <1>7, <1>8, <1>10, SpotWithin
<1>12. ~Readable(at) BY <1>2 DEF ReadWild
<1> QED BY <1>9, <1>10, <1>11, <1>12 DEF Readable, Live

LEMMA FreesWild ==
  ASSUME Inv, Returned, FreeRegion, ~(Live(First.at[1]) /\ regions[First.at[1]].place = "heap")
  PROVE  Excused(variables[Unheaped])
<1>1. status = "ok" /\ agenda # <<>> /\ First.do \in Releases BY DEF FreeRegion, Releases
<1>2. PICK v \in DOMAIN variables : Giving(v) /\ Returning(v) /\ Unheaped = v BY <1>1, SomeGiving
<1>3. SUFFICES ASSUME ~Excused(variables[v]) PROVE FALSE BY <1>2
<1>4. Orderly(v) BY <1>2, <1>3 DEF Giving, Sound
<1>5. PICK r : r = First.at[1] OBVIOUS
<1>6. First = agenda[1] /\ 1 \in DOMAIN agenda /\ variables[v].place = "heaped" BY <1>1, <1>2, ReleaseIs
<1>7. r \in DOMAIN regions /\ regions[r].owner = v /\ regions[r].live BY <1>4, <1>5, <1>6 DEF Orderly
<1>8. regions[r].place = "heap" BY <1>6, <1>7 DEF Inv, StorageKnown, OwnerOf
<1>9. ~(Live(r) /\ regions[r].place = "heap") BY <1>5
<1> QED BY <1>7, <1>8, <1>9 DEF Live

(* A vector of a given size has its array. *)
LEMMA HasArray ==
  ASSUME Inv, Idle, NEW v \in DOMAIN variables, variables[v].live, ClassOf(variables[v].type) = "vector",
         ~IsOpen(variables[v].type)
  PROVE  /\ Live(ArrayOf(v))
         /\ Def[variables[v].type].size > 0 => regions[ArrayOf(v)].len = Def[variables[v].type].size
<1>1. PICK x \in Variable : x = variables[v] BY DEF Inv, Typed, StorageOK
<1>2. PICK t \in Types : t = variables[v].type BY <1>1 DEF Variable
<1>3. PICK b \in DOMAIN regions : b = variables[v].base BY DEF Inv, Typed, StorageOK
<1>4. b \in Nat /\ regions[b].owner = v /\ regions[b].role = "base" /\ regions[b].type = t
  BY <1>1, <1>2, <1>3 DEF Inv, StorageKnown, Variable
<1>5. ClassOf(t) = "vector" /\ Def[t].sized /\ Def[t].size \in Nat BY <1>2, DefTyped DEF IsOpen
<1>6. PICK at \in Seq(Nat) : at = <<b>> /\ Len(at) = 1
  <2>1. <<b>> \in Seq(Nat) /\ Len(<<b>>) = 1 BY <1>4
  <2> QED BY <2>1
<1>7. PICK p : p = [at |-> at, type |-> t] OBVIOUS
<1>8. p \in PlacesIn(b)
  <2>1. p \in Spots(at, t) BY <1>5, <1>7, VectorSpots
  <2>2. p \in PlacesAt(b, "base", t, regions[b].len) BY <1>6, <2>1 DEF PlacesAt
  <2> QED BY <1>4, <2>2, PlacesInAt
<1>9. SeenIn(p, b) BY <1>5, <1>6, <1>7 DEF SeenIn, SeenTo, Pending, Idle
<1>10. at \in DOMAIN memory /\ Own(at) BY <1>7, <1>8, <1>9 DEF Inv, PlacesSettled, Idle
<1>11. PICK m \in DOMAIN regions : m = memory[at] BY <1>10 DEF Inv, Typed, StorageOK
<1>12. regions[m].owner = v BY <1>4, <1>6, <1>10, <1>11 DEF Own
<1>13. regions[m].live BY <1>12 DEF Inv, StorageKnown, OwnerOf
<1>14. Leads(p) BY <1>7, <1>8, <1>10 DEF Inv, PointersLead
<1>15. Def[t].size > 0 => regions[m].len = Def[t].size
  <2>1. regions[m].len = SizeFor(t, m) BY <1>5, <1>7, <1>11, <1>14 DEF Leads
  <2> QED BY <1>5, <2>1 DEF SizeFor
<1>16. ArrayOf(v) = m BY <1>3, <1>6, <1>10, <1>11 DEF ArrayOf, PointsTo
<1> QED BY <1>2, <1>13, <1>15, <1>16 DEF Live

LEMMA AssignsWild ==
  ASSUME Inv, AssignWild
  PROVE  \E u \in DOMAIN variables : IsOpen(variables[u].type)
<1>1. PICK v, w \in DOMAIN variables : CopiesElements(v, w) /\ ~InArrays(v, w) BY DEF AssignWild
<1>2. SUFFICES ASSUME \A u \in DOMAIN variables : ~IsOpen(variables[u].type) PROVE FALSE OBVIOUS
<1>3. /\ variables[v].live /\ variables[w].live /\ ClassOf(variables[v].type) = "vector"
      /\ ClassOf(variables[w].type) = "vector" /\ Def[variables[v].type].size > 0 /\ Idle
  BY <1>1 DEF CopiesElements, Assigned, Fits, AssignWild
<1>4. Live(ArrayOf(v)) /\ Live(ArrayOf(w)) /\ regions[ArrayOf(v)].len = Def[variables[v].type].size
  BY <1>2, <1>3, HasArray
<1>5. Def[variables[v].type].size \in Nat
  <2>1. PICK x \in Variable : x = variables[v] BY DEF Inv, Typed, StorageOK
  <2>2. PICK t \in Types : t = variables[v].type BY <2>1 DEF Variable
  <2> QED BY <2>2, DefTyped
<1> QED BY <1>1, <1>4, <1>5 DEF InArrays

LEMMA CauseIs == Apart /\ Explains(status) => FaultHasCause
<1> QED BY DEF FaultHasCause, Explains, LikeStacked, Excused, Latest, Declared, Apart

LEMMA ExplainsStill ==
  ASSUME NEW s, Explains(s), variables' = variables, agenda' = agenda, count' = count, status' = s
  PROVE  Explains(status)'
<1>1. First' = First /\ Latest' = Latest /\ Declared' = Declared BY DEF First, Latest, Declared
<1>2. Unheaped' = Unheaped BY DEF Unheaped
<1>3. variables[Unheaped]' = variables[Unheaped] BY <1>2
<1>4. LikeStacked' <=> LikeStacked BY DEF LikeStacked, Latest
<1>5. Excused(variables[Unheaped])' <=> Excused(variables[Unheaped]) BY <1>3 DEF Excused
<1> QED BY <1>1, <1>3, <1>4, <1>5 DEF Explains

LEMMA FaultsStop ==
  ASSUME [Separate]_storage, status # "ok"
  PROVE  UNCHANGED storage
<1>1. ~Statement
  BY DEF Statement, DeclareHeaped, DeclareStacked, DeclareContext, Declare, PassArgument, Unheap, AssignCount, Idle
<1>2. ~Allocation
  BY DEF Allocation, HeapVector, HeapTable, HeapCollection, ContextVector, ContextTable,
    ContextCollection, StackVector, StackTable, StackCollection, StackMember, StackSubcollection,
    CopyCollection, Skip, Doing
<1>3. ~CopyVector /\ ~CopyCrash /\ ~DeallocCrash /\ ~ReadWild /\ ~FreeRegion /\ ~AssignWild
  BY DEF CopyVector, CopyCrash, DeallocCrash, ReadWild, FreeRegion, AssignWild, Idle, Doing
<1>4. ~Deallocation
  BY DEF Deallocation, DeallocPlain, DeallocCollection, DeallocVector, DeallocTable, DeallocField, Doing
<1> QED BY <1>1, <1>2, <1>3, <1>4 DEF Separate

LEMMA NextKeepsCause ==
  ASSUME Inv, Tree, Returned, BuiltKnown, CopyKnown, Explains(status), [Separate]_storage
  PROVE  Explains(status)'
<1>1. CASE status' = "ok" BY <1>1 DEF Explains
<1>2. CASE UNCHANGED storage BY <1>2, ExplainsStill DEF storage
<1>3. CASE AssignWild
  <2>1. agenda = <<>> /\ status' = "wild" /\ UNCHANGED <<variables, agenda, count>>
    BY <1>3 DEF AssignWild, Idle
  <2>2. Explains("wild") BY <1>3, <2>1, AssignsWild DEF Explains
  <2> QED BY <2>1, <2>2, ExplainsStill
<1>4. ASSUME NEW s, status' = s, UNCHANGED <<variables, agenda, count>>, Explains(s) PROVE Explains(status)'
  BY <1>4, ExplainsStill
<1>5. CASE CopyVector /\ status' # "ok"
  <2>1. First.do = "copy" /\ agenda # <<>> /\ status = "ok" BY <1>5 DEF CopyVector, Doing
  <2>2. ~Live(PointsTo(First.at)) /\ status' = "wild" /\ UNCHANGED <<variables, agenda, count>>
    BY <1>5, <2>1 DEF CopyVector
  <2>3. Explains("wild") BY <1>5, <2>1, <2>2, CopyWild DEF Explains
  <2> QED BY <1>4, <2>2, <2>3
<1>6. CASE CopyCrash
  <2>1. First.do = "copy" /\ status' = "crashed" /\ UNCHANGED <<variables, agenda, count>>
    BY <1>6 DEF CopyCrash, Doing
  <2>2. Explains("crashed") BY <1>6, <2>1, CopyCrashes DEF Explains
  <2> QED BY <1>4, <2>1, <2>2
<1>7. CASE DeallocCrash
  <2>1. First.do = "dealloc" /\ agenda # <<>> /\ status' = "crashed" /\ UNCHANGED <<variables, agenda, count>>
    BY <1>7 DEF DeallocCrash, Doing
  <2>2. Explains("crashed") BY <1>7, <2>1, DeallocCrashes DEF Explains
  <2> QED BY <1>4, <2>1, <2>2
<1>8. CASE ReadWild
  <2>1. First.do # "copy" /\ agenda # <<>> /\ status' = "wild" /\ UNCHANGED <<variables, agenda, count>>
    BY <1>8 DEF ReadWild, Doing
  <2>2. Explains("wild") BY <1>8, <2>1, ReadsWild DEF Explains
  <2> QED BY <1>4, <2>1, <2>2
<1>9. CASE FreeRegion /\ status' # "ok"
  <2> DEFINE r == First.at[1]
  <2>1. First.do = "free" /\ agenda # <<>> /\ status = "ok" /\ UNCHANGED <<variables, count>>
    BY <1>9 DEF FreeRegion
  <2>2. ~(Live(r) /\ regions[r].place = "heap") /\ status' = "wild" /\ agenda' = agenda
    BY <1>9, <2>1 DEF FreeRegion
  <2>3. Explains("wild") BY <1>9, <2>1, <2>2, FreesWild DEF Explains
  <2> QED BY <1>4, <2>1, <2>2, <2>3
<1>10. CASE Statement
  <2>1. status' = "ok"
    BY <1>10 DEF Statement, DeclareHeaped, DeclareStacked, DeclareContext, Declare, PassArgument, Unheap, AssignCount, Idle
  <2> QED BY <1>1, <2>1
<1>11. CASE Allocation \/ Deallocation
  <2>1. status' = status BY <1>11 DEF Allocation, Deallocation
  <2>2. CASE status = "ok" BY <1>1, <2>1, <2>2
  <2>3. CASE status # "ok" BY <1>2, <2>3, FaultsStop
  <2> QED BY <2>2, <2>3
<1> QED BY <1>1, <1>2, <1>3, <1>5, <1>6, <1>7, <1>8, <1>9, <1>10, <1>11 DEF Separate

LEMMA CausesHold == Spec => [](Apart => BuiltKnown /\ CopyKnown /\ Explains(status))
<1>1. Init => BuiltKnown /\ CopyKnown /\ Explains(status)
  <2> SUFFICES ASSUME Init PROVE BuiltKnown /\ CopyKnown /\ Explains(status)
    OBVIOUS
  <2>1. DOMAIN variables = {} /\ DOMAIN agenda = {} /\ status = "ok" BY DEF Init
  <2> QED BY <2>1 DEF BuiltKnown, CopyKnown, Explains
<1>2. (Apart => Inv /\ Tree /\ Returned /\ BuiltKnown /\ CopyKnown /\ Explains(status)) /\ [Next]_vars
        => (Apart' => BuiltKnown' /\ CopyKnown' /\ Explains(status)')
  BY ApartStep, NextKeepsBuilt, NextKeepsCopy, NextKeepsCause
<1> QED BY <1>1, <1>2, ReturnedHolds, PTL DEF Spec

(* Whatever the types of a program and however long it runs: until a variable is stored in   *)
(* another, unheaping reads no wild pointer and gives nothing back twice, copying an argument *)
(* and assigning a vector read none, and building does not crash, but for the reasons that   *)
(* FaultHasCause names (build.cpp 313-329, 520-532, 565-677, 680-847, 1904-2036).            *)
THEOREM EveryFaultHasItsCause == Spec => [](Apart => FaultHasCause)
<1>1. Apart /\ Explains(status) => FaultHasCause BY CauseIs
<1> QED BY <1>1, CausesHold, PTL

=============================================================================
