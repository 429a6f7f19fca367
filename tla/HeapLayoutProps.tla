-------------------------- MODULE HeapLayoutProps ---------------------------
(***************************************************************************)
(* What the storage of variables of nested type has to satisfy.            *)
(***************************************************************************)
EXTENDS HeapLayout

\* Every pointer that was stored leads to a region that was handed out, and every region
\* belongs to a declared variable.
StorageOK ==
  /\ regions \in Seq(Region)
  /\ \A a \in DOMAIN memory : a \in Seq(Nat) /\ a # <<>> /\ memory[a] \in DOMAIN regions
  /\ variables \in Seq(Variable)
  /\ \A v \in DOMAIN variables : variables[v].base \in DOMAIN regions
  /\ \A r \in DOMAIN regions : regions[r].owner \in DOMAIN variables
  /\ agenda \in Seq(Task)
  /\ count \in Counts
  /\ built \subseteq Types \X {"heaped", "stacked", "context", "argument"}
  /\ status \in {"ok", "wild", "crashed"}

\* The parts of the model hold what they are meant to hold, also after variables were stored
\* in each other (build.cpp 280-337, 565-1190).
TypeOK == StorageOK /\ shared \subseteq DOMAIN variables
-----------------------------------------------------------------------------
PartsOf(t) == {Def[t].parts[i] : i \in DOMAIN Def[t].parts}

\* What the code for a value of the type sees to: it passes over what is stored in tables.
Reached(t) == IF ClassOf(t) = "table" THEN {} ELSE PartsOf(t)

\* A type, its parts, and whatever they have in turn, along the relation "of".
Reaching(of) == LET all[t \in Types] == {t} \cup UNION {all[u] : u \in of[t]} IN all

\* The types of everything stored in a value of a type.
Within == Reaching([t \in Types |-> PartsOf(t)])

\* The same without what is stored in tables.
OutsideTables == Reaching([t \in Types |-> Reached(t)])

HasVector(t) == \E u \in OutsideTables[t] : ClassOf(u) = "vector"

HasOpenSize(t) == \E u \in OutsideTables[t] : IsOpen(u)

\* A vector of vectors, or of collections of vectors, whose size is the program variable.
HasVariableLoop(t) ==
  \E u \in OutsideTables[t] :
    ClassOf(u) = "vector" /\ Def[u].sized /\ Def[u].size = 0 /\ HasVector(ElementOf(u))

TableOfVectors(t) == ClassOf(t) = "table" /\ \E u \in PartsOf(t) : HasVector(u)

\* The fields of a table are given back with it when the table is the variable itself.
OpenSizeGivenBack(t) ==
  \/ HasOpenSize(t)
  \/ ClassOf(t) = "table" /\ \E u \in PartsOf(t) : HasOpenSize(u)

HasTableInside(t) == \E u \in Within[t] \ {t} : ClassOf(u) = "table"

\* The variable that is being unheaped.
Unheaped ==
  CHOOSE v \in DOMAIN variables : variables[v].base = agenda[Len(agenda)].at[1]

\* Unheaping reads no wild pointer and gives nothing back twice, unless the variable was
\* stored in another or another in it, the size of a vector is open, the variable is a table
\* whose fields hold vectors, or the program variable that gives the size has grown since the
\* declaration.  Passing a variable to a function reads no wild pointer, unless it was stored
\* in another or another in it, or is stacked and has vectors within it, which have no
\* elements; nor does assigning one, unless something was stored before or a vector's size is
\* open.  And building crashes in three cases only: a vector of open size is to be
\* unheaped whose elements hold vectors, a vector is an argument whose type may be written
\* out there, or the vectors in an argument are not known from a context of its type
\* (build.cpp 280-337, 520-532, 565-677, 680-847, 1904-2036).
FaultHasCause ==
  LET passed == variables[Len(variables)]
      v == variables[Unheaped]
      calling == agenda # <<>>
  IN /\ (status = "wild" /\ calling /\ First.do = "copy") =>
          \E u \in DOMAIN variables :
            variables[u].type = passed.type /\ (variables[u].place = "stacked" \/ u \in shared)
     /\ (status = "wild" /\ calling /\ First.do # "copy") =>
          \/ Unheaped \in shared
          \/ HasOpenSize(v.type)
          \/ TableOfVectors(v.type)
          \/ HasVariableLoop(v.type) /\ count > v.count
     /\ (status = "wild" /\ ~calling) =>
          shared # {} \/ \E u \in DOMAIN variables : IsOpen(variables[u].type)
     /\ (status = "crashed" /\ First.do = "dealloc") => OpenSizeGivenBack(v.type)
     /\ (status = "crashed" /\ First.do = "copy") =>
          /\ passed.place = "argument" /\ HasVector(passed.type)
          /\ \/ First.at = <<passed.base>>
             \/ HasOpenSize(passed.type)
             \/ \A u \in DOMAIN variables :
                  variables[u].place = "context" => variables[u].type # passed.type

\* When a variable has been unheaped that was never stored in another, nor another in it,
\* nothing of it remains but the handles of the vectors and tables within it, which no code
\* gives back; except that tables within collections are passed over, and that a size that
\* depends on the program variable may have shrunk (build.cpp 280-337, 889-1015, 1129-1157,
\* 1904-2036).
OnlyHandlesLeak ==
  Idle => \A r \in DOMAIN regions :
    LET v == variables[regions[r].owner]
    IN (v.place = "heaped" /\ ~v.live /\ regions[r].live) =>
         \/ regions[r].owner \in shared
         \/ regions[r].role = "handle"
         \/ HasTableInside(v.type)
         \/ HasVariableLoop(v.type)

InMember(m, places) == {[path |-> <<m>> \o p.path, type |-> p.type] : p \in places}

\* The places for pointers within a value, each with the vector or the table that it belongs
\* to: a vector is a pointer to its elements, a table one for each field.
Places[t \in Types] ==
  IF ClassOf(t) = "vector" THEN {[path |-> <<>>, type |-> t]}
  ELSE IF ClassOf(t) = "table" THEN {[path |-> <<f>>, type |-> t] : f \in DOMAIN Def[t].parts}
  ELSE UNION {InMember(m, Places[Def[t].parts[m]]) : m \in DOMAIN Def[t].parts}

\* The places for pointers in a region: in the variable, or in the elements of an array.  The
\* code passes over tables that are elements, and over what is stored in tables.
PlacesIn(r) ==
  LET t == regions[r].type
      from(at) == {[at |-> at \o p.path, type |-> p.type] : p \in Places[t]}
  IN IF regions[r].role = "base" THEN from(<<r>>)
     ELSE IF regions[r].role = "array" /\ ClassOf(t) # "table"
          THEN UNION {from(<<r, i>>) : i \in 1 .. regions[r].len}
     ELSE {}

OwnerOf(r) == variables[regions[r].owner]

\* The code in build.cpp sees to the pointer at place p in a variable that is declared in this
\* way: a table within something else only when it is heaped, and a vector not when the
\* variable is stacked.
SeenTo(p, declared) ==
  IF ClassOf(p.type) = "vector"
  THEN Def[p.type].sized /\ (declared = "stacked" => Len(p.at) = 1)
  ELSE Len(p.at) = 2 \/ declared = "heaped"

\* Whenever the program goes on, every vector and every column of a heaped variable, a context
\* or an argument, at any depth, has an array of the variable's own that has not been given
\* back and that nothing else uses, unless the variable was stored in another or another in
\* it.  This is so also after other variables were unheaped or stored in each other, and
\* although the values of nested vectors are copied out of their handles and arguments out of
\* the caller's storage (build.cpp 280-337, 565-1190).
EachItsOwnArray ==
  Idle =>
    LET pointers == UNION {{p.at : p \in {q \in PlacesIn(r) : SeenTo(q, OwnerOf(r).place)}} :
                             r \in {s \in DOMAIN regions : OwnerOf(s).live}}
    IN \A at \in {b \in pointers : regions[b[1]].owner \notin shared} :
         /\ Live(PointsTo(at))
         /\ regions[PointsTo(at)].role \in {"array", "field"}
         /\ regions[PointsTo(at)].owner = regions[at[1]].owner
         /\ \A bt \in pointers : PointsTo(at) = PointsTo(bt) => at = bt

\* The comments in allocateStackVectorElements promise that the vectors within a stacked
\* vector are allocated properly (build.cpp 722 and 754).
StackedVectorsHaveArrays ==
  Idle =>
    \A r \in DOMAIN regions : OwnerOf(r).place = "stacked" =>
      \A p \in PlacesIn(r) :
        ClassOf(p.type) = "vector" /\ Def[p.type].sized => Live(PointsTo(p.at))
=============================================================================
