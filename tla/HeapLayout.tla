----------------------------- MODULE HeapLayout -----------------------------
(***************************************************************************)
(* The storage of variables of nested type: what the code that build.cpp   *)
(* emits allocates when a variable is declared, copies when one is passed  *)
(* to a function, shares when one is stored in another, and gives back     *)
(* when one is unheaped.                                                   *)
(*                                                                         *)
(* An address is a region of memory followed by a path into its contents:  *)
(* the element of an array, the member of a collection, the field of a     *)
(* table.  "memory" maps the addresses at which the emitted code stored a  *)
(* pointer to the region it points to; every other place for a pointer     *)
(* holds whatever the memory held before, a wild pointer.  The recursion   *)
(* of the C++ functions over the parts of a type, and the loops they emit  *)
(* over elements, are an agenda of the calls that are still to be made.    *)
(***************************************************************************)
EXTENDS Naturals, Sequences, FiniteSets

CONSTANTS
  Types,       \* the names of the types of the program
  Def,         \* what a type is: its class, the types of its parts, its size
  Depth,       \* how deeply types are nested: no value is part of itself
  Literal,     \* the types without a variable size, which can be written outside a function
  Counts,      \* the values of the program variable that gives vectors their size
  MaxVariables, \* bound on the declarations of a behaviour
  Strangers    \* bound: the types of which one variable more is declared when two share storage

Classes == {"primitive", "address", "vector", "collection", "table"}

\* A vector has one part, its elements; it is sized, or its size is left open.  Size 0
\* stands for the program variable.
TypeDef == [class : Classes, parts : Seq(Types), sized : BOOLEAN, size : Nat]

ASSUME DefAssumption ==
  /\ Def \in [Types -> TypeDef]
  /\ \A t \in Types :
       /\ Def[t].class = "vector" => Len(Def[t].parts) = 1
       /\ Def[t].class \in {"primitive", "address"} => Def[t].parts = <<>>

ASSUME DepthAssumption ==
  /\ IsFiniteSet(Types)
  /\ Depth \in [Types -> 0 .. Cardinality(Types)]
  /\ \A t \in Types : \A i \in DOMAIN Def[t].parts : Depth[Def[t].parts[i]] < Depth[t]

\* The same holds of what is part of a literal type.
ASSUME LiteralAssumption ==
  /\ Literal \subseteq Types
  /\ \A t \in Literal :
       /\ Def[t].class = "vector" /\ Def[t].sized => Def[t].size > 0
       /\ \A i \in DOMAIN Def[t].parts : Def[t].parts[i] \in Literal

ASSUME CountsAssumption == Counts \subseteq Nat /\ Counts # {}

VARIABLES
  regions,   \* the pieces of memory handed out so far
  memory,    \* the pointers stored so far
  variables, \* the variables declared so far
  agenda,    \* the calls to be made before the program goes on
  count,     \* the program variable that gives vectors their size
  built,     \* the vectors whose size was built, with the code that built it
  status,    \* ok, or why the behaviour ends
  shared     \* the variables that were stored in another, or that one was stored in

storage == <<regions, memory, variables, agenda, count, built, status>>
vars == <<storage, shared>>

\* A region holds a variable, a vector or a table copied elsewhere, the elements of a vector,
\* or the column of a field; its type is that of the variable, of what is copied, or of an
\* element.
Region == [place : {"heap", "stack", "global"}, role : {"base", "handle", "array", "field"},
           type : Types, owner : Nat, len : Nat, live : BOOLEAN]
Variable == [place : {"heaped", "stacked", "context", "argument"}, type : Types,
             base : Nat, count : Nat, live : BOOLEAN]
Calls == {"heap", "stack", "member", "context", "copy", "dealloc", "field", "free", "store"}
Task == [do : Calls, type : Types, at : Seq(Nat)]

ToDo(do, t, at) == [do |-> do, type |-> t, at |-> at]

NewRegion(place, role, t, len) ==
  [place |-> place, role |-> role, type |-> t, owner |-> Len(variables), len |-> len,
   live |-> TRUE]

\* The storage of a variable; its length is the number of its parts.
BaseRegion(place, t) ==
  [place |-> place, role |-> "base", type |-> t, owner |-> Len(variables) + 1,
   len |-> Len(Def[t].parts), live |-> TRUE]

ClassOf(t) == Def[t].class
ElementOf(t) == Def[t].parts[1]
IsOpen(t) == ClassOf(t) = "vector" /\ ~Def[t].sized

\* The size expression of a vector or a table is evaluated each time its code is reached.
NumElem(t) == IF Def[t].size = 0 THEN count ELSE Def[t].size

PointsTo(at) == IF at \in DOMAIN memory THEN memory[at] ELSE 0

Live(r) == r \in DOMAIN regions /\ regions[r].live
Readable(at) == Live(at[1]) /\ (Len(at) > 1 => at[2] <= regions[at[1]].len)

Stored_next(at, r) == [b \in DOMAIN memory \cup {at} |-> IF b = at THEN r + 1 ELSE memory[b]]
Stored(at, r) == [b \in DOMAIN memory \cup {at} |-> IF b = at THEN r ELSE memory[b]]

First == agenda[1]
Rest == Tail(agenda)
Class == ClassOf(First.type)

\* The storage belongs to something larger.
Nested == Len(First.at) > 1

Doing(do, class) == status = "ok" /\ agenda # <<>> /\ First.do = do /\ Class = class

\* A loop over the elements of the array at r is emitted for elements that hold vectors.
Elements_vectorsOnly(do, t, r, n) ==
  IF ClassOf(t) = "vector" THEN [i \in 1 .. n |-> ToDo(do, t, <<r, i>>)] ELSE <<>>

Elements(do, t, r, n) ==
  IF ClassOf(t) \in {"vector", "collection"} THEN [i \in 1 .. n |-> ToDo(do, t, <<r, i>>)] ELSE <<>>

Members(do, t, at) == [m \in DOMAIN Def[t].parts |-> ToDo(do, Def[t].parts[m], at \o <<m>>)]

GoOn(tasks) == agenda' = tasks \o Rest
-----------------------------------------------------------------------------
\* The array of a vector, its address stored at the vector; a vector of open size gets
\* none.  "handles" is the storage allocated for the vector itself, whose contents are
\* copied to their place.
AllocateVector(place, handles, do) ==
  LET array == Len(regions) + Len(handles) + 1
      n == NumElem(First.type)
  IN IF Def[First.type].sized
     THEN /\ regions' = regions \o handles \o <<NewRegion(place, "array", ElementOf(First.type), n)>>
          /\ memory' = Stored(First.at, array)
          /\ built' = built \cup {<<First.type, variables[Len(variables)].place>>}
          /\ GoOn(Elements(do, ElementOf(First.type), array, n))
     ELSE /\ regions' = regions \o handles
          /\ GoOn(<<>>)
          /\ UNCHANGED <<memory, built>>

\* The arrays of the fields of a table.  Nothing is allocated for what their elements hold.
AllocateTable(place, handles) ==
  LET fields == DOMAIN Def[First.type].parts
      before == Len(regions) + Len(handles)
      at(f) == First.at \o <<f>>
  IN /\ regions' = regions \o handles
                     \o [f \in fields |-> NewRegion(place, "field", Def[First.type].parts[f],
                                                     NumElem(First.type))]
     /\ memory' = [b \in DOMAIN memory \cup {at(f) : f \in fields} |->
                     IF b \in {at(f) : f \in fields} THEN before + b[Len(b)] ELSE memory[b]]
     /\ GoOn(<<>>)
     /\ UNCHANGED built

\* What is nested in something else is allocated by a call of its own, whose result is
\* copied to its place.
Handles == IF Nested THEN <<NewRegion("heap", "handle", First.type, 1)>> ELSE <<>>

HeapVector == Doing("heap", "vector") /\ AllocateVector("heap", Handles, "heap")

HeapTable == Doing("heap", "table") /\ AllocateTable("heap", Handles)

HeapCollection ==
  /\ Doing("heap", "collection")
  /\ GoOn(Members("heap", First.type, First.at))
  /\ UNCHANGED <<regions, memory, built>>

\* In contexts every vector gets a handle, which is never used.
ContextVector ==
  Doing("context", "vector")
    /\ AllocateVector("heap", <<NewRegion("heap", "handle", First.type, 1)>>, "context")

\* allocateContextSubvectors passes over the tables of a collection.
ContextTable ==
  /\ Doing("context", "table")
  /\ IF Nested THEN GoOn(<<>>) /\ UNCHANGED <<regions, memory, built>>
     ELSE AllocateTable("heap", <<>>)

ContextCollection ==
  /\ Doing("context", "collection")
  /\ GoOn(Members("context", First.type, First.at))
  /\ UNCHANGED <<regions, memory, built>>

\* A declaration allocates the elements of a vector and the fields of a table.
StackVector == Doing("stack", "vector") /\ AllocateVector("stack", <<>>, "member")

StackTable == Doing("stack", "table") /\ AllocateTable("stack", <<>>)

StackCollection ==
  /\ Doing("stack", "collection")
  /\ GoOn(Members("member", First.type, First.at))
  /\ UNCHANGED <<regions, memory, built>>

\* A vector or a table within a stacked variable gets storage for itself only: what is
\* copied to its place was never written.
StackMember ==
  /\ Doing("member", "vector") \/ Doing("member", "table")
  /\ regions' = Append(regions, NewRegion("stack", "handle", First.type, 1))
  /\ GoOn(<<>>)
  /\ UNCHANGED <<memory, built>>

StackSubcollection ==
  /\ Doing("member", "collection")
  /\ GoOn(Members("member", First.type, First.at))
  /\ UNCHANGED <<regions, memory, built>>

\* A vector within an argument is copied by a call of its own, which leaves a vector behind.
CopyHandles == IF Nested THEN <<NewRegion("stack", "handle", First.type, 1)>> ELSE <<>>

\* The vector at the address points to an array of the caller: it gets an array of its own,
\* and then its elements do.
CopyVector ==
  /\ Doing("copy", "vector")
  /\ \E place \in {"heaped", "stacked", "context"} : <<First.type, place>> \in built
  /\ LET old == PointsTo(First.at)
         new == Len(regions) + Len(CopyHandles) + 1
         copies == {<<new>> \o Tail(b) : b \in {c \in DOMAIN memory : c[1] = old}}
     IN IF Live(old)
        THEN /\ regions' = regions \o CopyHandles
                           \o <<NewRegion("stack", "array", ElementOf(First.type), NumElem(First.type))>>
             /\ memory' = [b \in DOMAIN memory \cup copies \cup {First.at} |->
                             IF b = First.at THEN new
                             ELSE IF b \in copies THEN memory[<<old>> \o Tail(b)]
                             ELSE memory[b]]
             /\ GoOn(Elements("copy", ElementOf(First.type), new, NumElem(First.type)))
             /\ UNCHANGED status
        ELSE status' = "wild" /\ UNCHANGED <<regions, memory, agenda>>
  /\ UNCHANGED <<variables, count, built>>

\* copyVector does not build the size of the vector.  Contexts are built before functions,
\* but functions in the order of their names, the callee perhaps before the declaration.  A
\* type that is written out where the argument is declared, and not named, is built nowhere.
CopyCrash ==
  /\ Doing("copy", "vector")
  /\ <<First.type, "context">> \notin built \/ ~Nested
  /\ status' = "crashed"
  /\ UNCHANGED <<regions, memory, variables, agenda, count, built>>

CopyCollection ==
  /\ Doing("copy", "collection")
  /\ GoOn(Members("copy", First.type, First.at))
  /\ UNCHANGED <<regions, memory, built>>

\* Nothing is emitted for primitives and addresses, nor for tables within something else
\* that is copied or deallocated.
Skip ==
  /\ \/ \E do \in {"heap", "context", "stack", "member", "copy"} :
          Doing(do, "primitive") \/ Doing(do, "address")
     \/ Doing("copy", "table")
     \/ \E class \in {"primitive", "address", "table"} : Doing("dealloc", class) /\ Nested
  /\ GoOn(<<>>)
  /\ UNCHANGED <<regions, memory, built>>
-----------------------------------------------------------------------------
Free(r) == ToDo("free", First.type, <<r>>)

FreeBase_always == <<Free(First.at[1])>>
FreeBase_never == <<>>

\* Only what is not part of something else is given back itself.
FreeBase == IF Nested THEN <<>> ELSE <<Free(First.at[1])>>

DeallocPlain ==
  /\ Doing("dealloc", "primitive") \/ Doing("dealloc", "address")
  /\ ~Nested
  /\ GoOn(FreeBase)

DeallocCollection ==
  /\ Doing("dealloc", "collection")
  /\ GoOn(Members("dealloc", First.type, First.at) \o FreeBase)

\* The array is given back after what its elements hold, for as many elements as the size
\* expression says now.
DeallocVector ==
  LET array == PointsTo(First.at)
  IN /\ Doing("dealloc", "vector")
     /\ Readable(First.at)
     /\ Def[First.type].sized \/ ClassOf(ElementOf(First.type)) \notin {"vector", "collection"}
     /\ GoOn(Elements("dealloc", ElementOf(First.type), array, NumElem(First.type))
               \o <<Free(array)>> \o FreeBase)

\* The size of a vector of vectors is built here, also when the type leaves it open.
DeallocCrash ==
  /\ Doing("dealloc", "vector")
  /\ ~Def[First.type].sized /\ ClassOf(ElementOf(First.type)) \in {"vector", "collection"}
  /\ status' = "crashed"
  /\ UNCHANGED <<regions, memory, variables, agenda, count, built>>

DeallocTable ==
  /\ Doing("dealloc", "table") /\ ~Nested
  /\ GoOn([f \in DOMAIN Def[First.type].parts |-> ToDo("field", First.type, First.at \o <<f>>)]
            \o FreeBase)

\* What the elements of a field hold is given back, although nothing was allocated for it.
DeallocField ==
  LET array == PointsTo(First.at)
      field == Def[First.type].parts[First.at[Len(First.at)]]
  IN /\ Doing("field", "table")
     /\ Readable(First.at)
     /\ GoOn(Elements("dealloc", field, array, NumElem(First.type)) \o <<Free(array)>>)

\* The emitted code reads a pointer from memory that it does not own.
ReadWild ==
  /\ Doing("dealloc", "vector") \/ Doing("field", "table")
  /\ ~Readable(First.at)
  /\ status' = "wild"
  /\ UNCHANGED <<regions, memory, variables, agenda, count, built>>

\* core_dealloc gives back what core_alloc handed out; anything else is undefined.
FreeRegion ==
  LET r == First.at[1]
  IN /\ status = "ok" /\ agenda # <<>> /\ First.do = "free"
     /\ IF Live(r) /\ regions[r].place = "heap"
        THEN regions' = [regions EXCEPT ![r].live = FALSE] /\ GoOn(<<>>) /\ UNCHANGED status
        ELSE status' = "wild" /\ UNCHANGED <<regions, agenda>>
     /\ UNCHANGED <<memory, variables, count, built>>
-----------------------------------------------------------------------------
Idle == status = "ok" /\ agenda = <<>>

Room(t) == Len(variables) < (IF shared # {} /\ t \in Strangers THEN MaxVariables + 1 ELSE MaxVariables)

Declare(place, region, t, tasks) ==
  /\ Idle /\ Room(t)
  /\ regions' = Append(regions, BaseRegion(region, t))
  /\ variables' = Append(variables,
       [place |-> place, type |-> t, base |-> Len(regions) + 1, count |-> count, live |-> TRUE])
  /\ agenda' = tasks
  /\ UNCHANGED <<memory, count, built, status>>

Base == <<Len(regions) + 1>>

DeclareHeaped == \E t \in Types : Declare("heaped", "heap", t, <<ToDo("heap", t, Base)>>)

DeclareStacked == \E t \in Types : Declare("stacked", "stack", t, <<ToDo("stack", t, Base)>>)

\* The members of contexts are set up before the program starts.
DeclareContext ==
  /\ \A v \in DOMAIN variables : variables[v].place = "context"
  /\ \E t \in Literal :
       Declare("context", "global", t,
               IF IsOpen(t) THEN <<>> ELSE <<ToDo("context", t, Base)>>)

\* A variable is passed to a function: the value of a collection, the array of a vector.
PassArgument ==
  /\ Idle
  /\ \E v \in DOMAIN variables :
       LET t == variables[v].type
           from == variables[v].base
           base == Len(regions) + 1
           slots == {b \in DOMAIN memory : b[1] = from}
       IN /\ variables[v].live /\ t \in Literal /\ ClassOf(t) \in {"vector", "collection"} /\ Room(t)
          /\ regions' = Append(regions, BaseRegion("stack", t))
          /\ variables' = Append(variables,
               [place |-> "argument", type |-> t, base |-> base, count |-> count, live |-> TRUE])
          /\ memory' = [b \in DOMAIN memory \cup {<<base>> \o Tail(c) : c \in slots} |->
                          IF b[1] = base THEN memory[<<from>> \o Tail(b)] ELSE memory[b]]
          /\ agenda' = IF IsOpen(t) THEN <<>> ELSE <<ToDo("copy", t, <<base>>)>>
  /\ UNCHANGED <<count, built, status>>

Unheap ==
  /\ Idle
  /\ \E v \in DOMAIN variables :
       /\ variables[v].place = "heaped" /\ variables[v].live
       /\ variables' = [variables EXCEPT ![v].live = FALSE]
       /\ agenda' = <<ToDo("dealloc", variables[v].type, <<variables[v].base>>)>>
  /\ UNCHANGED <<regions, memory, count, built, status>>

AssignCount ==
  /\ Idle
  /\ count' \in Counts
  /\ UNCHANGED <<regions, memory, variables, agenda, built, status>>
-----------------------------------------------------------------------------
\* A value of type u can be stored in a variable of type t: any vector in any vector, of
\* which the model has those with the same elements.
Fits(t, u) ==
  \/ ClassOf(t) \in {"collection", "table"} /\ t = u
  \/ ClassOf(t) = "vector" /\ ClassOf(u) = "vector" /\ ElementOf(t) = ElementOf(u)

\* The addresses in the first n parts of region r at which pointers are stored.
Slots(r, n) == {b \in DOMAIN memory : b[1] = r /\ (Len(b) > 1 => b[2] <= n)}

\* The first n parts of region r hold what those of region s do, and nothing else.
Overwritten(r, s, n) ==
  LET copies == {<<r>> \o Tail(b) : b \in Slots(s, n)}
  IN [b \in (DOMAIN memory \ Slots(r, n)) \cup copies |->
        IF b \in copies THEN memory[<<s>> \o Tail(b)] ELSE memory[b]]

\* The value of a variable is its pointers, not what they lead to.
StoreValue(v, w) ==
  memory' = Overwritten(variables[v].base, variables[w].base, Len(Def[variables[v].type].parts))

Sharing(v, w) == shared' = shared \cup {v, w}

\* A declaration allocates what its type asks for also when it has an initialiser, whose
\* value is then stored over it.
DeclareInitialised ==
  /\ Idle
  /\ \E w \in DOMAIN variables :
       /\ variables[w].live
       /\ \E t \in {u \in Types : Fits(u, variables[w].type)} :
            LET tasks(do) == <<ToDo(do, t, Base), ToDo("store", t, <<variables[w].base>>)>>
            IN \/ Declare("heaped", "heap", t, tasks("heap"))
               \/ Declare("stacked", "stack", t, tasks("stack"))
       /\ Sharing(Len(variables) + 1, w)

StoreInitialiser ==
  /\ status = "ok" /\ agenda # <<>> /\ First.do = "store"
  /\ LET w == regions[First.at[1]].owner
     IN StoreValue(Len(variables), w) /\ Sharing(Len(variables), w)
  /\ GoOn(<<>>)
  /\ UNCHANGED <<regions, variables, count, built, status>>

Assigned(v, w) ==
  /\ v # w /\ variables[v].live /\ variables[w].live
  /\ Fits(variables[v].type, variables[w].type)

\* A collection, or a vector whose size is open, is assigned.  An assignment between tables
\* is built as nothing.
AssignValue ==
  /\ Idle
  /\ \E v, w \in DOMAIN variables :
       /\ Assigned(v, w)
       /\ ClassOf(variables[v].type) = "collection" \/ IsOpen(variables[v].type)
       /\ StoreValue(v, w)
       /\ Sharing(v, w)
  /\ UNCHANGED <<regions, variables, agenda, count, built, status>>

\* To assign a vector of a given size copies its elements, and with them their pointers.
\* Elements without pointers leave no trace.
CopiesElements(v, w) ==
  LET t == variables[v].type
  IN /\ Assigned(v, w) /\ ClassOf(t) = "vector" /\ Def[t].sized /\ Def[t].size > 0
     /\ ClassOf(ElementOf(t)) \in {"vector", "collection", "table"}

ArrayOf(v) == PointsTo(<<variables[v].base>>)

InArrays(v, w) ==
  Live(ArrayOf(v)) /\ Live(ArrayOf(w)) /\ regions[ArrayOf(v)].len >= Def[variables[v].type].size

AssignElements ==
  /\ Idle
  /\ \E v, w \in DOMAIN variables :
       /\ CopiesElements(v, w) /\ InArrays(v, w)
       /\ memory' = Overwritten(ArrayOf(v), ArrayOf(w), Def[variables[v].type].size)
       /\ Sharing(v, w)
  /\ UNCHANGED <<regions, variables, agenda, count, built, status>>

\* The emitted code copies from or to memory that is not a vector's.
AssignWild ==
  /\ Idle
  /\ \E v, w \in DOMAIN variables : CopiesElements(v, w) /\ ~InArrays(v, w)
  /\ status' = "wild"
  /\ UNCHANGED <<regions, memory, variables, agenda, count, built>>
-----------------------------------------------------------------------------
Init ==
  /\ regions = <<>>
  /\ memory = [a \in {} |-> 0]
  /\ variables = <<>>
  /\ agenda = <<>>
  /\ count \in Counts
  /\ built = {}
  /\ status = "ok"
  /\ shared = {}

Statement ==
  DeclareHeaped \/ DeclareStacked \/ DeclareContext \/ PassArgument \/ Unheap \/ AssignCount

Allocation ==
  /\ \/ HeapVector \/ HeapTable \/ HeapCollection
     \/ ContextVector \/ ContextTable \/ ContextCollection
     \/ StackVector \/ StackTable \/ StackCollection \/ StackMember \/ StackSubcollection
     \/ CopyCollection \/ Skip
  /\ UNCHANGED <<variables, count, status>>

Deallocation ==
  /\ DeallocPlain \/ DeallocCollection \/ DeallocVector \/ DeallocTable \/ DeallocField
  /\ UNCHANGED <<regions, memory, variables, count, built, status>>

\* What stores no variable in another.
Separate ==
  \/ Statement \/ Allocation \/ CopyVector \/ CopyCrash
  \/ Deallocation \/ DeallocCrash \/ ReadWild \/ FreeRegion \/ AssignWild

Next ==
  \/ Separate /\ UNCHANGED shared
  \/ DeclareInitialised \/ StoreInitialiser \/ AssignValue \/ AssignElements

Spec == Init /\ [][Next]_vars
=============================================================================
