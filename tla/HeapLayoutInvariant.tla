------------------------- MODULE HeapLayoutInvariant -------------------------
(***************************************************************************)
(* The inductive invariant of HeapLayout, in layers.  Inv, the first, says *)
(* what is in storage and what the calls on the agenda are still to see    *)
(* to.  Tree and Returned are about giving back: the regions of a heaped   *)
(* variable are a tree, and the calls on the agenda give back each of them *)
(* after what it leads to.  CopyKnown and BuiltKnown are about what is     *)
(* copied for arguments and what is built for contexts.                    *)
(*                                                                         *)
(* The layers hold, and are kept, until a variable is stored in another;   *)
(* Apart says that none was.                                               *)
(*                                                                         *)
(* AllocStep, ReleaseStepped and Declares say of a step what its proof     *)
(* that the layers are kept uses.                                          *)
(***************************************************************************)
EXTENDS HeapLayoutProps

-----------------------------------------------------------------------------
(* Types, calls and the places for pointers. *)

GoodTask ==
  {x \in Task : /\ x.at # <<>>
                /\ x.do = "field" => x.at[Len(x.at)] \in DOMAIN Def[x.type].parts}

Typed ==
  /\ StorageOK
  /\ agenda \in Seq(GoodTask)
  /\ agenda # <<>> => variables # <<>>
  /\ \A v \in DOMAIN variables :
       /\ variables[v].count \in Counts
       /\ variables[v].place \in {"context", "argument"} => variables[v].type \in Literal

PlacesOf(t, f) ==
  IF ClassOf(t) = "vector" THEN {[path |-> <<>>, type |-> t]}
  ELSE IF ClassOf(t) = "table" THEN {[path |-> <<i>>, type |-> t] : i \in DOMAIN Def[t].parts}
  ELSE UNION {InMember(m, f[Def[t].parts[m]]) : m \in DOMAIN Def[t].parts}

(* f is right for the types that are nested less than n deep. *)
PlacesUpTo(f, n) ==
  /\ f = [t \in Types |-> f[t]]
  /\ \A t \in Types : Depth[t] < n => f[t] = PlacesOf(t, f)

Pointers == {t \in Types : ClassOf(t) \in {"vector", "table"}}

Place == [path : Seq(Nat), type : Pointers]

(* The places for pointers in a value that is stored somewhere. *)
Spots(at, t) == {[at |-> at \o p.path, type |-> p.type] : p \in Places[t]}

Spot == [at : Seq(Nat), type : Pointers]

(* Of a region, its kind, its type and its length determine the places in it. *)
PlacesAt(r, role, t, n) ==
  IF role = "base" THEN Spots(<<r>>, t)
  ELSE IF role = "array" /\ ClassOf(t) # "table" THEN UNION {Spots(<<r, i>>, t) : i \in 1 .. n}
  ELSE {}

(* The places in a region after a step. *)
PlacesThen(r) == PlacesAt(r, regions'[r].role, regions'[r].type, regions'[r].len)

Deepens(of) ==
  /\ of = [t \in Types |-> of[t]]
  /\ \A t \in Types : \A u \in of[t] : u \in Types /\ Depth[u] < Depth[t]

ReachOf(t, of, f) == {t} \cup UNION {f[u] : u \in of[t]}

ReachUpTo(of, f, n) ==
  /\ f = [t \in Types |-> f[t]]
  /\ \A t \in Types : Depth[t] < n => f[t] = ReachOf(t, of, f)

-----------------------------------------------------------------------------
(* What StorageIsTyped, EveryVariableOwnsItsArrays and VectorPointersLead rest on. *)

Allocates == {"heap", "stack", "member", "context", "copy"}

DoneFor(place) ==
  {do \in Allocates : \/ place = "heaped" /\ do = "heap"
                      \/ place = "stacked" /\ do \in {"stack", "member"}
                      \/ place = "context" /\ do = "context"
                      \/ place = "argument" /\ do = "copy"}

Latest == variables[Len(variables)]

Declared == Latest.place

(* Calls that allocate are made for the last variable, others for one that is unheaped. *)
Charged(x) ==
  IF x.do \in Allocates
  THEN /\ x.at[1] \in DOMAIN regions /\ regions[x.at[1]].owner = Len(variables)
       /\ x.do \in DoneFor(Declared) /\ x.type \in OutsideTables[Latest.type]
       /\ count = Latest.count /\ Spots(x.at, x.type) \subseteq PlacesIn(x.at[1])
       /\ x.do = "copy" /\ ClassOf(x.type) = "table" => Len(x.at) > 1
  ELSE x.at[1] # 0 =>
         /\ x.at[1] \in DOMAIN regions
         /\ OwnerOf(x.at[1]).place = "heaped" /\ ~OwnerOf(x.at[1]).live

AllCharged == \A i \in DOMAIN agenda : Charged(agenda[i])

Own(a) == regions[memory[a]].owner = regions[a[1]].owner

StorageKnown ==
  /\ \A v \in DOMAIN variables :
       /\ regions[variables[v].base].owner = v /\ regions[variables[v].base].role = "base"
       /\ regions[variables[v].base].type = variables[v].type
  /\ \A r \in DOMAIN regions : OwnerOf(r).place = "heaped" => regions[r].place = "heap"
  /\ \A r \in DOMAIN regions : OwnerOf(r).live => regions[r].live
  /\ \A a \in DOMAIN memory :
       /\ a[1] \in DOMAIN regions
       /\ regions[memory[a]].role \in {"array", "field"}
       /\ OwnerOf(a[1]).place = "argument" \/ Own(a)

(* The places for pointers that a call is still to see to. *)
Cover(x) == IF x.do \in {"heap", "stack", "context", "copy"} THEN Spots(x.at, x.type) ELSE {}

Pending(p) == \E i \in DOMAIN agenda : p \in Cover(agenda[i])

(* The code has come to the pointer at place p in region r. *)
SeenIn(p, r) == SeenTo(p, OwnerOf(r).place) /\ ~Pending(p)

PlacesSettled ==
  status = "ok" =>
    /\ \A r \in DOMAIN regions : \A p \in PlacesIn(r) :
         SeenIn(p, r) => p.at \in DOMAIN memory /\ Own(p.at)
    /\ \A r, s \in DOMAIN regions : \A p \in PlacesIn(r), q \in PlacesIn(s) :
         SeenIn(p, r) /\ SeenIn(q, s) /\ memory[p.at] = memory[q.at] => p.at = q.at

(* How many elements the vectors of a type have in the variable that a region belongs to. *)
SizeFor(t, r) == IF Def[t].size = 0 THEN OwnerOf(r).count ELSE Def[t].size

(* The pointer of a vector leads to an array of its elements, of the size it was given; that
   of a table to the column of a field. *)
Leads(p) ==
  LET r == memory[p.at]
  IN /\ ClassOf(p.type) = "vector" =>
          /\ Def[p.type].sized /\ regions[r].role = "array" /\ regions[r].type = ElementOf(p.type)
          /\ regions[r].len = SizeFor(p.type, r)
     /\ ClassOf(p.type) = "table" => regions[r].role = "field"

PointersLead ==
  /\ \A r \in DOMAIN regions : \A p \in PlacesIn(r) : p.at \in DOMAIN memory => Leads(p)
  /\ \A b \in built : Def[b[1]].sized

(* No variable was stored in another. *)
Apart == shared = {}

Inv == Typed /\ AllCharged /\ StorageKnown /\ PlacesSettled /\ PointersLead

-----------------------------------------------------------------------------
(* What each kind of step does, in the terms of the invariant. *)

(* A call to be made for the variable that is being declared. *)
ForDeclared(x) ==
  /\ x.do \in DoneFor(Declared) /\ x.type \in OutsideTables[Latest.type]
  /\ x.at[1] \in DOMAIN regions' /\ regions'[x.at[1]].owner = Len(variables)
  /\ Spots(x.at, x.type) \subseteq PlacesThen(x.at[1])
  /\ x.do = "copy" /\ ClassOf(x.type) = "table" => Len(x.at) > 1

(* What a call that allocates does: new regions, their addresses stored at D, and for an
   argument the contents of the old region copied to C. *)
AllocStep(new, tasks, D, C) ==
  /\ status = "ok" /\ status' = "ok" /\ agenda # <<>> /\ First.do \in Allocates
  /\ variables' = variables /\ count' = count
  /\ built' \subseteq Types \X {"heaped", "stacked", "context", "argument"}
  /\ built \subseteq built' /\ \A b \in built' : b \in built \/ Def[b[1]].sized
  /\ new \in Seq(Region)
  /\ \A i \in DOMAIN new : new[i].owner = Len(variables) /\ new[i].live
  /\ \A i \in DOMAIN new : Declared = "heaped" => new[i].place = "heap"
  /\ regions' = regions \o new
  /\ tasks \in Seq(GoodTask) /\ agenda' = tasks \o Rest
  /\ \A i \in DOMAIN tasks : ForDeclared(tasks[i])
  /\ DOMAIN memory' = DOMAIN memory \cup D \cup C
  /\ \A d \in D :
       /\ d \in Seq(Nat) /\ d # <<>>
       /\ d[1] \in DOMAIN regions /\ regions[d[1]].owner = Len(variables)
       /\ memory'[d] \in DOMAIN regions' \ DOMAIN regions
       /\ regions'[memory'[d]].role \in {"array", "field"}
       /\ \E p \in Spots(First.at, First.type) : p.at = d /\ Leads(p)'
  /\ \A d, e \in D : memory'[d] = memory'[e] => d = e
  /\ C # {} => Declared = "argument"
  /\ \A c \in C :
       /\ c \in Seq(Nat) /\ c # <<>>
       /\ c[1] \in DOMAIN regions' \ DOMAIN regions
       /\ memory'[c] \in DOMAIN regions
       /\ regions[memory'[c]].role \in {"array", "field"}
  /\ \A r \in DOMAIN regions' \ DOMAIN regions : \A p \in PlacesIn(r)' : p.at \in C => Leads(p)'
  /\ \A a \in DOMAIN memory \ (D \cup C) : memory'[a] = memory[a]
  /\ \A p \in Cover(First) :
       SeenTo(p, Declared) => p.at \in D \/ \E i \in DOMAIN tasks : p \in Cover(tasks[i])
  /\ \A r \in DOMAIN regions' \ DOMAIN regions : \A p \in PlacesIn(r)' :
       SeenTo(p, Declared) => \E i \in DOMAIN tasks : p \in Cover(tasks[i])
  /\ \A i, j \in DOMAIN tasks : \A p \in Cover(tasks[i]), q \in Cover(tasks[j]) : p.at = q.at => i = j
  /\ \A i \in DOMAIN tasks : \A p \in Cover(tasks[i]) :
       p.at[1] \notin DOMAIN regions \/ (p \in Cover(First) /\ p.at \notin D)
  /\ \A r \in DOMAIN regions' \ DOMAIN regions :
       /\ regions'[r].role # "base"
       /\ regions'[r].role \in {"array", "field"} => \E d \in D : memory'[d] = r
  /\ D # {} => First.do # "member"

AllocStepped == \E new, tasks, D, C : AllocStep(new, tasks, D, C)

(* What gets no pointer is passed over, perhaps after a handle for it. *)
IsHandles(handles) ==
  /\ handles \in Seq(Region)
  /\ \A i \in DOMAIN handles :
       /\ handles[i].role = "handle" /\ handles[i].owner = Len(variables) /\ handles[i].live
       /\ Declared = "heaped" => handles[i].place = "heap"

Releases == {"dealloc", "field", "free"}

(* A call for what a variable that is unheaped holds, or for nothing. *)
ForUnheaped(x) ==
  /\ x.do \in Releases
  /\ x.at[1] # 0 =>
       /\ x.at[1] \in DOMAIN regions
       /\ OwnerOf(x.at[1]).place = "heaped" /\ ~OwnerOf(x.at[1]).live

(* Sequences of such calls. *)
Unheaping(tasks) == tasks \in Seq(GoodTask) /\ \A i \in DOMAIN tasks : ForUnheaped(tasks[i])

ReleaseStepped ==
  /\ status = "ok" /\ agenda # <<>> /\ First.do \in Releases
  /\ \E tasks : Unheaping(tasks) /\ agenda' = tasks \o Rest
  /\ UNCHANGED <<regions, memory, variables, count, built, status>>

(* A variable is declared in a region of its own; what is copied into it, for an argument,
   belongs to the caller. *)
Declares(v, region, tasks, C) ==
  LET base == Len(regions) + 1
  IN /\ v \in Variable /\ v.base = base /\ v.live /\ v.count \in Counts /\ v.count = count
     /\ region \in {"heap", "stack", "global"}
     /\ v.place = "heaped" => region = "heap"
     /\ v.place \in {"context", "argument"} => v.type \in Literal
     /\ regions' = Append(regions, BaseRegion(region, v.type))
     /\ variables' = Append(variables, v)
     /\ tasks \in Seq(GoodTask) /\ agenda' = tasks /\ Len(tasks) <= 1
     /\ \A i \in DOMAIN tasks :
          /\ tasks[i].do \in DoneFor(v.place) /\ tasks[i].at = <<base>> /\ tasks[i].type = v.type
          /\ tasks[i].do = "copy" => ClassOf(tasks[i].type) # "table"
     /\ DOMAIN memory' = DOMAIN memory \cup C
     /\ \A a \in DOMAIN memory : memory'[a] = memory[a]
     /\ C # {} => v.place = "argument"
     /\ \A c \in C : /\ c \in Seq(Nat) /\ c # <<>> /\ c[1] = base
                     /\ memory'[c] \in DOMAIN regions
                     /\ regions[memory'[c]].role \in {"array", "field"}
     /\ \A p \in Spots(<<base>>, v.type) : p.at \in C => Leads(p)'
     /\ count' = count /\ built' = built /\ status' = "ok"
     /\ \A p \in Spots(<<base>>, v.type) :
          SeenTo(p, v.place) => \E i \in DOMAIN tasks : p \in Cover(tasks[i])

DeclareStepped ==
  Idle /\ \E v, region, tasks, C : Declares(v, region, tasks, C)

-----------------------------------------------------------------------------
(* What OnlyTheHandlesAreLeft rests on: the storage of a variable is a tree, ... *)

(* The calls on the agenda all allocate, or all give back. *)
OneKind == (\A i \in DOMAIN agenda : agenda[i].do \in Allocates)
           \/ (\A i \in DOMAIN agenda : agenda[i].do \in Releases)

CoversApart ==
  \A i, j \in DOMAIN agenda : \A p \in Cover(agenda[i]), q \in Cover(agenda[j]) :
    p.at = q.at => i = j

(* Except in an argument, nothing was stored where a call is still to store something. *)
CoversFresh ==
  \A i \in DOMAIN agenda : \A p \in Cover(agenda[i]) :
    p.at \in DOMAIN memory => Declared = "argument"

AllPlaces == UNION {PlacesIn(s) : s \in DOMAIN regions}

(* The pointer at place p leads from an older region of the same variable to region r. *)
Parent(p, r) ==
  /\ p \in PlacesIn(p.at[1]) /\ p.at \in DOMAIN memory /\ memory[p.at] = r /\ p.at[1] < r
  /\ p.at[1] \in DOMAIN regions /\ regions[p.at[1]].owner = regions[r].owner

(* The storage of a heaped variable is a tree. *)
HasParents ==
  \A r \in DOMAIN regions :
    OwnerOf(r).place = "heaped" /\ regions[r].role \in {"array", "field"} =>
      \E p \in AllPlaces : Parent(p, r)

StoredInPlaces ==
  \A a \in DOMAIN memory : OwnerOf(a[1]).place = "heaped" => \E p \in PlacesIn(a[1]) : p.at = a

BasesKnown ==
  /\ \A v \in DOMAIN variables :
       regions[variables[v].base].len = Len(Def[variables[v].type].parts)
  /\ \A r \in DOMAIN regions :
       regions[r].role = "base" => r = variables[regions[r].owner].base

Tree == OneKind /\ CoversApart /\ CoversFresh /\ HasParents /\ StoredInPlaces /\ BasesKnown

(* Nothing about storage changes but whether it is live. *)
SameStorage ==
  /\ memory' = memory /\ DOMAIN regions' = DOMAIN regions /\ DOMAIN variables' = DOMAIN variables
  /\ \A r \in DOMAIN regions :
       /\ regions'[r].owner = regions[r].owner /\ regions'[r].role = regions[r].role
       /\ regions'[r].type = regions[r].type /\ regions'[r].len = regions[r].len
  /\ \A v \in DOMAIN variables :
       /\ variables'[v].place = variables[v].place /\ variables'[v].type = variables[v].type
       /\ variables'[v].base = variables[v].base /\ variables'[v].count = variables[v].count

(* What a step of the program is. *)
Quiet == UNCHANGED <<regions, memory, variables, agenda, built>>

FreeStepped ==
  LET r == First.at[1]
  IN /\ status = "ok" /\ status' = "ok" /\ agenda # <<>> /\ First.do = "free" /\ Live(r)
     /\ regions[r].place = "heap" /\ regions' = [regions EXCEPT ![r].live = FALSE]
     /\ agenda' = <<>> \o Rest /\ UNCHANGED <<memory, variables, count, built>>

-----------------------------------------------------------------------------
(* ... and the calls that give it back are in order, and come to all of it. *)

(* The types of what is given back with a variable: also of what tables hold. *)
GivenBack(t) ==
  OutsideTables[t] \cup
    IF ClassOf(t) = "table" THEN UNION {OutsideTables[u] : u \in PartsOf(t)} ELSE {}

Returns(x, v) ==
  \/ x.do = "dealloc" /\ x.type \in GivenBack(v.type)
  \/ x.do = "field" /\ x.type = v.type /\ ClassOf(x.type) = "table" /\ Len(x.at) = 2
  \/ x.do = "free" /\ Len(x.at) = 1

(* Variable v is being unheaped. *)
Returning(v) ==
  /\ agenda # <<>> /\ variables[v].place = "heaped" /\ ~variables[v].live
  /\ agenda[Len(agenda)].at[1] = variables[v].base /\ Len(agenda[Len(agenda)].at) = 1
  /\ \A i \in DOMAIN agenda : Returns(agenda[i], variables[v])
  /\ \A i \in DOMAIN agenda : agenda[i].do = "dealloc" /\ Len(agenda[i].at) = 1 =>
       Len(agenda) = 1 /\ agenda[i].type = variables[v].type

(* A region is given back after what is in it, and not touched afterwards. *)
InOrder(i) ==
  LET x == agenda[i]
  IN /\ Len(x.at) > 1 =>
          \E j \in DOMAIN agenda : j > i /\ agenda[j].do = "free" /\ agenda[j].at[1] = x.at[1]
     /\ Len(x.at) = 1 => \A j \in DOMAIN agenda : j > i => agenda[j].at[1] # x.at[1]

(* The code gives back what it read from memory that it never wrote. *)
Doomed == \E i \in DOMAIN agenda : agenda[i].do = "free" /\ agenda[i].at[1] = 0

Touched(r) == \E i \in DOMAIN agenda : agenda[i].at[1] = r

Untouched(r) == regions[r].live /\ ~Touched(r)

(* The places for the pointers that a call takes what is to be given back from. *)
Takes(x) ==
  IF x.do = "dealloc" THEN {p \in Spots(x.at, x.type) : ClassOf(p.type) = "vector" \/ Len(p.at) = 2}
  ELSE IF x.do = "field" THEN {[at |-> x.at, type |-> x.type]} ELSE {}

Orderly(v) ==
  /\ \A i \in DOMAIN agenda :
       /\ InOrder(i)
       /\ agenda[i].at[1] \in DOMAIN regions /\ regions[agenda[i].at[1]].owner = v
       /\ regions[agenda[i].at[1]].live
       /\ agenda[i].do = "dealloc" =>
            \/ agenda[i].type \in OutsideTables[variables[v].type]
            \/ regions[agenda[i].at[1]].role = "field"
  /\ \A i, j \in DOMAIN agenda : \A p \in Takes(agenda[i]), q \in Takes(agenda[j]) :
       p.at = q.at => i = j
  /\ \A i \in DOMAIN agenda : \A p \in Takes(agenda[i]) :
       p.at \in DOMAIN memory => p \in PlacesIn(p.at[1]) /\ Untouched(memory[p.at])
  /\ \A r \in DOMAIN regions : regions[r].owner = v /\ Untouched(r) =>
       \A p \in PlacesIn(r) : p.at \in DOMAIN memory => Untouched(memory[p.at])

(* The code is still to come to everything that is not given back yet. *)
Owed(v) ==
  \/ HasTableInside(variables[v].type)
  \/ HasVariableLoop(variables[v].type)
  \/ \A r \in DOMAIN regions :
       regions[r].owner = v /\ regions[r].live /\ regions[r].role # "handle" =>
         \/ Touched(r)
         \/ \E p \in AllPlaces : Parent(p, r) /\
              (Untouched(p.at[1]) \/ \E i \in DOMAIN agenda : p \in Takes(agenda[i]))

Excused(v) ==
  HasOpenSize(v.type) \/ TableOfVectors(v.type) \/ (HasVariableLoop(v.type) /\ count > v.count)

(* Unless there is a reason for it, the code does not leave what it allocated. *)
Sound(v) ==
  Excused(variables[v]) \/
    (~Doomed /\ \A i \in DOMAIN agenda : Takes(agenda[i]) \subseteq PlacesIn(agenda[i].at[1]))

Giving(v) == Returning(v) /\ (Doomed \/ (Orderly(v) /\ Owed(v))) /\ Sound(v)

Phase ==
  \/ agenda = <<>>
  \/ Latest.live /\ \A i \in DOMAIN agenda : agenda[i].do \in Allocates
  \/ \E v \in DOMAIN variables : Giving(v)

NoneLeft ==
  \A r \in DOMAIN regions :
    LET v == OwnerOf(r)
    IN v.place = "heaped" /\ ~v.live /\ regions[r].live =>
         \/ regions[r].role = "handle" \/ HasTableInside(v.type) \/ HasVariableLoop(v.type)
         \/ Returning(regions[r].owner)

Returned == status = "ok" => Phase /\ NoneLeft

-----------------------------------------------------------------------------
(* What a call that gives back hands on to. *)

(* The calls after those for what is in a region. *)
IsFrees(back, a) == back = FreeBase \/ back = <<Free(a)>> \o FreeBase

(* A call hands on to calls for what it takes, or goes to array a, which it takes, and then
   to the calls for what is in the array. *)
Gives(v, loop, back, a) ==
  /\ status = "ok" /\ agenda # <<>> /\ First.do \in {"dealloc", "field"}
  /\ loop \in Seq(GoodTask) /\ a \in Nat /\ agenda' = (loop \o back) \o Rest
  /\ UNCHANGED <<regions, memory, variables, count, built>>
  /\ \A i \in DOMAIN loop :
       /\ Returns(loop[i], variables[v]) /\ Len(loop[i].at) > 1
       /\ loop[i].do = "dealloc" =>
            \/ loop[i].type \in OutsideTables[variables[v].type]
            \/ regions[loop[i].at[1]].role = "field"
  /\ \A i, j \in DOMAIN loop : \A p \in Takes(loop[i]), q \in Takes(loop[j]) : p.at = q.at => i = j
  /\ IF a = 0
     THEN /\ back = FreeBase
          /\ \A i \in DOMAIN loop : loop[i].at[1] = First.at[1] /\ Takes(loop[i]) \subseteq Takes(First)
          /\ \A q \in Takes(First) : \E i \in DOMAIN loop : q \in Takes(loop[i])
     ELSE /\ back = <<Free(a)>> \o FreeBase
          /\ \E p : Takes(First) = {p} /\ p.at \in DOMAIN memory /\ memory[p.at] = a
          /\ \A i \in DOMAIN loop :
               /\ loop[i].at[1] = a
               /\ \A q \in Takes(loop[i]) : q.at \in DOMAIN memory => q \in PlacesIn(a)
          /\ \/ HasTableInside(variables[v].type)
             \/ HasVariableLoop(variables[v].type)
             \/ \A p \in PlacesIn(a) : p.at \in DOMAIN memory => \E i \in DOMAIN loop : p \in Takes(loop[i])

(* How a call that gives back goes on, in every case; when everything is in order; and when
   there is no reason that anything should go wrong. *)
GoesOn(v, loop, back, a) ==
  /\ loop \in Seq(GoodTask) /\ a \in Nat /\ IsFrees(back, a) /\ agenda' = (loop \o back) \o Rest
  /\ \A i \in DOMAIN loop : Returns(loop[i], variables[v]) /\ Len(loop[i].at) > 1
  /\ Orderly(v) => Gives(v, loop, back, a) \/ (a = 0 /\ back = <<Free(a)>> \o FreeBase)
  /\ Orderly(v) /\ ~Excused(variables[v]) /\ Sound(v) =>
       /\ Gives(v, loop, back, a)
       /\ \A i \in DOMAIN loop : Takes(loop[i]) \subseteq PlacesIn(loop[i].at[1])

HandsOn(v) == \E loop, back, a : GoesOn(v, loop, back, a)

Stays == UNCHANGED <<regions, memory, variables, count, built, status>>

(* The calls for the elements of an array that is given back. *)
ForElements(loop, t, r, n) ==
  /\ \A i \in DOMAIN loop :
       /\ i \in 1 .. n /\ ClassOf(t) \in {"vector", "collection"}
       /\ loop[i].do = "dealloc" /\ loop[i].type = t /\ loop[i].at[1] = r /\ Len(loop[i].at) > 1
       /\ \A p \in Takes(loop[i]) :
            p \in Spots(<<r, i>>, t) /\ ClassOf(p.type) = "vector" /\ p.at[1] = r /\ p.at[2] = i
            /\ p.type \in OutsideTables[t]
  /\ ClassOf(t) \in {"vector", "collection"} =>
       \A i \in 1 .. n : \A p \in Spots(<<r, i>>, t) :
         ClassOf(p.type) = "vector" => i \in DOMAIN loop /\ p \in Takes(loop[i])

(* A region is given back. *)
Shorter ==
  /\ DOMAIN agenda \subseteq Nat /\ DOMAIN agenda' \subseteq Nat
  /\ \A i \in DOMAIN agenda' : i + 1 \in DOMAIN agenda /\ i + 1 > 1 /\ agenda'[i] = agenda[i + 1]
  /\ \A j \in DOMAIN agenda : j = 1 \/ (j > 1 /\ j - 1 \in DOMAIN agenda' /\ agenda'[j - 1] = agenda[j])

Frees(r) ==
  /\ Typed /\ r \in DOMAIN regions /\ r # 0 /\ Takes(First) = {} /\ First.do = "free"
  /\ Len(First.at) = 1 /\ First.at[1] = r /\ 1 \in DOMAIN agenda /\ First = agenda[1]
  /\ Shorter /\ SameStorage
  /\ \A q \in DOMAIN regions : q # r => regions'[q] = regions[q]
  /\ regions'[r].live = FALSE /\ variables' = variables /\ count' = count /\ memory' = memory
  /\ agenda' = <<>> \o Rest

(* What is to be left of a region of a variable that has been unheaped. *)
Left(r) ==
  \/ regions[r].role = "handle" \/ HasTableInside(OwnerOf(r).type) \/ HasVariableLoop(OwnerOf(r).type)

Gone(r) == OwnerOf(r).place = "heaped" /\ ~OwnerOf(r).live /\ regions[r].live

-----------------------------------------------------------------------------
(* What EveryFaultHasItsCause rests on besides. *)

(* The vectors in a context get their sizes built, or are on the way to it. *)
SizeIsBuilt(u) == <<u, "context">> \in built

SizeToCome(u) == \E i \in DOMAIN agenda : agenda[i].do = "context" /\ u \in OutsideTables[agenda[i].type]

BuiltKnown ==
  \A v \in DOMAIN variables : variables[v].place = "context" /\ ~HasOpenSize(variables[v].type) =>
    \A u \in OutsideTables[variables[v].type] : ClassOf(u) = "vector" =>
      SizeIsBuilt(u) \/ (v = Len(variables) /\ SizeToCome(u))

(* Some stacked variable has the type of the variable that is being set up. *)
LikeStacked ==
  \E u \in DOMAIN variables : variables[u].place = "stacked" /\ variables[u].type = Latest.type

(* The pointer at an address leads to an array of another variable, which is still there. *)
Lent(a) ==
  /\ a \in DOMAIN memory /\ regions[memory[a]].owner # Len(variables)
  /\ OwnerOf(memory[a]).live /\ OwnerOf(memory[a]).place # "stacked"

(* What is to be copied for an argument is the caller's, unless the caller's may be stacked. *)
Loaned(x) ==
  x.do = "copy" =>
    \A p \in Cover(x) : ClassOf(p.type) = "vector" /\ Def[p.type].sized => Lent(p.at)

CopyKnown == LikeStacked \/ \A i \in DOMAIN agenda : Loaned(agenda[i])

(* What has to be the case when building or the program ends in this way. *)
Explains(s) ==
  /\ s = "wild" /\ agenda # <<>> /\ First.do = "copy" => LikeStacked
  /\ s = "wild" /\ agenda # <<>> /\ First.do # "copy" => Excused(variables[Unheaped])
  /\ s = "wild" /\ agenda = <<>> => \E u \in DOMAIN variables : IsOpen(variables[u].type)
  /\ s = "crashed" /\ First.do = "dealloc" => OpenSizeGivenBack(variables[Unheaped].type)
  /\ s = "crashed" /\ First.do = "copy" =>
       /\ Declared = "argument" /\ HasVector(Latest.type)
       /\ \/ First.at = <<Latest.base>>
          \/ HasOpenSize(Latest.type)
          \/ \A u \in DOMAIN variables :
               variables[u].place = "context" => variables[u].type # Latest.type

=============================================================================
