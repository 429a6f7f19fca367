# A verification of the Tabitha SDK

Tabitha is a small imperative language whose distinguishing types are *tables*
(struct-of-arrays with ids) and *contexts* (captured global state).  The SDK in
`src/` is its compiler `tabic` (C++, on LLVM and cpp-peglib), the runtime
`tabi_core` that compiled programs call, and the standard library `tabi_std`.
The repository has no tests.  This directory models the parts of the SDK where
state changes in ways that are easy to get wrong, checks them with TLC on small
instances, and proves the results that matter most with TLAPS for all
instances.

Paths below are relative to the repository root `src/`.

## 1. Inventory

`tabic` is one thread: `main` (src/tabic/tabic.cpp 68-207) runs four stages over
one `Bundle` and ends with exit status 1 or 2 when the first or the second stage
fails.  The stages communicate only through the bundle (slabs, and in them
types, contexts, dumps and functions, each with a `create`, a `parse` and a
`build` part) and through one global status per stage.  The compiled program is
again one thread, which calls the runtime.

| component | source | state | operations | what is hard | what makes it correct |
|---|---|---|---|---|---|
| Table runtime | tabi_core/tabi_core.c 20-138 | the columns id, use and the program's | init, insertRow, getRowByID, deleteRowByID, getNumUsed, crunch | ids of released rows stay behind; a lookup inserts; ids out of range; full tables; crunch's index arithmetic | the table is a map from ids to elements; memory outside it is left alone |
| Table code | tabic/build.cpp 417-482, 788-817, 1761-1881 | the row of an insert under way | insert, row reference, delete, measure, crunch | element expressions run between claiming the row and storing; the row -1; column sizes | an insert stores into its own row |
| Heap runtime | tabi_core/tabi_core_cross.c, tabi_core_raw.asm | mapped regions | core_alloc, core_dealloc, core_memcpy | the length header; copying whole words | what is allocated is what is released; copies touch only their range |
| Create stage | tabic/create.cpp | slabs, attachments, definitions, status, call stack | createBundle, getOrCreateSlab, createSlab | cyclic and repeated attachments, failures in the middle of nested calls | verdict and bundle agree with the files |
| Slab names, writing, driver | create.cpp 115-184, write.cpp, tabic.cpp 68-207 | ids, paths, the output directory, exit statuses | resolve an attachment, name and write an object file, link, end | `_` and `/` are both separators; old object files; a session that is killed | an executable holds what the session read |
| Preprocessor | tabic/pre.cpp 25-46 | the source text and two positions | replace one block | missing delimiters; positions after a replacement | ends; replaces exactly the blocks |
| Parse stage: functions and types | tabic/parse.cpp 25-57, 85-375 | parse status of functions, members parsed so far, the nested parsers | parseBundle, parseType, parseFunction, getOrCreateType | recursion through calls and aliases; a map changed while iterated; exceptions nobody catches | ends for every program; reports every error |
| Parse stage: statements and references | parse.cpp 377-1822 | scopes, captures | one parser per statement | scoping, context capture, errors that do not reach the status | nothing unresolved reaches the build stage |
| Type checking | parse.cpp 1825-1845 | - | typesMatch | aliases, addresses, nested types | an equivalence on the types it compares |
| Precedence | build.cpp 1395-1420, model/datatypes.hpp 154-168 | the expression tree | one rotation per node | chains of three operators, equal rank | the usual reading of the expression |
| Control flow | build.cpp 251-396, 484-563, 1552-1685 | basic blocks, insert point | function, block, conditional, branch, loop, return | return inside branches and loops; the stack given back early | every block has one terminator, at its end; a call does what the source says |
| Memory layout | build.cpp 202-249, 565-1290, 1890-2104 | stack, heap and context stores | allocate, copy, unheap | nested vectors, collections and tables; sizes that change | allocations and releases match; no two vectors share an array unless one is stored in the other |
| Standard library | tabi_std/ | - | conversions, input and output | overflow, end of strings | conversions invert each other |
| Grammar | res/grammar/tabitha.peg | - | - | interpreted by cpp-peglib | - |

`PROJECT.json` lists the same components with their status, and under
`hazards`, at its line, everything in them that a test would hardly reach.

## 2. How the project is laid out

In the order of their weight for a Tabitha program:

1. `TableAbs`, `Table`, `TableProps`, `MCTable`, `TableProofs`: the table
   runtime with the code built around it, because this is the state that every
   Tabitha program shares with the runtime and the only data structure of the
   SDK.  `Table` implements `TableAbs`, a map.
2. `SlabCreation`, `SlabCreationProps`, `MCSlabCreation`, `SlabCreationProofs`: the
   create stage, on which the other stages rest.
3. `BinaryExpression`, `BinaryExpressionProps`, `BinaryExpressionProofs`:
   chains of operators from the parser through the code generator.
4. `ParseStage`, `ParseStageProps`, `MCParseStage`, `ParseStageProofs`: the parse
   stage as a stack of nested parsers over the references among definitions,
   with its ways to fail and to crash.
5. `FunctionBody`, `FunctionCall`, `ControlFlow`, `ControlFlowProps`, `ControlFlowProofs`,
   `ControlFlowSourceProofs`: the basic blocks built for the body of a function, and a
   call of them, which implements `FunctionCall`, the meaning of the source.
6. `HeapLayout`, `HeapLayoutProps`, `MCHeapLayout`, `HeapLayoutInvariant`, `HeapLayoutProofs`:
   the memory of variables of nested type, allocated, copied and given back.  The
   invariant behind its theorems has a module of its own.
7. `Compiler`, `CompilerProps`, `MCCompiler`, `CompilerProofs`: whole sessions of the
   compiler, which composes the verdicts of the stages (whose insides are
   `SlabCreation` and `ParseStage`) with names, files, object files and the link.

Each component has one module for what the code does, one for what it has to
satisfy (`...Props`), where constants need values an `MC...` module, and one for
proofs.  What is left out, and why, is in section 12.

## 3. The table

### State and actions

`Table` models one table with `NumRows` rows and `NumColumns` columns of the
program's.  `idField` and `useField` are the two implicit int columns;
`cells[k]` is the memory of program column k as a run of cells, `FieldWidth[k]`
to an element, so that a copy with a wrong element size can be seen;
`filling` is the program counter inside an insert; `idVar` and `numVar` are the
variables after `>`; `stray` says that memory outside the table was accessed.

| code | definition |
|---|---|
| core_table_init and the allocation around it | `Init`: only the use column is cleared |
| core_table_insertRow, called by the code of buildTableInsert | `InsertRow`; `FreeRows`, `ZeroCounts`, `CountStrays` are what its loops find |
| the element stores of buildTableInsert, one per column | `StoreElement`, `StoreFromRow`, `NextColumn` |
| core_table_getRowByID under a row reference | `RowOf`, `Claim`; `ReadRow` as a value, `WriteRow` as the target of an assignment, `StoreFromRow` inside an insert |
| core_table_deleteRowByID | `DeleteRow` |
| core_table_getNumUsed | `NumUsed`, `Measure` |
| core_table_crunch with the arguments of buildTableCrunch | `Holes`, `Tail`, `Sources`, `CopyWidth`, `MoveRows`, `Crunch` |

The loops are modelled by what they compute: the first free row is the least of
`FreeRows`, and the two nested loops of crunch pair the unused rows among the
first n with the used ones after them in order (`Sources` holds exactly that
pairing).  The interleaving that matters is inside an insert: the generated
code claims the row, then evaluates and stores the elements one by one, and an
element that refers to a row of the same table may claim another row in
between.  An access outside the table is undefined in C; it sets `stray`, after
which nothing is said and no action is enabled, which is why the runs do not
check for deadlock.

Left out: programs that use the implicit columns as fields; a variable after
`>` that lies in the table itself; elements that are calls of functions which
change the table; inserts with more or fewer elements than columns, which the
parser does not reject; tables in the heap and in contexts, which are never
initialised (section 12).  An assignment from one row to another is `ReadRow` followed by
`WriteRow`, the order in which buildBlock evaluates them.

`TableAbs` is what a table promises: a map from ids to elements.  `TableProps!Map`
is the refinement mapping: to each id of a used row the contents of that row.

### What the runs check

* **table_map** (3 rows, 2 columns of one cell, ids 0 and 3 named by the program,
  everything but crunch).  `ImplementsMap`: every behaviour is one of `TableAbs`, so
  insert binds the least unused id, a lookup of a missing id binds it, delete
  unbinds, a store changes one element of one id, and nothing else changes,
  until the program asks a full table for a row or inserts while an id
  outside 0..2 is bound.  `UniqueIds`: why the mapping is a function.
  `StatementsKeepPromise`: which step of the map each statement is, so that
  an insert's row is not given away while it is filled.  Three rows are the least
  with a first, a middle and a last row; one id inside and one outside the row
  range meet every branch on ids, since rows also get the ids that insert
  chooses; two columns are needed for a row to be half filled; one stored
  value and the garbage value suffice to see which cells were stored.
  `TableAbs` has no names for its steps, so a delete that released another id
  than it was asked to would still be a step of it.  `StatementsKeepPromise` ties
  each statement, with its id, column and value, to the step of `TableAbs` that it
  must be.
* **table_crunch** (4 rows of one int column; inserts, lookups, deletes and
  crunches, ids 0 and 1).  `CrunchPacks`: afterwards the used rows are the first
  ones, as many as before.  `CrunchKeepsElements`: each combination of elements is
  held by as many rows as before.  `StrayOnlyWhenFull`: memory outside the table
  is accessed only when a full table is asked for a row.  Four rows give two
  holes and two rows to move.
* **table_crunch_ids** is expected to fail: see section 11.

## 4. The create stage

### State and actions

`SlabCreation` models the nested calls of `createSlab` as a stack of calls, each
with the item it is at; `slabs`, `attachments` and `definitions` are the maps of the
bundle and its slabs, `status` the global `_createStatus`.  The files
(`project`) and whether the grammar file is readable (`parser`) are chosen
at the start and do not change.  A file is readable or not, well-formed or not,
and a sequence of items: attachments (of a slab, under an alias) and
definitions (of a name, which stands for one key of one of the four maps).

| code | definition |
|---|---|
| createBundle up to the root slab | `Init` |
| createSlab before its loop: readFile, parse, the early return | `ReadSlab` |
| getOrCreateSlab when the slab is new | `CreateAttached` |
| the rest of an attachment, with DoubleAlias | `RecordAttachment` |
| the other items | `RecordDefinition` |
| the ends of createSlab and createBundle | `ReturnSlab`, `ReturnBundle` |

Left out: how ids and paths are made of names (section 10) and the
preprocessor (a file that cannot be preprocessed counts as unreadable).

### What the runs check

* **slab_creation**: all 71874 projects of three slabs with at most two items
  each, out of five items (three attachments under one alias, one under a
  second alias, one definition), with and without a grammar.  Three slabs have
  cycles of every length up to three and a slab attached from two sides; two
  items suffice for a failure before and after another item, a doubled alias and
  a redefinition.  `CreatedOnce`: cycles do not create a slab twice.  `VerdictIsRight`:
  success exactly when everything reachable is sound.  `SuccessIsComplete`: and then
  the bundle is exactly what the files say, with the last definition of each
  name.  `ReturnsOrNoParser`: the stage ends, under weak fairness of `Next`.  The
  fairness says only that the compiler's one thread keeps running; no step of
  it waits for anything.
When the grammar cannot be read, createBundle reports it and goes on, and
createSlab uses the parser it does not have (create.cpp 192): the exception
that `ReturnsOrNoParser` makes.

A failure in one slab cuts the slabs read after it short (create.cpp 196).  That
does no harm beyond errors that go unreported, since `main` stops after a
failed stage, and the properties allow it.

The runs do not check for deadlock, because the stage ends.

## 5. What is proved

All proofs are checked by tlapm; they assume only the named assumptions on the
constants: a positive number of rows and columns, positive widths, ids and
garbage that are ints; a root among the slabs, a null slab that is none, and
files that are records of the right shape.

`TableProofs`, for tables of any size:

* `TypeCorrect`: `Spec => []TypeOK`.  The work is in the stores (`StoreKeepsMemoryOK`) and
  in crunch (`MoveKeepsMemoryOK`): a cell that a copy writes comes from a cell of the
  same column, even with the wrong element sizes, as long as the copy does not
  leave the column.
* `IdsStayUnique`: without crunch, `Spec => []UniqueIds`.  `UniqueIds` is inductive with
  the types: a row is claimed only for an id no used row has, which for insert
  rests on `SomeCountIsZero` (some id below `NumRows` is free when some row is).
* `FillingRowStaysUsed`: while an insert is under way, no statement that releases
  rows can run.
* `CrunchAlwaysPacks` and `CrunchKeepsKnownElements`: crunch pairs the first holes with the
  used rows behind the first n.  `TailFillsHoles` counts both: among the first n
  rows there are as many holes as there are used rows behind them, so that the
  pairing is a bijection; `MovedRows` says which rows are used afterwards and
  `MovedContents` that each of them holds what its source held.  The second
  theorem assumes that crunch copies each column with its own size, which the
  build stage gets right only for some layouts (section 11); the first assumes
  nothing.
* `IdsStayCounted` and `OnlyFullTablesStray`: a program that names only ids below `NumRows`
  never makes insertRow index outside its counts, and with columns whose
  sizes crunch gets right it strays only when the table is full.  The
  invariant is that every used row has an id of the row range; crunch keeps it
  because the id it writes, 1, is in range whenever it moves a row.

`TableProofs` also, for tables of any size, that a row being filled stays in use
(`FillingRowStaysUsed`), and for programs that do not crunch:

* `StatementsAreMapSteps` and `TableImplementsMap`: each statement, with its id, column and
  value, is the step of `TableAbs` that it must be, and so the table implements
  the map.  All statements but delete first claim a row for an id: `ClaimedMap`
  says what the map is afterwards and `ClaimBinds` that this is a binding the map
  allows; `StoredMap` adds the store of one element.  The least id that insert
  finds among its counts is the least unused id of the map (`CountedIdIsLeast`),
  and a table has a free row exactly when the map has room (`FreeRowIsRoom`,
  `NoFreeRowIsNoRoom`), both by counting rows and ids.  Besides `TypeOK`, `UniqueIds` and
  `FillingRowIsUsed` the invariant is `IdsAreNamed`: rows in use have ids that the
  program names or insert has chosen, which are the ids `TableAbs` knows.

`SlabCreationProofs`, for any slabs, files and attachments:

* `TypeCorrect`, `SlabsCreatedOnce`, `VerdictIsAlwaysRight`, `SuccessIsAlwaysComplete`.  The last two
  speak of the end of the stage and are far from inductive.  `IInv` adds how far
  each call is: a call at item n has recorded the items before n and nothing
  else (`Progress`), an entered slab without a call is finished unless something
  failed (`Finished`), slabs not entered are untouched, a failure has its cause
  among the entered slabs (`Cause`), and nothing unreachable is entered
  (`OnlyReachable`).  At the end the stack is empty, so without a failure the
  bundle is closed under attachment and equals the reachable slabs.

`SlabCreation`'s `ReturnsOrNoParser` is model-checked only, because liveness is
outside what tlapm proves.

## 6. Operator chains

### State and actions

`BinaryExpression` follows one expression.  `chain` and `term` are what is written:
the operators, as values of enum BinaryOperator, and the types of the operands
between them.  `node[x]` is the BinaryExpression object that the parser made for
the x-th operator; an operand k is written -k, so that the fields `lhs` and `rhs`
say which object they point to.  `todo` is the stack of calls of buildExpression,
each about to enter its node or to leave it, and `builds` counts how often the
whole expression has been built.

| code | definition |
|---|---|
| grammar: singleton, operator, rest | `Init`, `Parsed` |
| parseBinaryExpression, OperatorTypeMismatch | `ParseNode`, `ParseMismatch`, `EquivalentPrimitive` |
| the rotation in buildExpression | `MustRotate`, `Rotate`, within `EnterNode` |
| the code for an operator and its operands | `LeaveNode`, `Generated`, `HasCode`, `Accepts` |
| a call of buildExpression on the root: allocation, and again at unheap | `StartBuild` |

Of the generated code only the type of its value is kept: `UNSET` where the code
generator has no case for the operator and the kind of operands, `MALFORMED`
where LLVM gets operands of two types or of the wrong kind.  LLVM's verifier is
run, but its result is ignored (write.cpp 64).  Brackets are operands.  `SIZE`
and the other numeric types besides Int, Float and Char get no instruction kind
from the parser.

### What the runs check

* **binary_expression** (chains of up to four operators out of `-`, `*`, `/` and `<`,
  operands of types Int, Float and Truth, up to three builds).  `KeepsOrder`: between any
  two steps the tree holds each operand and operator once and in the order
  written.  `NeighboursGrouped`: what one build does get right.  `NumbersTyped`: the
  parser's types are the types of the code for plain arithmetic.  `BuildsSettle`:
  an expression of n operators is grouped by rank after n - 1 builds, and then no
  build changes it any more; before that, building again may change its value,
  which is what happens to the size of a vector that is allocated and unheaped.
  Four operators give a rotation followed by two more comparisons, the first case in
  which a regrouped pair can meet another; ranks are only compared, so that
  three arithmetic ones have all orders of three, and one comparison suffices
  for types.
* **binary_expression_types** is expected to fail; see section 11.

The runs do not check for deadlock: the compiler ends.  Fairness is that of
one thread that runs until it ends.

### What is proved

For every chain, every set of operators and operand types and any number of
builds, `TypeCorrect`.  The inductive invariant `IInv`
adds to the types of the fields that all nodes from `next` on are parsed, that
the stack is empty before the build stage, and that its calls are on nodes; a
rotation is taken apart into its six assignments, each covered by one of the
lemmas `SetLhs`, `SetRhs` and `SetOp`.  `BuildsSettle` is model-checked only.
`NumbersAreTyped` is for chains of any length over
plain numbers and any number of builds: the code of every node has the type the
parser gave the node.  Its invariant `NInv` follows the first build down the chain.
From some node z on, the nodes are still as they were parsed (`Chained`); each node
before z has its code or a call on the stack (`Calls`), and a call that will leave a
node stands below the calls for those operands of it that have no code yet
(`Awaits`).  A node that is entered takes itself out of the chain, and after a
rotation its right neighbour too: `EnterLeaf`, `EnterOrdered` and `EnterRotated` show
for the three cases that the calls it makes are enough (`Brings`, `Pushed`).  A
node that is left finds both operands built, with one type (`Popped`,
`GeneratedResult`).  After the first build every node has the same type and the
same kind of instruction, so that no later exchange can go wrong.

`OrderIsKept` and `NeighboursAreGrouped` are about whole trees, which `InOrder`
reads by recursion on the depth.  Their invariant `TreeInv` says without recursion
that there is a layout of the tree (`Laid`): functions that give each node x the
operands a[x] .. b[x] it stands for and the operator s[x] it is split at, so that
the left operand ends and the right one begins there, x holds the s[x]-th operator
of the chain, and no two nodes share an operand; `Each` adds that every operator
has one node.  The comb of the parser is laid out with s[x] = x (`ParsedLaid`), and a
rotation exchanges the splits of two nodes (`RotatedLaid`), whatever they are, so
that the layout survives any number of builds.  That a tree with a layout reads as
the chain is written (`ReadsOut`, `UnderSpells`, `LaidKeepsOrder`) is an induction over the
length of the part a node stands for, done by the least length for which it would
fail (`LeastNumber`), since the provers cannot instantiate the induction theorems;
for the same reason `LevelsExist` shows by hand that `InOrder` is a function.

For the neighbours, `Following` keeps track of how far down the chain the first
build has got: from node z on the layout is still that of the parser (`Untouched`);
z is entered exactly once on the stack, and what else is to be entered has no
operators under it (`Waiting`); and the operators before the z-th are `Settled`
against the one behind them.  `EnterPlain` and `EnterRotates` move z down by one
and by two.  The exception in `NeighboursGrouped` arises in `EnterRotates`: the
right neighbour becomes the root of the rest, below which the build does not look
again.

## 7. The parse stage

### State and actions

`ParseStage` models one call of parseBundle.  `program` is what the create stage
left: which names are defined, which slabs have attached which, and for each
name a sequence of items, the places in its source that refer to other names.
`stack` holds the nested parsers, each with the item it is at.  `parsed` are the
functions marked complete; which members of a type, context or dump are known
follows from where parseBundle is (`KnownMembers`).  `nulls` are the null entries
that a lookup has left in create.types, `hollow` the items whose type is a null
pointer.  `phase` tells how the stage ended, if it did.

| code | definition |
|---|---|
| the loops of parseBundle | `VisitName`, `ReturnBundle` |
| getOrCreateType for a named type | `TypeMissing`, `TypeFound` |
| the capture list of a function, parseContextRef | `Capture`, `Captured` |
| an assignment to a member of a context or dump | `AssignToStore` |
| an assignment to a member of a variable of collection type | `AssignToCollection` |
| parseFunctionRef under a call | `CallUnattached`, the first half of `CallFails` |
| parseFunction on the callee | `ParseCallee` |
| the comparison with the callee's arguments | `CallParsed`, the second half of `CallFails` |
| the ends of the parsers | `FinishDefinition`, `FinishAlias` |

What an error leads to depends on where the exception is caught, and so does the
action for it: an unknown type is reported and leaves a null pointer behind; a
failed assignment or procedure call gives up the rest of its block; a failed
call in a return statement or in a member is reported only; after one in a
declaration the missing expression is used; a call into a slab that is not
attached raises an exception that nobody catches.  A null pointer, an uncaught
exception or a full stack end the compiler, and the model.  `MaxDepth` is the
number of nested parsers that fit on the stack.

The order of the names in `Class` is the one in which parseBundle visits them: by
slab, and in a slab types before contexts before dumps before functions.  A
name stands for one definition, and the slab of a reference is that of the name.

Left out: nested blocks and conditionals (they give up their own block in the
same way); types that contain types, which pass a null pointer on; return
types; arguments of the wrong type, which have the outcome of a wrong number;
members of variables whose type is an alias; a local variable with the name of
a member whose context is missing, which is taken instead of the member, after
the failure; queries and heaped declarations.

### What the runs check

* **parse_stage**: eight names in two slabs - an alias and a function in the first;
  an alias, a collection type, a context, a dump, an external function and a
  function in the second - with two families of programs.  In the one, the
  bodies of the two functions and of the context vary over calls of every kind
  that fit or do not, captures, and assignments to members; in the other, the
  types behind the aliases and of the members vary.  One name may be missing,
  and the second slab may or may not have attached the first.  Two slabs are the
  least with a reference forwards and one backwards in the order of visits; the
  programs have recursion through one, two and three definitions, a callee
  parsed early and in turn, and each way to fail in a definition that
  parseBundle visits and in one that it meets inside another.  `MaxDepth` is 9:
  one more than there are names, so that only recursion can exceed it.

  `SuccessIsSound`: no error is lost on the way to the status.  `CalleesFirst`: a
  function that is complete calls only complete ones, as long as nothing has
  failed.  `CrashHasCause`, `FailureHasCause`: only erroneous programs crash or fail,
  except for recursion and for members used before their time.
  `SoundProgramsParse`: all others are parsed successfully, under weak fairness of
  `Next`: the parser is one thread that waits for nothing.
* **parse_stage_order** is expected to fail; see section 11.

The runs do not check for deadlock, because the stage ends.

### What is proved

`ParseStageProofs`, for any number of names and slabs and any programs: `TypeCorrect`,
`SuccessIsAlwaysSound`, `CalleesAreFirst`, `FailureAlwaysHasCause` and
`CrashAlwaysHasCause`.  The first invariant, `IInv`, adds to the types

* `Callers`: under the parser of an alias, other than the outermost, stands one
  that waits at an item of a type that is found;
* `Done`: while nothing has failed, all items in front of a parser's position,
  and all of a completed function, are resolved; what parseBundle has left
  behind is complete;
* `Ends`: the stage returns only from the last name, with an empty stack.

A type that is missing sets the status at once, so without a failure all items
behind the parser are resolved; at the end these are all items of all names.

The second, `CInv`, is about what went wrong:

* `Nested`: every parser on the stack leads to the one above it, and every one
  above it is reachable from it;
* `Visited`: the outermost parser is that of a name parseBundle has come to;
* `Causes`: a null pointer in a table, a crash and a failure each have their
  cause in the program.

A member that is not known is no member of its definition, or the definition is
not one that parseBundle has left behind; the item stands in the body of the
innermost parser, which by `Nested` is reachable from the visited name, and that
is `UsedEarly`.  If a parser more than there are names would be needed, some
name is on the stack twice (`DeepIsLooping`, by the pigeonhole theorem), and
`Nested` gives the cycle.  `CrashAlwaysHasCause` therefore has the hypothesis
that as many nested parsers fit on the compiler's stack as there are names; it
is needed for the overflow only.  The code has no such bound: a chain of calls
long enough exhausts the stack of any machine without being recursive.
`Reached` is a recursive function; that it is closed (`ReachedIsClosed`) follows by
counting, because each of its steps before the last change adds a name.

`SoundProgramsParse` is liveness and model-checked only.

## 8. Control flow

### State and actions

`FunctionBody` says what the body of a function is: a sequence of tokens, and
after which event of a call which other comes next.  `FunctionCall` is the
abstract specification: the body is written, the function is called, and the
events happen in that order until it returns.

`ControlFlow` is the code.  `body` is what the builder has read so far, `open` the
chain of C++ calls with the basic blocks that each holds in its local variables,
`blocks` the instructions of the function, `insert` the insert point; once the
function is called, `pc`, `stack`, `saved` and `last` are the state of the call.

| code | definition |
|---|---|
| buildTabithaFunction up to the body; its end | `Init`; `FinishFunction` |
| buildBlock: statements, declarations, returns | `BuildSimple`, `BuildDeclaration`, `BuildReturn`, `BuildBareReturn` |
| nested blocks | `OpenBlock`, `CloseBlock` |
| buildConditional | `OpenConditional`, `CloseConditional` |
| buildBranch: its twigs and its otherwise | `OpenBranch`, `OpenTwig`, `CloseTwig`, `OpenOtherwise`, `CloseOtherwise`, `CloseBranch` |
| buildLoop | `OpenLoop`, `CloseLoop` |
| verifyModule, whose answer writeSlab ignores | `WellFormed`, in `CallFunction` |
| the instructions, when they are executed | `Evaluate`, `Allocate`, `SaveStack`, `RestoreStack`, `Branch`, `BranchIf`, `Return` |

The builder emits the conditional jump of a statement only when the statement
ends, into a block that it left open; between the two, other statements add
blocks and move the insert point.  Statements that only emit instructions into
the current block are one kind of token; of an instruction only its place in the
source is kept, with the declaration that it reads.  A function that LLVM's
verifier rejects is not called, because nothing can be said of it.

### What the run checks

* **control_flow**: every body of up to six tokens.  A statement with a body
  takes a token to open and one to close it, so that six tokens hold three
  nested statements, a branch with two twigs and an otherwise, a loop with a
  declaration and a return, or a return with something behind it.
  `BlocksTerminated`: no block that was left open is forgotten.  `VerifiedWhenTidy`: the
  blocks are what the verifier asks for exactly when nothing follows a return
  in its block and no loop ends with one.  `ReadsLiveStorage`, `OneStorePerDeclaration`,
  `StackGivenBack`: what a call does with its stack, in loops and on every way out.
  `ImplementsSource`: a call performs the events of the source in their order (the
  safety part of `FunctionCall`).  `KeepsPerforming`: it never goes on forever
  without performing the next one (the fairness of `FunctionCall`).  Fairness is that
  of `Next`: the builder and the called function are threads that wait for
  nothing; only `KeepsPerforming` needs it.

The run does not check for deadlock: functions return.

### What is proved

For bodies of any length and nesting:

* `BlocksAreTerminated`.  While a function is built there are blocks without a
  terminator; the invariant `BuildInv` says which: `NoneForgotten`, each of them is the
  insert point or is `Awaited` by a statement that is being built, because its end
  will put a jump there.  At the end no statement is left.
* `StackIsGivenBack`.  `RunInv` adds that the stack is empty where the function's own
  stack has just been given back (`EmptyAt`): `CodeOK` says that a return only stands
  behind such a place, and that nothing jumps in between.

* `StorageIsLive` and `OneStoreEach`.  What a call finds on its stack depends on the
  way it came, so that no formula over the state says it for all bodies at once.
  The invariant is instead that there is a choice of `Shapes` that fits (`ShapeInv`):
  a shape says of a place in the code which declarations its stack can hold
  (those before `bound`), which it must hold (`holds`), and for which loops the
  size that was saved divides the older storage from the younger (`marks`).
  `Fits` is the rule for each instruction: a restore needs the mark of its loop and
  drops what is younger, an alloca must be of a declaration behind all others, a
  jump may forget but not add, and an eval needs what it reads.  While the
  function is built, the shape at the insert point knows everything in scope
  (`Enough`), and a statement that is being built has left blocks which know what was
  in scope around it (`FrameFits`): each action of the builder extends the shapes of
  the blocks so far by those of its new ones (the lemmas `...Fits`).  The entry of
  a loop's condition knows nothing that a round could lose, which is why going
  round is sound (`RoundFits`).  The call then only has to be where the shapes say it
  is (`StackInv`, `Holds`): the stack rises, so that no declaration is on it twice.
* `ControlFlowTyped`: `TypeOK`, whose part about the stack rests on the same invariant:
  a restore finds the size that a save of the same loop left.

* `VerifiedExactlyWhenTidy`: `VerifiedWhenTidy`, in both directions.  The property speaks of
  finished functions; `TidyInv` is what it is at every token before that.  No block
  has a terminator inside (`NoInner`) exactly if nothing that was read so far stands
  behind a return where it must not (`Clear`), and the insert point ends in a
  terminator exactly if only braces separate the last token from a return
  (`Behind`).  That is `Even`; between the twigs of a branch the insert point is a
  block that the next twig leaves, so that the two facts only hold together
  (`Ready`).  A statement that ends writes into blocks left long ago: `Unended` says
  that the condition it goes back to is still without a terminator, and `Apart` that
  no block is awaited by two statements, so that what one has put there is not
  what another one finds.  There is one lemma for each action of the builder
  (`...Tidy`).

`ControlFlowSourceProofs`, for bodies of any length and nesting:

* `EventsInSourceOrder`: `ImplementsSource`, the refinement of `FunctionCall`.  The builder
  emits jumps before it knows what stands behind the statement that it builds, so
  that what a block leads to is a fact of the finished body only.  The invariant
  `SourceInv` therefore speaks of every body that the tokens so far can still become
  (`Completes`): for each of them there is a choice of marks that fits (`Followed`,
  `Marks`).  `Both(i)` marks a place in the code from which the next event is that of
  token i, whatever the condition before it gave; `Path` is the rule from mark to mark,
  instruction by instruction: an eval stands where its event is due and is followed by
  the events that its outcomes lead to (`Forks`), a jump goes to a block that begins
  with the mark in front of it.  `Flow` says that every block has such a path,
  `FramesFlow` what the blocks lead to that the open statements have left, `Expected`
  what is due at the insert point.  Each action of the builder prolongs the
  marks by those of its new blocks (`Prolongs`, the lemmas `...Flows`), and removes
  some of the bodies that the tokens can become (the lemmas `...Completes`).  At the
  end one body is left, the one that was read, and the call only has to
  stay at places whose mark names the event that the source performs next (`Calling`,
  `Due`): an eval is then a step of `Perform`, everything else a stutter.  `Reach` is a
  recursive function on the positions behind a token; that it exists is the one
  use of a well-founded definition (`ReachFacts`).

`KeepsPerforming` is liveness under fairness, and model-checked only.

## 9. Memory layout

### State and actions

`HeapLayout` is the memory that the emitted code asks for.  A type is its class and
the types of its parts; `Depth` says how deeply it is nested (no value is part of
itself, or its allocation would not end).  `regions` are the pieces of
memory handed out, each for a variable, a handle, the elements of a vector or the
column of a field, and `memory` maps addresses - a region and a path into it - to
the regions that the pointers stored there lead to; a place for a pointer that is
not in it holds what was there before.  `agenda` are the calls still to be made: the
recursion of the C++ functions over the parts of a type and the loops that they emit
over elements.  `count` is a variable of the program that gives vectors their
size, and `built` says for which vectors the code generator has a value for the size.
`shared` remembers which variables were stored in another, or had another stored in
them; no action depends on it but the bound on the number of variables.

| code | definition |
|---|---|
| buildHeapedDeclaration, allocateHeap* | `DeclareHeaped`, `HeapVector`, `HeapTable`, `HeapCollection` |
| stacked declarations, allocateStack* | `DeclareStacked`, `StackVector`, `StackTable`, `StackCollection`, `StackMember`, `StackSubcollection` |
| buildContext, allocateContextSubvectors | `DeclareContext`, `ContextVector`, `ContextTable`, `ContextCollection` |
| arguments, copyVector, copySubvectors | `PassArgument`, `CopyVector`, `CopyCollection`, `CopyCrash` |
| buildUnheap, dealloc* | `Unheap`, `DeallocPlain`, `DeallocCollection`, `DeallocVector`, `DeallocTable`, `DeallocField`, `DeallocCrash`, `ReadWild`, `FreeRegion` |
| core_alloc, core_dealloc | a new region, `FreeRegion` |
| the initialiser of a declaration (280-287, 292-299) | `DeclareInitialised`, `StoreInitialiser` |
| an assignment of a variable (301-337) | `AssignValue`, `AssignElements`, `AssignWild` |
| an assignment to the variable that gives sizes | `AssignCount` |

What follows a read of a wild pointer is undefined; the behaviour ends with
`status` "wild", as it ends with "crashed" where the compiler follows a null
pointer.  Functions are built in the order of their names, so that whether the
size of a vector has been built before it is copied is open in `CopyVector` and
`CopyCrash`.  So it is for an argument that is itself a vector: a named type is the
same object wherever the name is used, down to the size (`buildType` copies it,
244-247), so that a declaration with the same name may have built its size, while
a type that is written out in the list of arguments has a size of its own that
nothing builds.

The value of a variable is what is stored in it: the pointers of its vectors and
tables, not what they lead to.  A declaration with an initialiser first allocates
whatever its type asks for and then stores the value of the initialiser over it
(`StoreInitialiser`), and so does the assignment of a collection or of a vector of
open size (`AssignValue`).  From then on two variables share arrays, and the arrays
that the one had are lost.  The assignment of a vector of a given size copies its
elements, as many as the type of the target says, with whatever pointers they hold
(`AssignElements`).  Unheaping one of two variables that share an array leaves the
other with pointers to what was given back, and unheaping both gives the array
back twice, which ends the behaviour with "wild".

### What the runs check

* **heap_layout**: up to two variables of fifteen types - each class alone and each
  class within each other class that the functions tell apart, with sizes that
  are literal, open, or the variable - in every place, initialised and assigned from
  each other, with `count` 1 or 2.  Two variables are the least with a stranger whose
  arrays could be hit, and with an argument and its original; two elements and two
  counts are the least for a loop that runs too far or not far enough.  When two
  variables share storage, a third of the type in `Strangers`, a collection with a
  vector, may be declared, which is the least to see whether their sharing touches
  another.
  `FaultHasCause`: unheaping, passing and assigning are safe and building succeeds,
  except in the cases it names.  `OnlyHandlesLeak`: what unheaping leaves behind.
  `EachItsOwnArray`: however nested, each vector of a heaped variable, a context or an
  argument, and each column of a table that the code sees to, has an array of the
  variable's own that nothing else uses.  The last two make an exception
  for the variables in `shared` and only for them: what was never stored in another,
  nor another in it, keeps what they promise while others share and lose their
  arrays.  So does `FaultHasCause` for unheaping; for passing it excuses a variable of a
  type of which one is in `shared`, and an assignment once anything was stored.
* **heap_layout_stacked** is expected to fail; see section 11.

The runs do not check for deadlock: behaviours end with a fault.

### What is proved

For types of every nesting, programs of every length, and any counts, as long as no
variable was stored in another: the theorems have the form `Spec => [](Apart => P)`,
where `Apart` is `shared = {}`.  The steps up to there are those of `Separate`.  Their
invariants say that the storage of a variable is its own, which is what an
initialiser or an assignment ends; what holds of a variable beside others that
share storage is model-checked only.

* `StorageIsTyped`: `TypeOK`.  A call that is pending needs storage to be about, so that
  what is proved is `Typed`: the path of each call leads somewhere, and calls are only
  pending when there is a variable.
* `EveryVariableOwnsItsArrays`: `EachItsOwnArray`.  What it promises it promises
  between statements only, and within a statement it is broken by every call.  The
  invariant `Inv` says what holds in between.  `AllCharged`: all pending calls belong
  to the last variable, or to one that is being unheaped, and work in its storage.
  `StorageKnown`: a pointer leads into storage of the same variable, except in an
  argument, where it may still be the caller's; and the storage of a live variable
  has not been given back.  `PlacesSettled`: every place that the code sees to has an
  array of its own, unless a call on the agenda still covers it (`Cover`, `Pending`).
  Each of the allocating calls is shown to be an `AllocStep`: it appends regions and
  replaces itself by calls that cover, between them, what it covered itself
  without the places `D` at which it stored a pointer to a new array.  That such
  a step preserves the invariant is proved once, and so it is for the steps
  that give back (`ReleaseStep`) and for declarations (`Declares`).
* `VectorPointersLead`: `PointersLead`, a part of the same invariant that no run checks.
  Every pointer stored for a vector leads to an array of its elements that is as long
  as the size expression was when the variable was declared; it is what makes
  unheaping with a changed size a fault of `FaultHasCause` and not of the declaration.

`Places`, the places for pointers within a type, is defined by recursion over the
nesting; that it exists is proved along `Depth` (`PlacesExist`).

Unheaping takes two invariants more, and faults a third and a fourth:

* `Tree` (`TreeHolds`) says that the storage of a variable is a tree: the pending calls
  cover different places (`CoversApart`), every array of a heaped variable hangs from a
  place in an older region of the same variable (`HasParents`), and nothing was stored
  except at places (`StoredInPlaces`).  It is not needed while variables are only
  declared; without it a region might be reached along two pointers and given back
  twice.
* `OnlyTheHandlesAreLeft`: `OnlyHandlesLeak`.  The invariant `Returned` says of the
  variable v that is being unheaped (`Giving`) that, as long as no null pointer was
  read: its pending calls are in an order in which what they read has not been given
  back (`InOrder`), take each pointer once, and work in live regions, whose children no
  call has touched (together `Orderly`); and each region that is still live is about to
  be given back or hangs from a place that will be taken (`Owed`).  `Doomed` is the case
  that a null pointer waits to be given back; nothing more is said then.  A call that
  gives back is shown to hand its places on to calls for the array behind
  them (`Gives`, `HandsOn`, proved once for vectors, fields, collections and tables); when
  the last call is done, nothing is owed (`FreeEnds`).
* `EveryFaultHasItsCause`: `FaultHasCause`.  `Sound`, a part of `Giving`, says that unless
  the type excuses it what the calls take are places of their regions, so that
  nothing outside an array is read (`ReadsWild`, `FreesWild`).  `CopyKnown`: what is still to
  be copied for an argument is the caller's and still there, unless the caller's may be
  stacked (`CopyWild`).  `BuiltKnown`: the sizes of all vectors in a context are
  built, or a call that builds them is pending (`CopyCrashes`).  `HasArray`: a vector of
  a given size that is live has an array of that length between statements, so that
  assigning it reads nothing else (`AssignsWild`).  The six faults of the model then
  have their causes one by one.

## 10. Sessions of the compiler

### State and actions

`Compiler` is a sequence of sessions of `tabic` in one directory.  `source` is what
the files contain, and may be edited between sessions.  A name is a sequence of
words, "_" and "/"; ids, paths and names of object files are made of it by
searching for these.  `text` are the slabs of the bundle with what was read,
`pending` those still to be created, `unwritten` those without an object file of
this session, `objects` the output directory, `linked` the executable.

| code | definition |
|---|---|
| main up to createBundle | `Start` |
| ids and paths: createSlab, getOrCreateSlab | `RootId`, `AttachedId`, `Prefix`, `Path`, `Candidates`, `FileOf` |
| reading one slab and creating what it attaches | `ReadSlab`, `FailCreate` |
| the parse stage, the build stage | `FailParse`, `BuildBundle` |
| writeSlab | `ObjectName`, `Module`, `WriteSlab` |
| the link command and what a linker accepts | `Links`, `Link` |
| a session that is killed; the author | `Kill`, `Edit` |

The stages come with their verdicts only, since `SlabCreation` and `ParseStage` are
about how these arise; slabs are created in any order, which includes that of
the nested calls.  The linker is external: `Links` asks for whole object files,
one entry point, no symbol twice and none missing.

### What the run checks

* **compiler**: six files, two of them roots, in the working directory, a directory
  below it and two library directories, with two or three contents each:
  attachments in cycles, of neighbours and from above, an id that can be reached
  in two ways, and two slabs whose object files have one name.  Any number of
  sessions, of which some are killed at any step, also in the middle of an
  object file.  `ExecutableIsCurrent`: what earlier sessions left behind does not get
  into a slab of this one, unless two ids share an object file.
  `LinkFailureHasCause`: the bundle alone always links.  `AttachedIsNeighbour`: where an
  attached slab is looked for.  `SessionEnds`: under weak fairness of the steps of a
  session, which waits for nothing; starting, killing and editing need not happen.
  Two roots are the least for an object file of another program to be in the
  way; the run checks for deadlock, as another session can always begin.

### What is proved

For any files, names, directories and numbers of sessions: `TypeCorrect`,
`ExecutablesAreCurrent`, `LinkFailuresHaveCauses` and `AttachedAreNeighbours`.  The invariant `Inv`
adds `Closed`, what a slab of the bundle attaches is created or about to be, and
`Writing`, as long as ids do not share object files, those that were written
stay until the link.  `BundleLinks` is the heart of the second and third: the
modules of a closed bundle link.  `AttachedAreNeighbours` rests on lemmas about names: an
id begins with LOCAL or EXTERNAL and "_" (`AllIds`), so that the first "_" of an
id is always its second word, and an id cut at its last separator keeps the two
(`ExtendedName`, `NeighbourName`).  `SessionEnds` is liveness and model-checked only.

## 11. What the code does otherwise than it says

Shown by a run:

* A crunched row gets the id 1: tabi_core.c 128 copies `useField[j]` into the id
  column (run table_crunch_ids).  Two moved rows then share an id.
* `a < b - c` passes the parser's type check and is built as `(a < b) - c` (run
  binary_expression_types), since comparisons rank above arithmetic in the enum.
* A function that uses a member of a type, context or dump in a slab with a later
  id is told that the member does not exist (run parse_stage_order): members are
  parsed slab by slab, together with the functions.
* A vector within a stacked variable gets storage for itself and none for its
  elements, although comments say that this is taken care of (run
  heap_layout_stacked).

Built into the models, and into the conditions of the properties:

* Crunch copies each column with the element size of the column two places to
  the left (build.cpp 1855, `CopyWidth`), so that elements wider than an int are torn.
* An insert into a full table gets row -1, which nobody looks at: the elements
  are stored in front of the columns (`Stray`).
* `a * b * c - d` is built as `a * (b * c - d)`, since each pair is compared once, and
  `a - b - c` as `a - (b - c)`, since the rotation asks for a strictly higher rank;
  and an expression that is not yet ordered is regrouped again when it is built
  again: the size of a vector may have one value where the vector is allocated and
  another where it is unheaped (`NeighboursGrouped` and `BuildsSettle` say what
  remains).
* Recursive functions and aliases of each other overflow the compiler's stack;
  a call into a slab that is not attached, and a declaration whose initialiser
  failed, end it after the error was reported or instead of that (`CrashHasCause`).
* Instructions behind a return, and behind a loop whose body returns, follow a
  terminator, and the answer of the verifier is ignored (`VerifiedWhenTidy`).  The
  expression of a return is evaluated after the stack was given back
  (`ReadsLiveStorage`).  A return without an expression ends the compiler.
* Handles of nested vectors and tables in collections are never given back; a
  size that depends on a variable is evaluated again when the vector is given
  back; a table whose fields hold vectors cannot be unheaped; and a vector argument of
  a given size ends the compiler when its type is written out where it is declared,
  or has a name but no code built its size before (`OnlyHandlesLeak`, `FaultHasCause`).
* The value of an initialiser is stored with its pointers over a variable whose
  arrays were just allocated, and so is that of an assignment to a collection: the
  arrays are lost, two variables share those of the other, and unheaping both gives
  them back twice (`FaultHasCause`, `OnlyHandlesLeak` and `EachItsOwnArray` except such
  variables, and say that no others are touched).
* A "_" in the path of a slab makes what it attaches be looked for elsewhere; two
  slabs may share an object file; object files of other programs in the output
  directory are linked too; and `tabic` ends with status 0 whatever the linker says
  (`AttachedIsNeighbour`, `ExecutableIsCurrent`, `LinkFailureHasCause`).

## 12. Not modelled

* **Preprocessor** (pre.cpp).  One loop over a text, in which the output of an
  arbitrary shell command replaces a block.  Nothing can be assumed about the
  outputs, and nothing in the repository says what should become of a
  delimiter too many or too few, so that a model would have nothing to hold the
  code against.
* **Heap runtime**.  The default one is malloc, free and memcpy.  The assembly
  one, linked with `--raw`, keeps a length in front of each piece of memory and
  copies words; its two numeric slips are listed as hazards.
* **Standard library**.  Functions without state: system calls, and conversions of
  strings of any length, which tests of their limits reach as well as a model.
* **Grammar**.  Data for the external cpp-peglib; the models take parsed items as
  their input.
* **Tables in the heap and in contexts**.  Their use column is never cleared, so that
  every row may be in use with any id before the first insert: none of the
  properties of `Table` holds from such a start.
* **Parts of the parse stage**: local scopes, nested blocks and conditionals, queries,
  heaped declarations, calls within arguments of calls, return types, and types
  that contain types.  They pass a failure on as what contains them does, except
  queries, whose uncaught exception is listed as a hazard.
* **Parts of the memory layout**: what is stored in a member of a collection, in an
  element of a vector (buildVectorSet among it) or behind an address, so that
  variables share storage as wholes or, for vectors of a given size, element by
  element; initialisers and assigned values that are not variables but calls, whose
  result holds pointers of a stack that was given back; assignments of a vector whose
  size is the program variable, for which the code takes the size as it was when it
  was last built; vectors with different elements, which typesMatch takes for
  equal, stored in each other; what happens to a variable that is used after it was
  unheaped; and contents without pointers, which nothing here distinguishes.
* **Parts of the build stage**: element sizes in bytes, the code of literals, member accesses and calls, initial values of
  dumps, and buildLabel and deallocSubvectors, which do nothing or are called by
  nothing.

## 13. Files

* `Table`, `TableAbs`, `TableProps`, `MCTable`, `Table_*.cfg`, `TableProofs`
* `SlabCreation`, `SlabCreationProps`, `MCSlabCreation`, `SlabCreation.cfg`, `SlabCreationProofs`
* `BinaryExpression`, `BinaryExpressionProps`, `BinaryExpression*.cfg`, `BinaryExpressionProofs`
* `ParseStage`, `ParseStageProps`, `MCParseStage`, `ParseStage*.cfg`, `ParseStageProofs`
* `FunctionBody`, `FunctionCall`, `ControlFlow`, `ControlFlowProps`, `ControlFlow.cfg`, `ControlFlowProofs`,
  `ControlFlowSourceProofs`
* `HeapLayout`, `HeapLayoutProps`, `MCHeapLayout`, `HeapLayout*.cfg`, `HeapLayoutInvariant`,
  `HeapLayoutProofs`
* `Compiler`, `CompilerProps`, `MCCompiler`, `Compiler.cfg`, `CompilerProofs`

A definition whose name has a suffix (`RowOf_noLookup`, `Prefix_noDirectory`) is a plausible
slip, kept to show for each property that it notices one; no specification
uses it.
