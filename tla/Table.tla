------------------------------- MODULE Table -------------------------------
(***************************************************************************)
(* One Tabitha table: the runtime functions core_table_* of                *)
(* src/src/tabi_core/tabi_core.c together with the code that tabic builds  *)
(* around each of them (buildTableInsert, buildTableDelete,                *)
(* buildTableMeasure, buildTableCrunch and the row references of           *)
(* buildValueRef in src/src/tabic/build.cpp).                              *)
(*                                                                         *)
(* A table is a struct of column pointers.  Its first two columns are the  *)
(* implicit int columns "id" and "use", the others are the program's.  The *)
(* memory of a program column is a run of cells, FieldWidth[k] of them to  *)
(* an element, so that a copy with a wrong element size is visible.        *)
(*                                                                         *)
(* The actor is the compiled program: one thread that issues the table     *)
(* statements in any order.  The statement insert is not one step: the     *)
(* generated code claims a row and then, column by column, evaluates the   *)
(* element expression and stores it.                                       *)
(*                                                                         *)
(* An access outside the table (row -1, or a count index that is no row)   *)
(* sets stray.  What memory holds afterwards is undefined in C, and the    *)
(* behaviours modelled end there.                                          *)
(***************************************************************************)
EXTENDS Integers, FiniteSetsExt

CONSTANTS
  NumRows,     \* the row count of the table type
  NumColumns,  \* how many program columns it has
  FieldWidth,  \* FieldWidth[k]: cells in an element of program column k
  IntWidth,    \* cells in an int
  CellValues,  \* what a program stores in a cell
  Garbage,     \* the content of a cell nobody has stored to
  GarbageInts, \* ints found in uninitialised memory
  Ids,         \* the ids the program names in row references and deletes
  Statements   \* the kinds of table statement the program contains

Rows == 0 .. NumRows - 1
Columns == 0 .. NumColumns - 1
CellsOf(k) == 0 .. NumRows * FieldWidth[k] - 1
Element(k) == [0 .. FieldWidth[k] - 1 -> CellValues]

ASSUME NumRowsAssumption == NumRows \in Nat \ {0}
ASSUME NumColumnsAssumption == NumColumns \in Nat \ {0}
ASSUME WidthAssumption ==
  /\ FieldWidth \in [Columns -> Nat \ {0}]
  /\ IntWidth \in Nat \ {0}
ASSUME IdsAssumption == Ids \subseteq Int /\ GarbageInts \subseteq Int

VARIABLES
  idField,   \* column "id"
  useField,  \* column "use"
  cells,     \* cells[k]: the memory of program column k
  filling,   \* the insert under way: its row and next column, or Idle
  idVar,     \* the int variable after ">" of insert and crunch statements
  numVar,    \* the int variable after ">" of measure statements
  stray      \* memory outside the table was accessed

vars == <<idField, useField, cells, filling, idVar, numVar, stray>>

Idle == [row |-> -1, column |-> 0]

(***************************************************************************)
(* What the loops of the runtime functions find.                           *)
(*                                                                         *)
(* A definition whose name ends in a slip (_noLookup, _fromOne, ...) is    *)
(* the one after it with a plausible coding error.  None is used by the    *)
(* specification: each is put in the place of its original to see that     *)
(* the properties notice.                                                  *)
(***************************************************************************)
FreeRows == {r \in Rows : useField[r] = 0}
UsedRows == {r \in Rows : useField[r] = 1}
NumUsed == Cardinality(UsedRows)
RowsWithId(id) == {r \in UsedRows : idField[r] = id}

\* core_table_insertRow counts the used rows of each id below NumRows; an id
\* of any other value indexes outside its count array.
ZeroCounts_fromOne == {i \in 1 .. NumRows : RowsWithId(i) = {}}
ZeroCounts == {i \in Rows : RowsWithId(i) = {}}
CountStrays == \E r \in UsedRows : idField[r] \notin Rows

RowOf_noLookup(id) == IF FreeRows # {} THEN Min(FreeRows) ELSE -1

\* The row core_table_getRowByID returns: the first used row with the id,
\* else the first free row, else -1.
RowOf(id) ==
  CASE RowsWithId(id) # {}                      -> Min(RowsWithId(id))
    [] RowsWithId(id) = {} /\ FreeRows # {}     -> Min(FreeRows)
    [] OTHER                                    -> -1

Claim_swapped(row, id) ==
  /\ idField' = [idField EXCEPT ![row] = 1]
  /\ useField' = [useField EXCEPT ![row] = id]

Claim(row, id) ==
  /\ idField' = [idField EXCEPT ![row] = id]
  /\ useField' = [useField EXCEPT ![row] = 1]

\* The cells of row number row, when elements are width cells wide.
Span(width, row) == width * row .. width * row + width - 1

StoreAt(memory, k, row, v) ==
  [memory EXCEPT ![k] = [c \in CellsOf(k) |->
     IF c \in Span(FieldWidth[k], row)
     THEN v[c - FieldWidth[k] * row]
     ELSE memory[k][c]]]

ElementAt(k, row) ==
  [b \in 0 .. FieldWidth[k] - 1 |-> cells[k][FieldWidth[k] * row + b]]

Stray ==
  /\ stray' = TRUE
  /\ UNCHANGED <<idField, useField, cells, filling, idVar, numVar>>

(***************************************************************************)
(* A stacked table: core_table_init clears the use column and nothing      *)
(* else; the id column and the elements are whatever the stack held.       *)
(***************************************************************************)
Init ==
  /\ idField \in [Rows -> GarbageInts]
  /\ useField = [r \in Rows |-> 0]
  /\ cells = [k \in Columns |-> [c \in CellsOf(k) |-> Garbage]]
  /\ filling = Idle
  /\ idVar = 0
  /\ numVar = 0
  /\ stray = FALSE

Ready == ~stray /\ filling = Idle

\* insert (...) into t > id: the call of core_table_insertRow.  When no row is
\* free it returns -1 and leaves the id alone; the elements then go to row -1.
InsertRow(named) ==
  /\ Ready
  /\ \/ /\ CountStrays \/ FreeRows = {}
        /\ Stray
     \/ /\ ~CountStrays /\ FreeRows # {}
        /\ LET row == Min(FreeRows)
               id0 == Min(ZeroCounts)
           IN  /\ Claim(row, id0)
               /\ idVar' = IF named THEN id0 ELSE idVar
               /\ filling' = [row |-> row, column |-> 0]
        /\ UNCHANGED <<cells, numVar, stray>>

NextColumn ==
  IF filling.column + 1 = NumColumns
  THEN Idle
  ELSE [filling EXCEPT !.column = @ + 1]

\* The next element of the insert is a value the table does not provide.
StoreElement(v) ==
  /\ ~stray /\ filling # Idle
  /\ v \in Element(filling.column)
  /\ cells' = StoreAt(cells, filling.column, filling.row, v)
  /\ filling' = NextColumn
  /\ UNCHANGED <<idField, useField, idVar, numVar, stray>>

\* The next element of the insert is a row reference into the same table, so
\* evaluating it may claim a further row.
StoreFromRow(id, k) ==
  /\ ~stray /\ filling # Idle
  /\ FieldWidth[k] = FieldWidth[filling.column]
  /\ \/ /\ RowOf(id) = -1
        /\ Stray
     \/ /\ RowOf(id) # -1
        /\ Claim(RowOf(id), id)
        /\ cells' = StoreAt(cells, filling.column, filling.row,
                            ElementAt(k, RowOf(id)))
        /\ filling' = NextColumn
        /\ UNCHANGED <<idVar, numVar, stray>>

\* t.field<id> as a value: a lookup that inserts when the id is missing.
ReadRow(id) ==
  /\ Ready
  /\ \/ /\ RowOf(id) = -1
        /\ Stray
     \/ /\ RowOf(id) # -1
        /\ Claim(RowOf(id), id)
        /\ UNCHANGED <<cells, filling, idVar, numVar, stray>>

\* t.field<id> = v
WriteRow(id, k, v) ==
  /\ Ready
  /\ \/ /\ RowOf(id) = -1
        /\ Stray
     \/ /\ RowOf(id) # -1
        /\ Claim(RowOf(id), id)
        /\ cells' = StoreAt(cells, k, RowOf(id), v)
        /\ UNCHANGED <<filling, idVar, numVar, stray>>

DeleteRow_asRow(id) ==
  /\ Ready
  /\ useField' = [r \in Rows |-> IF r = id THEN 0 ELSE useField[r]]
  /\ UNCHANGED <<idField, cells, filling, idVar, numVar, stray>>

\* delete row id from t: every row with the id, in use or not, is released.
DeleteRow(id) ==
  /\ Ready
  /\ useField' = [r \in Rows |-> IF idField[r] = id THEN 0 ELSE useField[r]]
  /\ UNCHANGED <<idField, cells, filling, idVar, numVar, stray>>

\* measure t > n
Measure ==
  /\ Ready
  /\ numVar' = NumUsed
  /\ UNCHANGED <<idField, useField, cells, filling, idVar, stray>>

(***************************************************************************)
(* crunch t > id.  With n rows in use, the free ones of the first n rows   *)
(* are filled in order with the used ones of the others in order.  A full  *)
(* table is left alone, and so is then the variable.                       *)
(***************************************************************************)
Holes_oneShort == {r \in FreeRows : r < NumUsed - 1}
Holes == {r \in FreeRows : r < NumUsed}
Tail == {r \in UsedRows : r >= NumUsed}

\* For each hole the row its inner loop finds: there is one such assignment.
Sources ==
  {src \in [Holes -> Tail] : \A g, h \in Holes : g < h => src[g] < src[h]}

\* The element sizes buildTableCrunch passes: it looks up program column k at
\* index k of all the columns, so that the two implicit ones come first.
CopyWidth(k) == IF k < 2 THEN IntWidth ELSE FieldWidth[k - 2]

CopyStrays(src) ==
  \E hole \in Holes, k \in Columns :
    CopyWidth(k) * (src[hole] + 1) > NumRows * FieldWidth[k]

MoveRows_noCells(src) ==
  /\ idField' = [r \in Rows |->
       IF r \in Holes THEN useField[src[r]] ELSE idField[r]]
  /\ useField' = [r \in Rows |->
       IF r \in Holes THEN useField[src[r]]
       ELSE IF \E hole \in Holes : src[hole] = r THEN 0 ELSE useField[r]]
  /\ UNCHANGED cells

\* The used row src[r] goes to the hole r; "idField[i] = useField[j]".
MoveRows(src) ==
  /\ idField' = [r \in Rows |->
       IF r \in Holes THEN useField[src[r]] ELSE idField[r]]
  /\ useField' = [r \in Rows |->
       IF r \in Holes THEN useField[src[r]]
       ELSE IF \E hole \in Holes : src[hole] = r THEN 0 ELSE useField[r]]
  /\ cells' = [k \in Columns |-> [c \in CellsOf(k) |->
       LET w == CopyWidth(k)
           into == {hole \in Holes : c \in Span(w, hole)}
           hole == CHOOSE h \in into : TRUE
       IN  IF into = {}
           THEN cells[k][c]
           ELSE cells[k][c + w * (src[hole] - hole)]]]

Crunch(named) ==
  /\ Ready
  /\ \/ /\ NumUsed >= NumRows
        /\ UNCHANGED vars
     \/ \E src \in Sources :
        /\ NumUsed < NumRows
        /\ CopyStrays(src)
        /\ Stray
     \/ \E src \in Sources :
        /\ NumUsed < NumRows
        /\ ~CopyStrays(src)
        /\ MoveRows(src)
        /\ idVar' = IF named THEN idField'[0] ELSE idVar
        /\ UNCHANGED <<filling, numVar, stray>>

Next ==
  \/ /\ "insert" \in Statements
     /\ \/ \E named \in BOOLEAN : InsertRow(named)
        \/ filling # Idle /\ \E v \in Element(filling.column) : StoreElement(v)
        \/ \E id \in Ids, k \in Columns : StoreFromRow(id, k)
  \/ "read" \in Statements /\ \E id \in Ids : ReadRow(id)
  \/ /\ "write" \in Statements
     /\ \E id \in Ids, k \in Columns : \E v \in Element(k) : WriteRow(id, k, v)
  \/ "delete" \in Statements /\ \E id \in Ids : DeleteRow(id)
  \/ "measure" \in Statements /\ Measure
  \/ "crunch" \in Statements /\ \E named \in BOOLEAN : Crunch(named)

Spec == Init /\ [][Next]_vars
=============================================================================
