------------------------------- MODULE MCTable -------------------------------
(***************************************************************************)
(* Small tables for TLC.                                                   *)
(***************************************************************************)
EXTENDS TableProps

OneIntColumn == [k \in {0} |-> 1]
TwoIntColumns == [k \in {0, 1} |-> 1]
OneWideColumn == [k \in {0} |-> 2]

InRange == 0 .. 2
OneOutOfRange == {0, 3}
LowIds == {0, 1}
AllButCrunch == {"insert", "read", "write", "delete", "measure"}
InsertReadDeleteCrunch == {"insert", "read", "delete", "crunch"}
AllStatements == AllButCrunch \cup {"crunch"}

GarbageIds == {1}
=============================================================================
