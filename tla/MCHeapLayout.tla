---------------------------- MODULE MCHeapLayout ----------------------------
(***************************************************************************)
(* Types of every class, nested in every way the allocating functions tell *)
(* apart.                                                                  *)
(***************************************************************************)
EXTENDS HeapLayoutProps, FiniteSetsExt

Plain == [class |-> "primitive", parts |-> <<>>, sized |-> FALSE, size |-> 0]
Vector(t, n) == [class |-> "vector", parts |-> <<t>>, sized |-> TRUE, size |-> n]
OpenVector(t) == [class |-> "vector", parts |-> <<t>>, sized |-> FALSE, size |-> 0]
Collection(parts) == [class |-> "collection", parts |-> parts, sized |-> FALSE, size |-> 0]
Table(parts) == [class |-> "table", parts |-> parts, sized |-> TRUE, size |-> 2]

MCDef ==
  [Int |-> Plain,
   Row |-> Vector("Int", 2),
   Open |-> OpenVector("Int"),
   OpenRows |-> OpenVector("Row"),
   Matrix |-> Vector("Row", 2),
   Fuzzy |-> Vector("Open", 2),
   Pair |-> Collection(<<"Int", "Row">>),
   Pairs |-> Vector("Pair", 2),
   Names |-> Table(<<"Int", "Int">>),
   Rows |-> Table(<<"Row">>),
   Grids |-> Table(<<"OpenRows">>),
   Tables |-> Vector("Names", 2),
   Store |-> Collection(<<"Names", "Pair", "Matrix">>),
   Many |-> Vector("Int", 0),
   ManyRows |-> Vector("Row", 0)]

MCTypes == DOMAIN MCDef
MCDepth[t \in MCTypes] ==
  Max({0} \cup {MCDepth[MCDef[t].parts[i]] + 1 : i \in DOMAIN MCDef[t].parts})
MCLiteral == MCTypes \ {"Many", "ManyRows"}
=============================================================================
