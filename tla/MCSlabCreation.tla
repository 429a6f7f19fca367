--------------------------- MODULE MCSlabCreation ---------------------------
(***************************************************************************)
(* Three slabs, and every file of at most two items taken from five: enough *)
(* for cycles of every length, for a slab attached twice, for an alias or a *)
(* name used twice and for a failure before or after another attachment.    *)
(***************************************************************************)
EXTENDS SlabCreationProps

CONSTANTS r, a, b, x, y, f

ThreeSlabs == {r, a, b}

AttachAs(slab, name) == [kind |-> "attach", target |-> slab, alias |-> name]
FiveItems ==
  {AttachAs(r, x), AttachAs(a, x), AttachAs(b, x), AttachAs(b, y),
   [kind |-> "define", name |-> f]}

UpToTwo(items) ==
  {<< >>} \cup {<<i>> : i \in items} \cup {<<i, j>> : i \in items, j \in items}

SmallFiles ==
  {[readable |-> TRUE, wellFormed |-> TRUE, items |-> s] : s \in UpToTwo(FiveItems)}
    \cup {[readable |-> FALSE, wellFormed |-> FALSE, items |-> << >>],
          [readable |-> TRUE, wellFormed |-> FALSE, items |-> << >>]}
=============================================================================
