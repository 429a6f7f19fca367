---------------------------- MODULE MCParseStage ----------------------------
(***************************************************************************)
(* Two slabs with eight names, in the order in which parseBundle visits    *)
(* them, and two families of programs: one in which the functions vary,    *)
(* one in which the types do.                                              *)
(***************************************************************************)
EXTENDS ParseStageProps

A == 1
F == 2
B == 3
R == 4
C == 5
D == 6
X == 7
G == 8
TwoSlabs == <<1, 1, 2, 2, 2, 2, 2, 2>>
EightClasses == <<"alias", "function", "alias", "collection", "context", "dump",
                  "external", "function">>

Refer(kind, d) == [kind |-> kind, of |-> d, index |-> 0, fits |-> TRUE]
Misfit(kind, d) == [kind |-> kind, of |-> d, index |-> 0, fits |-> FALSE]
Member(d, k) == [kind |-> "member", of |-> d, index |-> k, fits |-> TRUE]

\* Everything is defined, or all but one name; the second slab may or may not
\* have attached the first.
Definitions(absent) == {Names} \cup {Names \ {d} : d \in absent}
Attachments == {{<<1, 2>>}, {<<1, 2>>, <<2, 1>>}}

CallsOf(d) == {Refer(kind, d) : kind \in Calls} \cup {Misfit(kind, d) : kind \in Calls}
FItems ==
  CallsOf(G) \cup {Refer("call", F), Refer("capture", C),
                   Member(C, 1), Member(D, 2), Member(R, 1), Refer("argument", A)}
GBodies ==
  {<< >>, <<Refer("argument", B)>>, <<Refer("argument", B), Refer("call", F)>>,
   <<Refer("value", G)>>, <<Refer("capture", C), Member(C, 1)>>,
   <<Refer("type", R), Member(R, 2)>>, <<Member(D, 1), Refer("init", X)>>}
CBodies == {<<Refer("type", R)>>, <<Refer("value", G), Refer("type", B)>>}

FunctionPrograms ==
  [present : Definitions({B, C, G}), attached : Attachments,
   body : {<< <<Refer("type", B)>>, <<f, g>>, <<Refer("type", R)>>,
              <<Refer("type", R), Refer("type", B)>>, c,
              <<Refer("type", A), Refer("value", F)>>,
              <<Refer("argument", R)>>, gs>> :
             f \in FItems, g \in FItems, gs \in GBodies, c \in CBodies}]

TypePrograms ==
  [present : Definitions({A, B, R, X}), attached : Attachments,
   body : {<< <<a>>, <<f, Refer("call", X)>>, <<b>>, r, <<Refer("type", b.of)>>, << >>,
              <<Refer("argument", x)>>, <<Member(R, 1)>> >> :
             a \in {Refer("type", d) : d \in {A, B, R}},
             b \in {Refer("type", d) : d \in {A, R}},
             f \in {Refer("type", A), Refer("type", R), Member(R, 1), Member(C, 1)},
             r \in {<< >>, <<Refer("type", A)>>, <<Refer("type", B), Refer("type", R)>>},
             x \in {A, B, R}}]

SmallPrograms == FunctionPrograms \cup TypePrograms
=============================================================================
