------------------------------ MODULE TableAbs ------------------------------
(***************************************************************************)
(* What a table promises the program that uses it, with no rows in sight:  *)
(* a finite map from ids to the elements stored under them.                *)
(*                                                                         *)
(*   - insert binds the least natural number that is not an id yet, and    *)
(*     may store that number in the program's variable;                    *)
(*   - naming an id that is not bound binds it;                            *)
(*   - delete unbinds it;                                                  *)
(*   - storing under an id changes that element of that id only;           *)
(*   - at most Capacity ids are bound.  A program is on its own once it    *)
(*     asks for one more, or inserts while an id outside 0 .. Capacity-1   *)
(*     is bound: the promise is broken.                                    *)
(***************************************************************************)
EXTENDS Integers, FiniteSetsExt

CONSTANTS
  Capacity,  \* how many ids can be bound
  Fields,    \* the elements stored under an id
  Contents,  \* what an element may be
  Named      \* the ids the program can come by

VARIABLES rows, idVar, broken

absVars == <<rows, idVar, broken>>

Bound == DOMAIN rows
Room == Cardinality(Bound) < Capacity
LeastUnused == Min((0 .. Capacity) \ Bound)

\* The map with id bound.  A newly bound id has whatever contents memory held.
Binding(id) ==
  IF id \in Bound
  THEN {rows}
  ELSE {[i \in Bound \cup {id} |-> IF i = id THEN content ELSE rows[i]] :
          content \in [Fields -> Contents]}

AbsInit ==
  /\ rows = [id \in {} |-> {}]
  /\ idVar = 0
  /\ broken = FALSE

AbsInsert(named) ==
  /\ Room
  /\ rows' \in Binding(LeastUnused)
  /\ idVar' = IF named THEN LeastUnused ELSE idVar
  /\ UNCHANGED broken

AbsTouch(id) ==
  /\ id \in Bound \/ Room
  /\ rows' \in Binding(id)
  /\ UNCHANGED <<idVar, broken>>

\* Store v under target once the id named along with it is bound.
AbsStore(target, named, k, v) ==
  /\ named \in Bound \/ Room
  /\ target \in Bound \cup {named}
  /\ \E bound \in Binding(named) : rows' = [bound EXCEPT ![target] = [@ EXCEPT ![k] = v]]
  /\ UNCHANGED <<idVar, broken>>

AbsDelete(id) ==
  /\ rows' = [i \in Bound \ {id} |-> rows[i]]
  /\ UNCHANGED <<idVar, broken>>

AbsBreak ==
  /\ ~Room \/ \E id \in Bound : id \notin 0 .. Capacity - 1
  /\ broken' = TRUE
  /\ UNCHANGED <<rows, idVar>>

AbsNext ==
  /\ ~broken
  /\ \/ AbsBreak
     \/ \E named \in BOOLEAN : AbsInsert(named)
     \/ \E id \in Named : AbsTouch(id) \/ AbsDelete(id)
     \/ \E target \in Named, id \in Named, k \in Fields, v \in Contents :
          AbsStore(target, id, k, v)

AbsSpec == AbsInit /\ [][AbsNext]_absVars
=============================================================================
