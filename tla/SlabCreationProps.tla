------------------------- MODULE SlabCreationProps -------------------------
(***************************************************************************)
(* What the create stage guarantees to the stages after it, for every      *)
(* project: attachments may form cycles, name a slab twice or name a file  *)
(* that is missing or malformed.                                           *)
(***************************************************************************)
EXTENDS SlabCreation

Calls == [slab : Slabs, at : Nat]

TypeOK ==
  /\ project \in [Slabs -> Files]
  /\ parser \in BOOLEAN
  /\ stack \in Seq(Calls)
  /\ slabs \in SUBSET Slabs
  /\ attachments \in [Slabs -> [Aliases -> Slabs \cup {NoSlab}]]
  /\ definitions \in [Slabs -> [Names -> Nat]]
  /\ status \in {"none", "success", "fail"}
  /\ phase \in {"running", "returned", "crashed"}

\* Slabs that attach each other are created once each: no slab is being
\* created by two calls at the same time (createSlab enters the slab in the
\* bundle before it looks at its attachments).
CreatedOnce ==
  \A i, j \in DOMAIN stack : stack[i].slab = stack[j].slab => i = j

(***************************************************************************)
(* What the files say, read without regard to any order.                   *)
(***************************************************************************)
AttachItems(s) ==
  {i \in DOMAIN project[s].items : project[s].items[i].kind = "attach"}
AttachedBy(s) == {project[s].items[i].target : i \in AttachItems(s)}

Closed(S) == \A s \in S : AttachedBy(s) \subseteq S
Reachable == {s \in Slabs : \A S \in SUBSET Slabs :
                              Root \in S /\ Closed(S) => s \in S}

DistinctAliases(s) ==
  \A i, j \in AttachItems(s) :
    project[s].items[i].alias = project[s].items[j].alias => i = j

Sound(s) ==
  project[s].readable /\ project[s].wellFormed /\ DistinctAliases(s)

\* The key alias of attachments[s] is what the file says it is.
AttachmentsKept(s) ==
  \A alias \in Aliases :
    LET here == {i \in AttachItems(s) : project[s].items[i].alias = alias}
    IN  IF here = {}
        THEN attachments[s][alias] = NoSlab
        ELSE \E i \in here : attachments[s][alias] = project[s].items[i].target

\* A name is bound to its last definition in the file.
DefinitionsKept(s) ==
  \A name \in Names :
    LET here == {i \in DOMAIN project[s].items :
                   /\ project[s].items[i].kind = "define"
                   /\ project[s].items[i].name = name}
    IN  IF here = {}
        THEN definitions[s][name] = 0
        ELSE /\ definitions[s][name] \in here
             /\ \A i \in here : i <= definitions[s][name]

(***************************************************************************)
(* The properties.                                                         *)
(***************************************************************************)
\* createBundle returns success exactly when every slab that is reachable
\* from the root over attachments, whatever the order they are met in, has a
\* file that can be read and parsed and uses no alias twice.
VerdictIsRight ==
  phase = "returned" =>
    (status = "success" <=> parser /\ \A s \in Reachable : Sound(s))

\* After success the bundle holds the reachable slabs and no others, and each
\* of them all its attachments and definitions: no call was cut short, and
\* what a nested call did to the bundle left its caller's work intact.
SuccessIsComplete ==
  phase = "returned" /\ status = "success" =>
    /\ slabs = Reachable
    /\ \A s \in slabs : AttachmentsKept(s) /\ DefinitionsKept(s)

\* Nothing but a missing grammar keeps createBundle from returning: attaching
\* in circles does not.
ReturnsOrNoParser == <>(phase = "returned" \/ (phase = "crashed" /\ ~parser))
=============================================================================
