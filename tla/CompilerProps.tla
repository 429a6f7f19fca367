--------------------------- MODULE CompilerProps ----------------------------
(***************************************************************************)
(* What sessions of the compiler in one directory have to satisfy.         *)
(***************************************************************************)
EXTENDS Compiler

Ids == DOMAIN text

\* The parts of the model hold what they are meant to hold: the root is in the bundle while
\* its session runs, and what is to be written belongs to the bundle (tabic.cpp 169-174).
TypeOK ==
  /\ \A f \in Sources : source[f] \in Texts[f]
  /\ phase \in {"idle", "create", "write"}
  /\ \A id \in Ids : \E f \in Sources : text[id] \in Texts[f]
  /\ phase # "idle" => root \in Created
  /\ unwritten \subseteq Ids
  /\ \A name \in DOMAIN objects : objects[name].main \in BOOLEAN
  /\ linked \subseteq {objects[name] : name \in DOMAIN objects}
  /\ exit \in {0, 1, 2, 9}

\* The last session ran to its end, with or without an executable.
Finished == phase = "idle" /\ exit = 0 /\ Ids # {}

Collide == \E i, j \in Ids : i # j /\ ObjectName(i) = ObjectName(j)

Modules == {objects[name] : name \in DOMAIN objects}

\* A session that ran to its end has put every slab, as it was read in this session, into the
\* output directory and into the executable, whatever earlier sessions, killed ones too, left
\* behind: unless two ids get one object file, so that one slab is lost (write.cpp 67-76 and
\* 112, tabic.cpp 174-186).
ExecutableIsCurrent ==
  (Finished /\ ~Collide) =>
    \A id \in Ids : Module(id) \in Modules /\ (linked # {} => Module(id) \in linked)

\* A link that makes no executable, which the exit status of tabic does not tell, is not the
\* fault of the bundle: the object files in the output directory are not just its modules
\* (tabic.cpp 176-206, build.cpp 1211-1213, create.cpp 143-149).
LinkFailureHasCause ==
  (Finished /\ linked = {}) => Modules # {Module(id) : id \in Ids}

HasUnderscore(id) == \E i \in DOMAIN id : i > 2 /\ id[i] = "_"

Directory(id) == SubSeq(Path(id), 1, LastOf("/", Path(id)))

\* A slab attached by a local slab is looked for in the directory of that slab, however the
\* two were reached; but not if the path of the host has a '_' (create.cpp 116-141).
AttachedIsNeighbour ==
  \A id \in Ids : \A a \in text[id] :
    (~a.external /\ id[1] = "LOCAL" /\ ~HasUnderscore(id)) =>
      LET attached == AttachedId(id, a)
      IN attached[1] = "LOCAL" /\ Path(attached) = Directory(id) \o a.path

\* A session ends, also when slabs attach one another (create.cpp 143-156, tabic.cpp 169-207).
SessionEnds == phase # "idle" ~> phase = "idle"
=============================================================================
