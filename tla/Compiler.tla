------------------------------ MODULE Compiler ------------------------------
(***************************************************************************)
(* Sessions of tabic in one working directory: the driver main of          *)
(* tabic.cpp runs the stages, createBundle finds the files of the slabs    *)
(* that are attached to the root, writeBundle puts an object file for      *)
(* every slab into the output directory, and the link takes all object     *)
(* files that it finds there.  Between sessions the author edits files and *)
(* may compile another root; a session may be killed.                      *)
(*                                                                         *)
(* Names matter here, because ids are cut and object files are named by    *)
(* searching for '_' and '/': a name is a sequence of words, "_" and "/".  *)
(* Slabs are created in any order; SlabCreation models the nested calls.   *)
(***************************************************************************)
EXTENDS Naturals, Sequences

CONSTANTS
  Words,      \* the words that names are made of
  Sources,    \* the source files: [dir : 0 .. Len(LibPaths), path : Names]
  LibPaths,   \* the number of directories in TABI_LIB
  Roots,      \* the paths that tabic is started with
  Texts       \* the contents that each file may have: sets of attachments

\* The directory 0 is the working directory.
ASSUME SourcesAssumption ==
  /\ {"_", "/", "LOCAL", "EXTERNAL"} \subseteq Words
  /\ LibPaths \in Nat \ {0}
  /\ Roots \subseteq Seq(Words)
  /\ \A f \in Sources : f.dir \in 0 .. LibPaths /\ f.path \in Seq(Words)
  /\ DOMAIN Texts = Sources
  /\ \A f \in Sources : \A t \in Texts[f] : \A a \in t :
       a.external \in BOOLEAN /\ a.path \in Seq(Words)

VARIABLES
  source,     \* what the files contain
  phase,      \* what tabic is doing
  root,       \* the id of the root slab of the session
  text,       \* the slabs of the bundle, with the text that was read
  pending,    \* the slabs created whose file has not been read
  unwritten,  \* the slabs without an object file of this session
  objects,    \* the object files in the output directory
  linked,     \* the modules of the executable, if the last link made one
  exit        \* the exit status of the last session

vars == <<source, phase, root, text, pending, unwritten, objects, linked, exit>>
-----------------------------------------------------------------------------
Positions(word, name) == {i \in DOMAIN name : name[i] = word}
LastOf(word, name) ==
  LET at == Positions(word, name)
  IN IF at = {} THEN 0 ELSE CHOOSE i \in at : \A j \in at : j <= i
FirstOf(word, name) ==
  LET at == Positions(word, name)
  IN IF at = {} THEN 0 ELSE CHOOSE i \in at : \A j \in at : i <= j
Larger(i, j) == IF i < j THEN j ELSE i

\* A mutant: the id of the host is cut at its last '_' only.
Prefix_noDirectory(host) == SubSeq(host, 1, LastOf("_", host))

\* The id of a slab attached by another: that of the host up to its last '_' or '/', and
\* the name in the attachment.
Prefix(host) == SubSeq(host, 1, Larger(LastOf("_", host), LastOf("/", host)))

AttachedId(host, a) ==
  IF a.external THEN <<"EXTERNAL", "_">> \o a.path ELSE Prefix(host) \o a.path

RootId(path) == <<"LOCAL", "_">> \o path

\* The file of a slab: what follows the first '_' of its id, in the working directory or in
\* the first library directory that has it.
Path(id) == SubSeq(id, FirstOf("_", id) + 1, Len(id))

Candidates(id) ==
  {f \in Sources : f.path = Path(id) /\ IF id[1] = "EXTERNAL" THEN f.dir > 0 ELSE f.dir = 0}

FileOf(id) == CHOOSE f \in Candidates(id) : \A g \in Candidates(id) : f.dir <= g.dir

ObjectName(id) == [i \in DOMAIN id |-> IF id[i] = "/" THEN "_" ELSE id[i]]

\* A mutant: every module defines the entry points.
Module_alwaysMain(id) == [id |-> id, text |-> text[id], main |-> TRUE, whole |-> TRUE]

\* A module: the slab and the text that it was built from.  The module of the root slab
\* also defines _tabi_main, _tabi_init and _tabi_destroy.  Its functions are named after
\* the id of the slab, and it refers to those of the attached slabs.
Module(id) == [id |-> id, text |-> text[id], main |-> id = root, whole |-> TRUE]

\* What a session that is killed leaves of an object file.
Fragment == [id |-> <<>>, text |-> {}, main |-> FALSE, whole |-> FALSE]

Put(f, x, y) == [z \in DOMAIN f \cup {x} |-> IF z = x THEN y ELSE f[z]]

\* There is an entry point, no symbol is defined twice, and every function that is referred
\* to is defined.
Links(modules) ==
  /\ \A m \in modules : m.whole
  /\ \E m \in modules : m.main
  /\ \A m, n \in modules : (m.id = n.id \/ (m.main /\ n.main)) => m = n
  /\ \A m \in modules : \A a \in m.text : \E n \in modules : n.id = AttachedId(m.id, a)
-----------------------------------------------------------------------------
Init ==
  /\ source \in {s \in [Sources -> UNION {Texts[f] : f \in Sources}] :
                  \A f \in Sources : s[f] \in Texts[f]}
  /\ phase = "idle"
  /\ root = <<>>
  /\ text = [id \in {} |-> {}]
  /\ pending = {}
  /\ unwritten = {}
  /\ objects = [name \in {} |-> Fragment]
  /\ linked = {}
  /\ exit = 0

Start ==
  /\ phase = "idle"
  /\ \E path \in Roots : root' = RootId(path)
  /\ pending' = {root'}
  /\ phase' = "create"
  /\ text' = [id \in {} |-> {}]
  /\ unwritten' = {}
  /\ linked' = {}
  /\ UNCHANGED <<source, objects, exit>>

\* A slab is in the bundle from the moment its creation begins.
Created == DOMAIN text \cup pending

\* A mutant: the slab is not entered into the bundle.
ReadSlab_unregistered ==
  /\ phase = "create"
  /\ \E id \in pending :
       /\ Candidates(id) # {}
       /\ pending' = (pending \cup {AttachedId(id, a) : a \in source[FileOf(id)]}) \ {id}
  /\ UNCHANGED <<source, phase, root, text, unwritten, objects, linked, exit>>

\* A mutant: the slabs of the bundle are created again when they are attached again.
ReadSlab_again ==
  /\ phase = "create"
  /\ \E id \in pending :
       /\ Candidates(id) # {}
       /\ LET t == source[FileOf(id)]
          IN /\ text' = Put(text, id, t)
             /\ pending' = (pending \ {id}) \cup {AttachedId(id, a) : a \in t}
  /\ UNCHANGED <<source, phase, root, unwritten, objects, linked, exit>>

\* createSlab: the file is read, and the slabs attached to it are created unless the bundle
\* has them.
ReadSlab ==
  /\ phase = "create"
  /\ \E id \in pending :
       /\ Candidates(id) # {}
       /\ LET t == source[FileOf(id)]
          IN /\ text' = Put(text, id, t)
             /\ pending' = (pending \cup ({AttachedId(id, a) : a \in t} \ Created)) \ {id}
  /\ UNCHANGED <<source, phase, root, unwritten, objects, linked, exit>>

Leave(status) ==
  /\ phase' = "idle"
  /\ exit' = status
  /\ UNCHANGED <<source, root, text, unwritten, objects>>

\* A file that cannot be read fails the create stage.
FailCreate ==
  /\ phase = "create"
  /\ \E id \in pending : Candidates(id) = {}
  /\ Leave(1)
  /\ UNCHANGED <<pending, linked>>

\* What the parse stage answers is modelled in ParseStage.
FailParse ==
  /\ phase = "create" /\ pending = {}
  /\ Leave(2)
  /\ UNCHANGED <<pending, linked>>

BuildBundle ==
  /\ phase = "create" /\ pending = {}
  /\ phase' = "write"
  /\ unwritten' = DOMAIN text
  /\ UNCHANGED <<source, root, text, pending, objects, linked, exit>>

\* A mutant: an object file that is there is kept.
WriteSlab_once ==
  /\ phase = "write"
  /\ \E id \in unwritten :
       /\ objects' = IF ObjectName(id) \in DOMAIN objects THEN objects
                     ELSE Put(objects, ObjectName(id), Module(id))
       /\ unwritten' = unwritten \ {id}
  /\ UNCHANGED <<source, phase, root, text, pending, linked, exit>>

\* The object file replaces the one that has its name.
WriteSlab ==
  /\ phase = "write"
  /\ \E id \in unwritten :
       /\ objects' = Put(objects, ObjectName(id), Module(id))
       /\ unwritten' = unwritten \ {id}
  /\ UNCHANGED <<source, phase, root, text, pending, linked, exit>>

\* The link takes every object file of the output directory.  tabic does not look at its
\* result.
Link ==
  /\ phase = "write" /\ unwritten = {}
  /\ LET modules == {objects[name] : name \in DOMAIN objects}
     IN linked' = IF Links(modules) THEN modules ELSE {}
  /\ Leave(0)
  /\ UNCHANGED pending

\* The session ends without an exit status of tabic; an object file that was being written
\* is not complete.
Kill ==
  /\ phase # "idle"
  /\ phase' = "idle"
  /\ exit' = 9
  /\ \/ objects' = objects
     \/ \E id \in unwritten : objects' = Put(objects, ObjectName(id), Fragment)
  /\ UNCHANGED <<source, root, text, pending, unwritten, linked>>

Edit ==
  /\ phase = "idle"
  /\ \E f \in Sources : \E t \in Texts[f] : source' = [source EXCEPT ![f] = t]
  /\ UNCHANGED <<phase, root, text, pending, unwritten, objects, linked, exit>>

Session ==
  ReadSlab \/ FailCreate \/ FailParse \/ BuildBundle \/ WriteSlab \/ Link

Next == Start \/ Session \/ Kill \/ Edit

\* tabic goes on while it runs; nobody has to start, kill or edit anything.
Spec == Init /\ [][Next]_vars /\ WF_vars(Session)
=============================================================================
