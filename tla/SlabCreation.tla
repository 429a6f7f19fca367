---------------------------- MODULE SlabCreation ----------------------------
(***************************************************************************)
(* The first stage of tabic, src/src/tabic/create.cpp: createBundle,       *)
(* getOrCreateSlab and createSlab.                                         *)
(*                                                                         *)
(* A slab is a source file.  createSlab enters the slab in the bundle,     *)
(* reads and parses its file and walks over the file's top-level items: an *)
(* attachment may call createSlab again for the slab it names, everything  *)
(* else is entered in the slab under its name.  The calls nest, so the     *)
(* state is that of one thread: a stack of calls, the bundle and the       *)
(* status, which is global.                                                *)
(*                                                                         *)
(* Left out: how the names in a file become the id and the path of a slab  *)
(* (an attachment here names the slab itself), and what is inside a        *)
(* definition.  The files do not change while tabic runs.                  *)
(***************************************************************************)
EXTENDS Naturals, Sequences

CONSTANTS
  Slabs,    \* the slabs that can be named
  Root,     \* the slab named on the command line
  NoSlab,   \* a null Slab pointer
  Aliases,  \* the aliases of attachments
  Names,    \* what definitions define: a kind and a name
  Files     \* the files a slab may have

Attach == [kind : {"attach"}, target : Slabs, alias : Aliases]
Define == [kind : {"define"}, name : Names]

ASSUME SlabsAssumption == Root \in Slabs /\ NoSlab \notin Slabs
ASSUME FilesAssumption ==
  Files \subseteq [readable : BOOLEAN, wellFormed : BOOLEAN,
                   items : Seq(Attach \cup Define)]

VARIABLES
  project,      \* project[s]: the file of slab s
  parser,       \* the grammar file could be read
  stack,        \* the calls of createSlab, the innermost last; call.at is
                \* the item it is at, 0 before the file is read
  slabs,        \* bundle.create.slabs
  attachments,  \* attachments[s][alias], NoSlab when there is no such key
  definitions,  \* definitions[s][name]: the item that defines it, or 0
  status,       \* _createStatus
  phase         \* createBundle is "running", has "returned" or "crashed"

vars == <<project, parser, stack, slabs, attachments, definitions, status,
          phase>>

Init ==
  /\ project \in [Slabs -> Files]
  /\ parser \in BOOLEAN
  /\ stack = << [slab |-> Root, at |-> 0] >>
  /\ slabs = {Root}
  /\ attachments = [s \in Slabs |-> [alias \in Aliases |-> NoSlab]]
  /\ definitions = [s \in Slabs |-> [name \in Names |-> 0]]
  /\ status = IF parser THEN "none" ELSE "fail"
  /\ phase = "running"

(***************************************************************************)
(* The definitions whose names end in a slip are, as in Table, plausible   *)
(* errors that no part of the specification uses.                          *)
(***************************************************************************)
Call == stack[Len(stack)]
File == project[Call.slab]
Item == File.items[Call.at]

Running == phase = "running" /\ stack # << >>
AtItem(kind) ==
  Running /\ Call.at \in DOMAIN File.items /\ Item.kind = kind

Return == stack' = SubSeq(stack, 1, Len(stack) - 1)
Advance_back == stack' = [stack EXCEPT ![Len(stack)].at = @ - 1]
Advance == stack' = [stack EXCEPT ![Len(stack)].at = @ + 1]

\* createSlab before its loop.  The walk over the items is given up when the
\* file cannot be read or parsed, but also when any slab failed before.
ReadSlab ==
  /\ Running
  /\ Call.at = 0
  /\ \/ /\ ~File.readable
        /\ status' = "fail"
        /\ Return
        /\ UNCHANGED phase
     \/ /\ File.readable /\ ~parser
        /\ phase' = "crashed"
        /\ UNCHANGED <<status, stack>>
     \/ /\ File.readable /\ parser
        /\ status' = IF File.wellFormed THEN status ELSE "fail"
        /\ IF status' = "fail" THEN Return ELSE Advance
        /\ UNCHANGED phase
  /\ UNCHANGED <<project, parser, slabs, attachments, definitions>>

CreateAttached_late ==
  /\ AtItem("attach")
  /\ Item.target \notin slabs
  /\ stack' = Append(stack, [slab |-> Item.target, at |-> 0])
  /\ UNCHANGED <<project, parser, slabs, attachments, definitions, status, phase>>

CreateAttached_advances ==
  /\ AtItem("attach")
  /\ Item.target \notin slabs
  /\ slabs' = slabs \cup {Item.target}
  /\ stack' = Append([stack EXCEPT ![Len(stack)].at = @ + 1],
                     [slab |-> Item.target, at |-> 0])
  /\ UNCHANGED <<project, parser, attachments, definitions, status, phase>>

\* An attachment of a slab the bundle does not have yet.
CreateAttached ==
  /\ AtItem("attach")
  /\ Item.target \notin slabs
  /\ slabs' = slabs \cup {Item.target}
  /\ stack' = Append(stack, [slab |-> Item.target, at |-> 0])
  /\ UNCHANGED <<project, parser, attachments, definitions, status, phase>>

RecordAttachment_quiet ==
  /\ AtItem("attach")
  /\ Item.target \in slabs
  /\ IF attachments[Call.slab][Item.alias] # NoSlab
     THEN Return /\ UNCHANGED attachments
     ELSE /\ attachments' =
               [attachments EXCEPT ![Call.slab][Item.alias] = Item.target]
          /\ Advance
  /\ UNCHANGED <<project, parser, slabs, definitions, status, phase>>

\* The attached slab is there, just created or from before.
RecordAttachment ==
  /\ AtItem("attach")
  /\ Item.target \in slabs
  /\ IF attachments[Call.slab][Item.alias] # NoSlab
     THEN /\ status' = "fail"
          /\ Return
          /\ UNCHANGED attachments
     ELSE /\ attachments' =
               [attachments EXCEPT ![Call.slab][Item.alias] = Item.target]
          /\ Advance
          /\ UNCHANGED status
  /\ UNCHANGED <<project, parser, slabs, definitions, phase>>

\* A type, context, dump or function: the last of a name is the one kept.
RecordDefinition ==
  /\ AtItem("define")
  /\ definitions' = [definitions EXCEPT ![Call.slab][Item.name] = Call.at]
  /\ Advance
  /\ UNCHANGED <<project, parser, slabs, attachments, status, phase>>

ReturnSlab_oneLate ==
  /\ Running
  /\ Call.at > Len(File.items) + 1
  /\ Return
  /\ UNCHANGED <<project, parser, slabs, attachments, definitions, status,
                 phase>>

ReturnSlab ==
  /\ Running
  /\ Call.at > Len(File.items)
  /\ Return
  /\ UNCHANGED <<project, parser, slabs, attachments, definitions, status,
                 phase>>

ReturnBundle ==
  /\ phase = "running" /\ stack = << >>
  /\ phase' = "returned"
  /\ status' = IF status = "none" THEN "success" ELSE status
  /\ UNCHANGED <<project, parser, stack, slabs, attachments, definitions>>

Next ==
  \/ ReadSlab \/ ReturnSlab \/ ReturnBundle
  \/ CreateAttached \/ RecordAttachment \/ RecordDefinition

Spec == Init /\ [][Next]_vars

\* One thread that only computes and reads files: it does not stop by itself.
FairSpec == Spec /\ WF_vars(Next)
=============================================================================
