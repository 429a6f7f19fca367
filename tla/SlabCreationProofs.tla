------------------------- MODULE SlabCreationProofs -------------------------
(***************************************************************************)
(* The verdict of the create stage, for any slabs, any files and any shape *)
(* of attachments.                                                         *)
(*                                                                         *)
(* VerdictIsRight and SuccessIsComplete speak of the end of the stage, so  *)
(* what makes them inductive is how far each call has come: a call at item *)
(* n has recorded the items before n and nothing else (Progress); a slab   *)
(* that is entered and has no call any more was finished, unless something *)
(* failed (Finished); a failure has its cause among the entered slabs      *)
(* (Cause); and no slab is entered that is not reachable (OnlyReachable).  *)
(***************************************************************************)
EXTENDS SlabCreationProps, SequenceTheorems, TLAPS

Progress(s, n) ==
  /\ \A i, j \in AttachItems(s) :
       /\ i < n /\ j < n
       /\ project[s].items[i].alias = project[s].items[j].alias
       => i = j
  /\ \A i \in AttachItems(s) :
       i < n => /\ project[s].items[i].target \in slabs
                /\ attachments[s][project[s].items[i].alias]
                     = project[s].items[i].target
  /\ \A alias \in Aliases :
       attachments[s][alias] # NoSlab =>
         \E i \in AttachItems(s) : i < n /\ project[s].items[i].alias = alias
  /\ \A name \in Names :
       definitions[s][name] # 0 =>
         /\ definitions[s][name] \in DOMAIN project[s].items
         /\ definitions[s][name] < n
         /\ project[s].items[definitions[s][name]].kind = "define"
         /\ project[s].items[definitions[s][name]].name = name
  /\ \A i \in DOMAIN project[s].items :
       i < n /\ project[s].items[i].kind = "define" =>
         i <= definitions[s][project[s].items[i].name]

Parsed(s) == parser /\ project[s].readable /\ project[s].wellFormed

CallsProgress ==
  \A i \in DOMAIN stack, s \in Slabs, n \in Nat :
    stack[i].slab = s /\ stack[i].at = n =>
      /\ s \in slabs
      /\ n > 0 => Parsed(s)
      /\ n <= Len(project[s].items) + 1
      /\ Progress(s, n)

Complete(s) ==
  /\ Parsed(s)
  /\ \A n \in Nat : n > Len(project[s].items) => Progress(s, n)

Finished ==
  status # "fail" =>
    \A s \in slabs : Complete(s) \/ \E i \in DOMAIN stack : stack[i].slab = s

Untouched ==
  \A s \in Slabs \ slabs :
    /\ \A alias \in Aliases : attachments[s][alias] = NoSlab
    /\ \A name \in Names : definitions[s][name] = 0

OnlyReachable ==
  /\ Root \in slabs
  /\ \A S \in SUBSET Slabs : Root \in S /\ Closed(S) => slabs \subseteq S

Cause == status = "fail" => ~parser \/ \E s \in slabs : ~Sound(s)

Stages ==
  /\ ~parser => status = "fail"
  /\ phase # "returned" => status # "success"
  /\ phase = "returned" => stack = << >> /\ status # "none"

IInv ==
  /\ TypeOK
  /\ CreatedOnce
  /\ CallsProgress
  /\ Finished
  /\ Untouched
  /\ OnlyReachable
  /\ Cause
  /\ Stages

-----------------------------------------------------------------------------
(***************************************************************************)
(* Files and calls.                                                        *)
(***************************************************************************)
\* The items of a file are attachments and definitions.
LEMMA FileIsTyped ==
  ASSUME TypeOK, NEW s \in Slabs
  PROVE  /\ project[s].readable \in BOOLEAN
         /\ project[s].wellFormed \in BOOLEAN
         /\ project[s].items \in Seq(Attach \cup Define)
         /\ DOMAIN project[s].items = 1 .. Len(project[s].items)
         /\ Len(project[s].items) \in Nat
         /\ \A i \in DOMAIN project[s].items :
              \/ project[s].items[i].kind = "attach" /\ project[s].items[i] \in Attach
              \/ project[s].items[i].kind = "define" /\ project[s].items[i] \in Define
<1>1. project[s] \in [readable : BOOLEAN, wellFormed : BOOLEAN,
                      items : Seq(Attach \cup Define)]
  BY FilesAssumption DEF TypeOK
<1>2. project[s].items \in Seq(Attach \cup Define)
  BY <1>1
<1>3. \A i \in 1 .. Len(project[s].items) : project[s].items[i] \in Attach \cup Define
  BY <1>2
<1> QED BY <1>1, <1>2, <1>3 DEF Attach, Define

\* Returning drops the last call and leaves the others.
LEMMA ReturnDropsTheCall ==
  ASSUME stack \in Seq(Calls), stack # << >>, Return
  PROVE  /\ stack' \in Seq(Calls)
         /\ Len(stack') = Len(stack) - 1
         /\ DOMAIN stack' = 1 .. Len(stack) - 1
         /\ \A i \in 1 .. Len(stack) - 1 : stack'[i] = stack[i]
<1>1. Len(stack) \in Nat \ {0} /\ DOMAIN stack = 1 .. Len(stack)
  OBVIOUS
<1> DEFINE rest == SubSeq(stack, 1, Len(stack) - 1)
<1>2. /\ rest \in Seq(Calls)
      /\ Len(rest) = Len(stack) - 1
      /\ \A i \in 1 .. Len(stack) - 1 : rest[i] = stack[i]
  BY <1>1, SubSeqProperties
<1>3. stack' = rest
  BY DEF Return
<1> QED BY <1>1, <1>2, <1>3

\* Advancing changes the position of the last call.
LEMMA AdvanceMovesTheCall ==
  ASSUME stack \in Seq(Calls), stack # << >>, Advance
  PROVE  /\ stack' \in Seq(Calls)
         /\ DOMAIN stack' = DOMAIN stack
         /\ \A i \in DOMAIN stack : i # Len(stack) => stack'[i] = stack[i]
         /\ stack'[Len(stack)].slab = Call.slab
         /\ stack'[Len(stack)].at = Call.at + 1
         /\ \A i \in DOMAIN stack : stack'[i].slab = stack[i].slab
<1>1. Len(stack) \in DOMAIN stack /\ DOMAIN stack = 1 .. Len(stack)
  OBVIOUS
<1>2. stack[Len(stack)] \in Calls /\ Call = stack[Len(stack)]
  BY <1>1 DEF Call
<1> DEFINE next == [Call EXCEPT !.at = @ + 1]
<1>3. next \in Calls /\ next.slab = Call.slab /\ next.at = Call.at + 1
  BY <1>2 DEF Calls
<1>4. stack' = [stack EXCEPT ![Len(stack)] = next]
  BY <1>2 DEF Advance
<1> HIDE DEF next
<1>5. stack' \in Seq(Calls)
  BY <1>1, <1>3, <1>4, ExceptSeq
<1> QED BY <1>1, <1>2, <1>3, <1>4, <1>5

\* The innermost call while createBundle runs.
LEMMA CallIsTyped ==
  ASSUME TypeOK, Running
  PROVE  /\ Len(stack) \in DOMAIN stack
         /\ DOMAIN stack = 1 .. Len(stack)
         /\ Len(stack) \in Nat
         /\ Call \in Calls
         /\ Call.slab \in Slabs
         /\ Call.at \in Nat
         /\ stack[Len(stack)] = Call
<1>1. stack \in Seq(Calls) /\ stack # << >>
  BY DEF TypeOK, Running
<1>2. /\ Len(stack) \in Nat
      /\ Len(stack) \in 1 .. Len(stack)
      /\ DOMAIN stack = 1 .. Len(stack)
  BY <1>1
<1>3. stack[Len(stack)] \in Calls
  BY <1>1, <1>2, ElementOfSeq
<1> QED BY <1>2, <1>3 DEF Call, Calls

-----------------------------------------------------------------------------
LEMMA InitEstablishes == Init => IInv
<1> SUFFICES ASSUME Init PROVE IInv
  OBVIOUS
<1>1. TypeOK
  BY SlabsAssumption DEF Init, TypeOK, Calls
<1>2. /\ DOMAIN stack = {1} /\ stack[1].slab = Root /\ stack[1].at = 0
      /\ Root \in Slabs
  BY SlabsAssumption DEF Init
<1>3. CreatedOnce
  BY <1>2 DEF CreatedOnce
<1>4. /\ \A alias \in Aliases : attachments[Root][alias] = NoSlab
      /\ \A name \in Names : definitions[Root][name] = 0
  BY SlabsAssumption DEF Init
<1>5. Progress(Root, 0)
  BY <1>1, <1>2, <1>4, FileIsTyped DEF Progress, AttachItems
<1>6. CallsProgress
  BY <1>1, <1>2, <1>5, FileIsTyped DEF CallsProgress, Init
<1>7. Finished
  BY <1>2 DEF Init, Finished
<1>8. Untouched /\ OnlyReachable /\ Cause /\ Stages
  BY SlabsAssumption DEF Init, Untouched, OnlyReachable, Cause, Stages
<1> QED BY <1>1, <1>3, <1>6, <1>7, <1>8 DEF IInv

-----------------------------------------------------------------------------
(***************************************************************************)
(* How far a slab has come is not changed by what happens to others.       *)
(***************************************************************************)
LEMMA ProgressKept ==
  ASSUME NEW s, NEW n, Progress(s, n),
         project' = project, slabs \subseteq slabs',
         attachments'[s] = attachments[s], definitions'[s] = definitions[s]
  PROVE  Progress(s, n)'
BY DEF Progress, AttachItems

\* Only which items come before the position matters.
LEMMA SameItemsBefore ==
  ASSUME NEW s, NEW m \in Nat, NEW n \in Nat, Progress(s, m),
         \A i \in DOMAIN project[s].items : i < m <=> i < n
  PROVE  Progress(s, n)
<1>1. AttachItems(s) \subseteq DOMAIN project[s].items
  BY DEF AttachItems
<1> QED BY <1>1 DEF Progress

LEMMA CompleteKept ==
  ASSUME NEW s, Complete(s),
         project' = project, parser' = parser, slabs \subseteq slabs',
         attachments'[s] = attachments[s], definitions'[s] = definitions[s]
  PROVE  Complete(s)'
BY ProgressKept DEF Complete, Parsed

\* A call that returns leaves the calls around it alone.
LEMMA ReturnKeeps ==
  ASSUME IInv, Running, Return,
         UNCHANGED <<project, parser, slabs, attachments, definitions>>,
         \/ status' = "fail"
         \/ status' = status /\ Complete(Call.slab)
  PROVE  stack' \in Seq(Calls) /\ CreatedOnce' /\ CallsProgress' /\ Finished'
<1>1. TypeOK /\ stack \in Seq(Calls) /\ stack # << >>
  BY DEF IInv, TypeOK, Running
<1>2. /\ stack' \in Seq(Calls)
      /\ DOMAIN stack' = 1 .. Len(stack) - 1
      /\ \A i \in 1 .. Len(stack) - 1 : stack'[i] = stack[i]
  BY <1>1, ReturnDropsTheCall
<1>3. /\ Len(stack) \in Nat /\ DOMAIN stack = 1 .. Len(stack)
      /\ stack[Len(stack)] = Call
  BY <1>1, CallIsTyped
<1>4. CreatedOnce'
  BY <1>2, <1>3 DEF IInv, CreatedOnce
<1>5. CallsProgress'
  <2> SUFFICES ASSUME NEW i \in DOMAIN stack', NEW s \in Slabs, NEW n \in Nat,
                      stack'[i].slab = s, stack'[i].at = n
               PROVE  /\ s \in slabs'
                      /\ n > 0 => Parsed(s)'
                      /\ n <= Len(project'[s].items) + 1
                      /\ Progress(s, n)'
    BY DEF CallsProgress
  <2>1. i \in DOMAIN stack /\ stack[i].slab = s /\ stack[i].at = n
    BY <1>2, <1>3
  <2>2. /\ s \in slabs
        /\ n > 0 => Parsed(s)
        /\ n <= Len(project[s].items) + 1
        /\ Progress(s, n)
    BY <2>1 DEF IInv, CallsProgress
  <2> QED BY <2>2, ProgressKept DEF Parsed
<1>6. Finished'
  <2> SUFFICES ASSUME status' # "fail", NEW s \in slabs
               PROVE  Complete(s)' \/ \E i \in DOMAIN stack' : stack'[i].slab = s
    BY DEF Finished
  <2>1. Complete(s) \/ \E i \in DOMAIN stack : stack[i].slab = s
    BY DEF IInv, Finished
  <2>2. Complete(s) \/ \E i \in DOMAIN stack' : stack'[i].slab = s
    BY <2>1, <1>2, <1>3
  <2> QED BY <2>2, CompleteKept
<1> QED BY <1>2, <1>4, <1>5, <1>6

\* A call that records an item and goes on leaves the calls around it alone.
LEMMA AdvanceKeeps ==
  ASSUME IInv, Running, Advance,
         UNCHANGED <<project, parser, slabs, status>>,
         NEW slab \in Slabs, slab = Call.slab, Parsed(slab),
         NEW next \in Nat, next = Call.at + 1,
         next <= Len(project[slab].items) + 1,
         \A s \in Slabs \ {slab} : /\ attachments'[s] = attachments[s]
                                   /\ definitions'[s] = definitions[s],
         Progress(slab, next)'
  PROVE  stack' \in Seq(Calls) /\ CreatedOnce' /\ CallsProgress' /\ Finished'
<1>1. TypeOK /\ stack \in Seq(Calls) /\ stack # << >> /\ slabs \subseteq Slabs
  BY DEF IInv, TypeOK, Running
<1>2. /\ stack' \in Seq(Calls)
      /\ DOMAIN stack' = DOMAIN stack
      /\ \A i \in DOMAIN stack : i # Len(stack) => stack'[i] = stack[i]
      /\ stack'[Len(stack)].slab = slab
      /\ stack'[Len(stack)].at = next
      /\ \A i \in DOMAIN stack : stack'[i].slab = stack[i].slab
  BY <1>1, AdvanceMovesTheCall
<1>3. /\ Len(stack) \in DOMAIN stack
      /\ stack[Len(stack)] = Call
      /\ Call.at \in Nat
  BY <1>1, CallIsTyped
<1>4. CreatedOnce'
  BY <1>2 DEF IInv, CreatedOnce
<1>5. CallsProgress'
  <2> SUFFICES ASSUME NEW i \in DOMAIN stack', NEW s \in Slabs, NEW n \in Nat,
                      stack'[i].slab = s, stack'[i].at = n
               PROVE  /\ s \in slabs'
                      /\ n > 0 => Parsed(s)'
                      /\ n <= Len(project'[s].items) + 1
                      /\ Progress(s, n)'
    BY DEF CallsProgress
  <2>1. CASE i = Len(stack)
    <3>1. s = slab /\ n = next
      BY <1>2, <2>1
    <3>2. slab \in slabs
      BY <1>3 DEF IInv, CallsProgress
    <3> QED BY <3>1, <3>2 DEF Parsed
  <2>2. CASE i # Len(stack)
    <3>1. i \in DOMAIN stack /\ stack[i].slab = s /\ stack[i].at = n
      BY <1>2, <2>2
    <3>2. s # slab
      BY <3>1, <2>2, <1>3 DEF IInv, CreatedOnce
    <3>3. /\ s \in slabs
          /\ n > 0 => Parsed(s)
          /\ n <= Len(project[s].items) + 1
          /\ Progress(s, n)
      BY <3>1 DEF IInv, CallsProgress
    <3> QED BY <3>2, <3>3, ProgressKept DEF Parsed
  <2> QED BY <2>1, <2>2
<1>6. Finished'
  <2> SUFFICES ASSUME status' # "fail", NEW s \in slabs
               PROVE  Complete(s)' \/ \E i \in DOMAIN stack' : stack'[i].slab = s
    BY DEF Finished
  <2>1. CASE s = slab
    BY <2>1, <1>2, <1>3
  <2>2. CASE s # slab
    <3>1. Complete(s) \/ \E i \in DOMAIN stack : stack[i].slab = s
      BY DEF IInv, Finished
    <3> QED BY <3>1, <2>2, <1>1, <1>2, CompleteKept
  <2> QED BY <2>1, <2>2
<1> QED BY <1>2, <1>4, <1>5, <1>6

-----------------------------------------------------------------------------
(***************************************************************************)
(* The actions.                                                            *)
(***************************************************************************)
\* The item at which the innermost call is.
LEMMA ItemIsTyped ==
  ASSUME IInv, NEW kind, AtItem(kind)
  PROVE  /\ Call.slab \in Slabs /\ Call.slab \in slabs
         /\ Call.at \in Nat \ {0}
         /\ Call.at \in DOMAIN project[Call.slab].items
         /\ Call.at <= Len(project[Call.slab].items)
         /\ Parsed(Call.slab)
         /\ Progress(Call.slab, Call.at)
         /\ Item = project[Call.slab].items[Call.at]
         /\ Item.kind = kind
         /\ kind = "attach" => Item.target \in Slabs /\ Item.alias \in Aliases
         /\ kind = "define" => Item.name \in Names
<1>1. TypeOK /\ Running
  BY DEF IInv, AtItem
<1>2. /\ Len(stack) \in DOMAIN stack
      /\ Call.slab \in Slabs /\ Call.at \in Nat
      /\ stack[Len(stack)] = Call
  BY <1>1, CallIsTyped
<1>3. /\ Call.at \in DOMAIN project[Call.slab].items
      /\ Item = project[Call.slab].items[Call.at]
      /\ Item.kind = kind
  BY DEF AtItem, Item, File
<1>4. /\ DOMAIN project[Call.slab].items = 1 .. Len(project[Call.slab].items)
      /\ Item.kind = "attach" => Item \in Attach
      /\ Item.kind = "define" => Item \in Define
  BY <1>1, <1>2, <1>3, FileIsTyped
<1>5. /\ kind = "attach" => Item.target \in Slabs /\ Item.alias \in Aliases
      /\ kind = "define" => Item.name \in Names
  BY <1>3, <1>4 DEF Attach, Define
<1>6. Call.slab \in slabs /\ Progress(Call.slab, Call.at)
      /\ (Call.at > 0 => Parsed(Call.slab))
  BY <1>2 DEF IInv, CallsProgress
<1> QED BY <1>2, <1>3, <1>4, <1>5, <1>6

\* What depends on the bundle only by which slabs it has.
LEMMA BundleKept ==
  ASSUME IInv, UNCHANGED <<project, parser, slabs>>
  PROVE  /\ OnlyReachable'
         /\ status' = status => Cause'
BY DEF IInv, OnlyReachable, Closed, AttachedBy, AttachItems, Cause, Sound,
       DistinctAliases

LEMMA ReadSlabKeeps == IInv /\ ReadSlab => IInv'
<1> SUFFICES ASSUME IInv, ReadSlab PROVE IInv'
  OBVIOUS
<1> DEFINE slab == Call.slab
<1>1. /\ TypeOK /\ Running /\ phase = "running" /\ Call.at = 0
      /\ UNCHANGED <<project, parser, slabs, attachments, definitions>>
  BY DEF IInv, ReadSlab, Running
<1>2. /\ Len(stack) \in DOMAIN stack /\ stack[Len(stack)] = Call
      /\ slab \in Slabs /\ Call.at \in Nat
  BY <1>1, CallIsTyped
<1>3. /\ slab \in slabs /\ Progress(slab, 0)
  BY <1>1, <1>2 DEF IInv, CallsProgress
<1>4. OnlyReachable'
  BY <1>1, BundleKept
<1>5. Untouched'
  BY <1>1 DEF IInv, Untouched
<1>6. CASE /\ Return /\ status' = "fail" /\ phase' = phase
           /\ ~(parser /\ project[slab].readable /\ project[slab].wellFormed)
  <2>1. stack' \in Seq(Calls) /\ CreatedOnce' /\ CallsProgress' /\ Finished'
    BY <1>1, <1>6, ReturnKeeps
  <2>2. TypeOK'
    BY <1>1, <1>6, <2>1 DEF TypeOK, Calls
  <2>3. Cause'
    BY <1>1, <1>3, <1>6 DEF Cause, Sound
  <2>4. Stages'
    BY <1>1, <1>6 DEF IInv, Stages
  <2> QED BY <1>4, <1>5, <2>1, <2>2, <2>3, <2>4 DEF IInv
<1>7. CASE /\ Return /\ status' = "fail" /\ status = "fail" /\ phase' = phase
  <2>1. stack' \in Seq(Calls) /\ CreatedOnce' /\ CallsProgress' /\ Finished'
    BY <1>1, <1>7, ReturnKeeps
  <2>2. TypeOK'
    BY <1>1, <1>7, <2>1 DEF TypeOK, Calls
  <2>3. Cause'
    BY <1>1, <1>7, BundleKept
  <2>4. Stages'
    BY <1>1, <1>7 DEF IInv, Stages
  <2> QED BY <1>4, <1>5, <2>1, <2>2, <2>3, <2>4 DEF IInv
<1>8. CASE phase' = "crashed" /\ UNCHANGED <<status, stack>>
  <2>1. TypeOK'
    BY <1>1, <1>8 DEF TypeOK, Calls
  <2>2. CreatedOnce'
    BY <1>8 DEF IInv, CreatedOnce
  <2>3. CallsProgress'
    <3> SUFFICES ASSUME NEW i \in DOMAIN stack, NEW s \in Slabs, NEW n \in Nat,
                        stack[i].slab = s, stack[i].at = n
                 PROVE  /\ s \in slabs'
                        /\ n > 0 => Parsed(s)'
                        /\ n <= Len(project'[s].items) + 1
                        /\ Progress(s, n)'
      BY <1>8 DEF CallsProgress
    <3>1. /\ s \in slabs
          /\ n > 0 => Parsed(s)
          /\ n <= Len(project[s].items) + 1
          /\ Progress(s, n)
      BY DEF IInv, CallsProgress
    <3> QED BY <1>1, <3>1, ProgressKept DEF Parsed
  <2>4. Finished'
    BY <1>1, <1>8, CompleteKept DEF IInv, Finished
  <2>5. Cause'
    BY <1>1, <1>8, BundleKept
  <2>6. Stages'
    BY <1>1, <1>8 DEF IInv, Stages
  <2> QED BY <1>4, <1>5, <2>1, <2>2, <2>3, <2>4, <2>5, <2>6 DEF IInv
<1>9. CASE /\ Advance /\ UNCHANGED <<status, phase>> /\ parser
           /\ project[slab].readable /\ project[slab].wellFormed
  <2>1. /\ DOMAIN project[slab].items = 1 .. Len(project[slab].items)
        /\ Len(project[slab].items) \in Nat
    BY <1>1, <1>2, FileIsTyped
  <2>2. Progress(slab, 1)
    <3>1. \A i \in DOMAIN project[slab].items : i < 0 <=> i < 1
    BY <2>1
  <3> QED BY <1>3, <3>1, SameItemsBefore
  <2>3. PICK s \in Slabs : s = slab
    BY <1>2
  <2>4. Progress(s, 1)'
    BY <1>1, <2>2, <2>3, ProgressKept
  <2>5. Parsed(s) /\ 1 <= Len(project[s].items) + 1
    BY <1>9, <2>1, <2>3 DEF Parsed
  <2>6. stack' \in Seq(Calls) /\ CreatedOnce' /\ CallsProgress' /\ Finished'
    BY <1>1, <1>9, <2>3, <2>4, <2>5, AdvanceKeeps
  <2>7. TypeOK'
    BY <1>1, <1>9, <2>6 DEF TypeOK, Calls
  <2>8. Cause'
    BY <1>1, <1>9, BundleKept
  <2>9. Stages'
    BY <1>1, <1>9 DEF IInv, Stages
  <2> QED BY <1>4, <1>5, <2>6, <2>7, <2>8, <2>9 DEF IInv
<1>10. \/ /\ ~project[slab].readable
          /\ status' = "fail" /\ Return /\ UNCHANGED phase
       \/ phase' = "crashed" /\ UNCHANGED <<status, stack>>
       \/ /\ project[slab].readable /\ parser
          /\ status' = IF project[slab].wellFormed THEN status ELSE "fail"
          /\ IF status' = "fail" THEN Return ELSE Advance
          /\ UNCHANGED phase
  BY DEF ReadSlab, File
<1> QED BY <1>6, <1>7, <1>8, <1>9, <1>10

LEMMA ReturnSlabKeeps == IInv /\ ReturnSlab => IInv'
<1> SUFFICES ASSUME IInv, ReturnSlab PROVE IInv'
  OBVIOUS
<1>1. /\ TypeOK /\ Running /\ phase = "running" /\ Return
      /\ Call.at > Len(project[Call.slab].items)
      /\ UNCHANGED <<project, parser, slabs, attachments, definitions, status, phase>>
  BY DEF IInv, ReturnSlab, Running, File
<1>2. /\ Len(stack) \in DOMAIN stack /\ stack[Len(stack)] = Call
      /\ Call.slab \in Slabs /\ Call.at \in Nat
  BY <1>1, CallIsTyped
<1>3. /\ Call.at > 0 => Parsed(Call.slab)
      /\ Progress(Call.slab, Call.at)
  BY <1>2 DEF IInv, CallsProgress
<1>4. /\ Len(project[Call.slab].items) \in Nat
      /\ DOMAIN project[Call.slab].items = 1 .. Len(project[Call.slab].items)
  BY <1>1, <1>2, FileIsTyped
<1>5. Parsed(Call.slab)
  BY <1>1, <1>2, <1>3, <1>4
<1>6. ASSUME NEW n \in Nat, n > Len(project[Call.slab].items)
      PROVE  Progress(Call.slab, n)
  <2>1. \A i \in DOMAIN project[Call.slab].items : i < Call.at <=> i < n
    BY <1>1, <1>2, <1>4, <1>6
  <2> QED BY <1>2, <1>3, <2>1, SameItemsBefore
<1>7. Complete(Call.slab)
  BY <1>5, <1>6 DEF Complete
<1>8. stack' \in Seq(Calls) /\ CreatedOnce' /\ CallsProgress' /\ Finished'
  BY <1>1, <1>7, ReturnKeeps
<1>9. TypeOK'
  BY <1>1, <1>8 DEF TypeOK, Calls
<1>10. Untouched'
  BY <1>1 DEF IInv, Untouched
<1>11. OnlyReachable' /\ Cause'
  BY <1>1, BundleKept
<1>12. Stages'
  BY <1>1 DEF IInv, Stages
<1> QED BY <1>8, <1>9, <1>10, <1>11, <1>12 DEF IInv

LEMMA CreateAttachedKeeps == IInv /\ CreateAttached => IInv'
<1> SUFFICES ASSUME IInv, CreateAttached PROVE IInv'
  OBVIOUS
<1>1. /\ TypeOK /\ Running /\ AtItem("attach")
      /\ UNCHANGED <<project, parser, attachments, definitions, status, phase>>
  BY DEF IInv, CreateAttached, AtItem
<1>2. PICK target \in Slabs :
        /\ target = Item.target
        /\ target \notin slabs
        /\ slabs' = slabs \cup {target}
        /\ stack' = Append(stack, [slab |-> target, at |-> 0])
  BY <1>1, ItemIsTyped DEF CreateAttached
<1>3. /\ stack \in Seq(Calls) /\ [slab |-> target, at |-> 0] \in Calls
      /\ Len(stack) \in Nat /\ DOMAIN stack = 1 .. Len(stack)
      /\ slabs \subseteq Slabs
  BY <1>1 DEF TypeOK, Calls
<1>4. /\ stack' \in Seq(Calls)
      /\ DOMAIN stack' = 1 .. Len(stack) + 1
      /\ \A i \in 1 .. Len(stack) : stack'[i] = stack[i]
      /\ stack'[Len(stack) + 1].slab = target
      /\ stack'[Len(stack) + 1].at = 0
  <2>1. stack' \in Seq(Calls) /\ Len(stack') = Len(stack) + 1
    BY <1>2, <1>3, AppendProperties
  <2>2. /\ \A i \in 1 .. Len(stack) : stack'[i] = stack[i]
        /\ stack'[Len(stack) + 1] = [slab |-> target, at |-> 0]
    BY <1>2, <1>3, AppendProperties
  <2> QED BY <2>1, <2>2
<1>5. \A i \in DOMAIN stack : stack[i].slab \in slabs
  <2> SUFFICES ASSUME NEW i \in DOMAIN stack PROVE stack[i].slab \in slabs
    OBVIOUS
  <2>1. stack[i] \in Calls
    BY <1>3, ElementOfSeq
  <2>2. stack[i].slab \in Slabs /\ stack[i].at \in Nat
    BY <2>1 DEF Calls
  <2> QED BY <2>2 DEF IInv, CallsProgress
<1>6. TypeOK'
  BY <1>1, <1>2, <1>3, <1>4 DEF TypeOK, Calls
<1>7. CreatedOnce'
  BY <1>2, <1>3, <1>4, <1>5 DEF IInv, CreatedOnce
<1>8. CallsProgress'
  <2> SUFFICES ASSUME NEW i \in DOMAIN stack', NEW s \in Slabs, NEW n \in Nat,
                      stack'[i].slab = s, stack'[i].at = n
               PROVE  /\ s \in slabs'
                      /\ n > 0 => Parsed(s)'
                      /\ n <= Len(project'[s].items) + 1
                      /\ Progress(s, n)'
    BY DEF CallsProgress
  <2>1. CASE i = Len(stack) + 1
    <3>1. s = target /\ n = 0
      BY <1>4, <2>1
    <3>2. /\ DOMAIN project[s].items = 1 .. Len(project[s].items)
          /\ Len(project[s].items) \in Nat
      BY <1>1, FileIsTyped
    <3>3. /\ \A alias \in Aliases : attachments[s][alias] = NoSlab
          /\ \A name \in Names : definitions[s][name] = 0
      BY <1>2, <3>1 DEF IInv, Untouched
    <3>4. Progress(s, 0)
      BY <3>2, <3>3 DEF Progress, AttachItems
    <3> QED BY <1>1, <1>2, <3>1, <3>2, <3>4, ProgressKept
  <2>2. CASE i # Len(stack) + 1
    <3>1. i \in DOMAIN stack /\ stack[i].slab = s /\ stack[i].at = n
      BY <1>3, <1>4, <2>2
    <3>2. /\ s \in slabs
          /\ n > 0 => Parsed(s)
          /\ n <= Len(project[s].items) + 1
          /\ Progress(s, n)
      BY <3>1 DEF IInv, CallsProgress
    <3> QED BY <1>1, <1>2, <3>2, ProgressKept DEF Parsed
  <2> QED BY <2>1, <2>2
<1>9. Finished'
  <2> SUFFICES ASSUME status' # "fail", NEW s \in slabs'
               PROVE  Complete(s)' \/ \E i \in DOMAIN stack' : stack'[i].slab = s
    BY DEF Finished
  <2>1. CASE s = target
    <3>1. Len(stack) + 1 \in DOMAIN stack'
      BY <1>3, <1>4
    <3> QED BY <3>1, <1>4, <2>1
  <2>2. CASE s # target
    <3>1. Complete(s) \/ \E i \in DOMAIN stack : stack[i].slab = s
      BY <1>1, <1>2, <2>2 DEF IInv, Finished
    <3>2. Complete(s) \/ \E i \in DOMAIN stack' : stack'[i].slab = s
      BY <3>1, <1>3, <1>4
    <3> QED BY <1>1, <1>2, <3>2, CompleteKept
  <2> QED BY <2>1, <2>2
<1>10. Untouched'
  BY <1>1, <1>2 DEF IInv, Untouched
<1>11. OnlyReachable'
  <2>1. Root \in slabs'
    BY <1>2 DEF IInv, OnlyReachable
  <2>2. ASSUME NEW S \in SUBSET Slabs, Root \in S, Closed(S)'
        PROVE  slabs' \subseteq S
    <3>1. Closed(S)
      BY <1>1, <2>2 DEF Closed, AttachedBy, AttachItems
    <3>2. slabs \subseteq S
      BY <2>2, <3>1 DEF IInv, OnlyReachable
    <3>3. target \in AttachedBy(Call.slab) /\ Call.slab \in slabs
      BY <1>1, <1>2, ItemIsTyped DEF AttachedBy, AttachItems
    <3> QED BY <1>2, <3>1, <3>2, <3>3 DEF Closed
  <2> QED BY <2>1, <2>2 DEF OnlyReachable
<1>12. Cause'
  BY <1>1, <1>2 DEF IInv, Cause, Sound, DistinctAliases, AttachItems
<1>13. Stages'
  BY <1>1 DEF IInv, Stages, Running
<1> QED BY <1>6, <1>7, <1>8, <1>9, <1>10, <1>11, <1>12, <1>13 DEF IInv

LEMMA RecordAttachmentKeeps == IInv /\ RecordAttachment => IInv'
<1> SUFFICES ASSUME IInv, RecordAttachment PROVE IInv'
  OBVIOUS
<1>1. /\ TypeOK /\ Running /\ phase = "running" /\ AtItem("attach")
      /\ Item.target \in slabs
      /\ UNCHANGED <<project, parser, slabs, definitions, phase>>
  BY DEF IInv, RecordAttachment, AtItem, Running
<1>2. PICK slab \in Slabs, at \in Nat, target \in Slabs, alias \in Aliases :
        slab = Call.slab /\ at = Call.at /\ target = Item.target /\ alias = Item.alias
  BY <1>1, ItemIsTyped
<1>3. /\ slab \in slabs /\ Parsed(slab) /\ Progress(slab, at)
      /\ at \in AttachItems(slab) /\ at <= Len(project[slab].items)
      /\ project[slab].items[at].target = target
      /\ project[slab].items[at].alias = alias
  BY <1>1, <1>2, ItemIsTyped DEF AttachItems
<1>4. /\ DOMAIN project[slab].items = 1 .. Len(project[slab].items)
      /\ Len(project[slab].items) \in Nat
      /\ AttachItems(slab) \subseteq 1 .. Len(project[slab].items)
  BY <1>1, FileIsTyped DEF AttachItems
<1>5. OnlyReachable'
  BY <1>1, BundleKept
<1>6. CASE /\ attachments[slab][alias] # NoSlab
           /\ status' = "fail" /\ Return /\ UNCHANGED attachments
  <2>1. stack' \in Seq(Calls) /\ CreatedOnce' /\ CallsProgress' /\ Finished'
    BY <1>1, <1>6, ReturnKeeps
  <2>2. TypeOK'
    BY <1>1, <1>6, <2>1 DEF TypeOK, Calls
  <2>3. Untouched'
    BY <1>1, <1>6 DEF IInv, Untouched
  <2>4. Cause'
    <3>1. PICK i \in AttachItems(slab) :
            i < at /\ project[slab].items[i].alias = alias
      BY <1>3, <1>6 DEF Progress
    <3>2. ~DistinctAliases(slab) /\ i # at
      BY <1>3, <1>4, <3>1 DEF DistinctAliases
    <3>3. ~DistinctAliases(slab)'
      BY <3>2, <1>1 DEF DistinctAliases, AttachItems
    <3> QED BY <1>1, <1>3, <3>3 DEF Cause, Sound
  <2>5. Stages'
    BY <1>1, <1>6 DEF IInv, Stages
  <2> QED BY <1>5, <2>1, <2>2, <2>3, <2>4, <2>5 DEF IInv
<1>7. CASE /\ attachments[slab][alias] = NoSlab
           /\ attachments' = [attachments EXCEPT ![slab][alias] = target]
           /\ Advance /\ UNCHANGED status
  <2>1. /\ attachments' \in [Slabs -> [Aliases -> Slabs \cup {NoSlab}]]
        /\ \A s \in Slabs \ {slab} : attachments'[s] = attachments[s]
        /\ attachments'[slab][alias] = target
        /\ \A other \in Aliases \ {alias} :
             attachments'[slab][other] = attachments[slab][other]
    BY <1>1, <1>7 DEF TypeOK
  <2>2. ASSUME NEW i \in AttachItems(slab), i < at
        PROVE  /\ project[slab].items[i].alias \in Aliases \ {alias}
               /\ project[slab].items[i].target \in slabs
               /\ attachments[slab][project[slab].items[i].alias]
                    = project[slab].items[i].target
    <3>1. project[slab].items[i] \in Attach
      BY <1>1, FileIsTyped DEF AttachItems
    <3>2. /\ project[slab].items[i].alias \in Aliases
          /\ project[slab].items[i].target \in Slabs
      BY <3>1 DEF Attach
    <3>3. /\ attachments[slab][project[slab].items[i].alias]
               = project[slab].items[i].target
          /\ project[slab].items[i].target \in slabs
      BY <1>3, <2>2 DEF Progress
    <3> QED BY <3>2, <3>3, <1>7, SlabsAssumption
  <2>3. \A i \in AttachItems(slab) : i < at + 1 => i = at \/ i < at
    BY <1>4
  <2>4. Progress(slab, at + 1)'
    <3>1. AttachItems(slab)' = AttachItems(slab)
      BY <1>1 DEF AttachItems
    <3>2. \A i, j \in AttachItems(slab) :
            /\ i < at + 1 /\ j < at + 1
            /\ project[slab].items[i].alias = project[slab].items[j].alias
            => i = j
      BY <1>3, <2>2, <2>3 DEF Progress
    <3>3. \A i \in AttachItems(slab) :
            i < at + 1 => /\ project[slab].items[i].target \in slabs
                          /\ attachments'[slab][project[slab].items[i].alias]
                               = project[slab].items[i].target
      BY <1>1, <1>2, <1>3, <2>1, <2>2, <2>3, ZenonT(60)
    <3>4. \A other \in Aliases :
            attachments'[slab][other] # NoSlab =>
              \E i \in AttachItems(slab) :
                i < at + 1 /\ project[slab].items[i].alias = other
      <4> SUFFICES ASSUME NEW other \in Aliases, attachments'[slab][other] # NoSlab
                   PROVE  \E i \in AttachItems(slab) :
                            i < at + 1 /\ project[slab].items[i].alias = other
        OBVIOUS
      <4>1. CASE other = alias
        BY <1>3, <4>1
      <4>2. CASE other # alias
        <5>1. PICK i \in AttachItems(slab) :
                i < at /\ project[slab].items[i].alias = other
          BY <1>3, <2>1, <4>2 DEF Progress
        <5> QED BY <1>4, <5>1
      <4> QED BY <4>1, <4>2
    <3>5. /\ \A name \in Names :
               definitions[slab][name] # 0 =>
                 /\ definitions[slab][name] \in DOMAIN project[slab].items
                 /\ definitions[slab][name] < at + 1
                 /\ project[slab].items[definitions[slab][name]].kind = "define"
                 /\ project[slab].items[definitions[slab][name]].name = name
          /\ \A i \in DOMAIN project[slab].items :
               i < at + 1 /\ project[slab].items[i].kind = "define" =>
                 i <= definitions[slab][project[slab].items[i].name]
      <4>1. \A i \in DOMAIN project[slab].items :
              /\ i < at => i < at + 1
              /\ i < at + 1 /\ project[slab].items[i].kind = "define" => i < at
        BY <1>3, <1>4 DEF AttachItems
      <4> QED BY <1>3, <4>1 DEF Progress
    <3> QED BY <1>1, <3>1, <3>2, <3>3, <3>4, <3>5 DEF Progress
  <2>5. PICK next \in Nat : next = at + 1
    OBVIOUS
  <2>6. Progress(slab, next)'
    BY <2>4, <2>5
  <2>7. next <= Len(project[slab].items) + 1
    BY <1>3, <1>4, <2>5
  <2>8. stack' \in Seq(Calls) /\ CreatedOnce' /\ CallsProgress' /\ Finished'
    BY <1>1, <1>2, <1>3, <1>7, <2>1, <2>5, <2>6, <2>7, AdvanceKeeps
  <2>9. TypeOK'
    BY <1>1, <1>7, <2>1, <2>8 DEF TypeOK, Calls
  <2>10. Untouched'
    BY <1>1, <1>3, <2>1 DEF IInv, Untouched
  <2>11. Cause'
    BY <1>1, <1>7, BundleKept
  <2>12. Stages'
    BY <1>1, <1>7 DEF IInv, Stages
  <2> QED BY <1>5, <2>8, <2>9, <2>10, <2>11, <2>12 DEF IInv
<1> QED BY <1>2, <1>6, <1>7 DEF RecordAttachment

LEMMA RecordDefinitionKeeps == IInv /\ RecordDefinition => IInv'
<1> SUFFICES ASSUME IInv, RecordDefinition PROVE IInv'
  OBVIOUS
<1>1. /\ TypeOK /\ Running /\ phase = "running" /\ AtItem("define") /\ Advance
      /\ UNCHANGED <<project, parser, slabs, attachments, status, phase>>
  BY DEF IInv, RecordDefinition, AtItem, Running
<1>2. PICK slab \in Slabs, at \in Nat, next \in Nat, name \in Names :
        slab = Call.slab /\ at = Call.at /\ next = at + 1 /\ name = Item.name
  BY <1>1, ItemIsTyped
<1>3. /\ slab \in slabs /\ Parsed(slab) /\ Progress(slab, at) /\ at # 0
      /\ at \in DOMAIN project[slab].items /\ at <= Len(project[slab].items)
      /\ project[slab].items[at].kind = "define"
      /\ project[slab].items[at].name = name
  BY <1>1, <1>2, ItemIsTyped
<1>4. /\ DOMAIN project[slab].items = 1 .. Len(project[slab].items)
      /\ Len(project[slab].items) \in Nat
      /\ AttachItems(slab) \subseteq 1 .. Len(project[slab].items)
      /\ at \notin AttachItems(slab)
  BY <1>1, <1>3, FileIsTyped DEF AttachItems
<1>5. /\ definitions' = [definitions EXCEPT ![slab][name] = at]
      /\ definitions' \in [Slabs -> [Names -> Nat]]
      /\ \A s \in Slabs \ {slab} : definitions'[s] = definitions[s]
      /\ definitions'[slab][name] = at
      /\ \A other \in Names \ {name} :
           definitions'[slab][other] = definitions[slab][other]
  BY <1>1, <1>2 DEF RecordDefinition, TypeOK
<1>6. Progress(slab, next)'
  <2>1. /\ AttachItems(slab)' = AttachItems(slab)
        /\ \A i \in AttachItems(slab) : i < next <=> i < at
    BY <1>1, <1>2, <1>4 DEF AttachItems
  <2>2. \A i, j \in AttachItems(slab) :
          /\ i < next /\ j < next
          /\ project[slab].items[i].alias = project[slab].items[j].alias
          => i = j
    BY <1>3, <2>1 DEF Progress
  <2>3. \A i \in AttachItems(slab) :
          i < next => /\ project[slab].items[i].target \in slabs
                      /\ attachments[slab][project[slab].items[i].alias]
                           = project[slab].items[i].target
    BY <1>3, <2>1 DEF Progress
  <2>4. \A alias \in Aliases :
          attachments[slab][alias] # NoSlab =>
            \E i \in AttachItems(slab) :
              i < next /\ project[slab].items[i].alias = alias
    BY <1>3, <2>1 DEF Progress
  <2>5. ASSUME NEW other \in Names, definitions'[slab][other] # 0
        PROVE  /\ definitions'[slab][other] \in DOMAIN project[slab].items
               /\ definitions'[slab][other] < next
               /\ project[slab].items[definitions'[slab][other]].kind = "define"
               /\ project[slab].items[definitions'[slab][other]].name = other
    <3>1. CASE other = name
      BY <1>2, <1>3, <1>5, <3>1
    <3>2. CASE other # name
      <4>1. definitions'[slab][other] = definitions[slab][other]
        BY <1>5, <3>2
      <4>2. /\ definitions[slab][other] \in DOMAIN project[slab].items
            /\ definitions[slab][other] < at
            /\ project[slab].items[definitions[slab][other]].kind = "define"
            /\ project[slab].items[definitions[slab][other]].name = other
        BY <1>3, <2>5, <4>1 DEF Progress
      <4> QED BY <1>2, <1>4, <4>1, <4>2
    <3> QED BY <3>1, <3>2
  <2>6. ASSUME NEW i \in DOMAIN project[slab].items,
               i < next, project[slab].items[i].kind = "define"
        PROVE  i <= definitions'[slab][project[slab].items[i].name]
    <3>1. project[slab].items[i].name \in Names
      <4>1. project[slab].items[i] \in Define
        BY <1>1, <2>6, FileIsTyped
      <4> QED BY <4>1 DEF Define
    <3>2. CASE project[slab].items[i].name = name
      BY <1>2, <1>4, <1>5, <2>6, <3>2
    <3>3. CASE project[slab].items[i].name # name
      <4>1. i < at
        BY <1>2, <1>3, <1>4, <2>6, <3>3
      <4>2. i <= definitions[slab][project[slab].items[i].name]
        BY <1>3, <2>6, <4>1 DEF Progress
      <4> QED BY <1>5, <3>1, <3>3, <4>2
    <3> QED BY <3>2, <3>3
  <2> QED BY <1>1, <2>1, <2>2, <2>3, <2>4, <2>5, <2>6 DEF Progress
<1>7. next <= Len(project[slab].items) + 1
  BY <1>2, <1>3, <1>4
<1>8. stack' \in Seq(Calls) /\ CreatedOnce' /\ CallsProgress' /\ Finished'
  BY <1>1, <1>2, <1>3, <1>5, <1>6, <1>7, AdvanceKeeps
<1>9. TypeOK'
  BY <1>1, <1>5, <1>8 DEF TypeOK, Calls
<1>10. Untouched'
  BY <1>1, <1>3, <1>5 DEF IInv, Untouched
<1>11. OnlyReachable' /\ Cause'
  BY <1>1, BundleKept
<1>12. Stages'
  BY <1>1 DEF IInv, Stages
<1> QED BY <1>8, <1>9, <1>10, <1>11, <1>12 DEF IInv

LEMMA NothingElseMatters ==
  ASSUME IInv, UNCHANGED <<project, parser, stack, slabs, attachments, definitions>>
  PROVE  CreatedOnce' /\ CallsProgress' /\ Untouched' /\ OnlyReachable'
<1>1. CreatedOnce' /\ Untouched'
  BY DEF IInv, CreatedOnce, Untouched
<1>2. CallsProgress'
  BY ProgressKept DEF IInv, CallsProgress, Parsed
<1> QED BY <1>1, <1>2, BundleKept

LEMMA ReturnBundleKeeps == IInv /\ ReturnBundle => IInv'
<1> SUFFICES ASSUME IInv, ReturnBundle PROVE IInv'
  OBVIOUS
<1>1. /\ UNCHANGED <<project, parser, stack, slabs, attachments, definitions>>
      /\ phase = "running" /\ phase' = "returned" /\ stack = << >>
      /\ status' = IF status = "none" THEN "success" ELSE status
      /\ status \in {"none", "success", "fail"}
  BY DEF IInv, TypeOK, ReturnBundle
<1>2. CreatedOnce' /\ CallsProgress' /\ Untouched' /\ OnlyReachable'
  BY <1>1, NothingElseMatters
<1>3. TypeOK'
  BY <1>1 DEF IInv, TypeOK, Calls
<1>4. Finished'
  BY <1>1, CompleteKept DEF IInv, Finished
<1>5. Cause'
  BY <1>1 DEF IInv, Cause, Sound, DistinctAliases, AttachItems
<1>6. Stages'
  BY <1>1 DEF IInv, Stages
<1> QED BY <1>2, <1>3, <1>4, <1>5, <1>6 DEF IInv

LEMMA NextKeeps == IInv /\ [Next]_vars => IInv'
<1> SUFFICES ASSUME IInv, [Next]_vars PROVE IInv'
  OBVIOUS
<1>1. CASE UNCHANGED vars
  <2>1. CreatedOnce' /\ CallsProgress' /\ Untouched' /\ OnlyReachable'
    BY <1>1, NothingElseMatters DEF vars
  <2>2. TypeOK' /\ Stages'
    BY <1>1 DEF IInv, TypeOK, Calls, Stages, vars
  <2>3. Finished'
    BY <1>1, CompleteKept DEF IInv, Finished, vars
  <2>4. Cause'
    BY <1>1, BundleKept DEF vars
  <2> QED BY <2>1, <2>2, <2>3, <2>4 DEF IInv
<1> QED BY <1>1, ReadSlabKeeps, ReturnSlabKeeps, ReturnBundleKeeps,
           CreateAttachedKeeps, RecordAttachmentKeeps, RecordDefinitionKeeps
        DEF Next

LEMMA Invariance == Spec => []IInv
BY InitEstablishes, NextKeeps, PTL DEF Spec

-----------------------------------------------------------------------------
(***************************************************************************)
(* The results.                                                            *)
(***************************************************************************)
\* The state of the create stage has its types: no call runs past its file
\* and no attachment is anything but a slab that can be named.
THEOREM TypeCorrect == Spec => []TypeOK
BY Invariance, PTL DEF IInv

\* Whatever the cycles of attachments, a slab is created by one call.
THEOREM SlabsCreatedOnce == Spec => []CreatedOnce
BY Invariance, PTL DEF IInv

\* Every slab of the bundle is reachable.
LEMMA EnteredAreReachable ==
  ASSUME IInv
  PROVE  slabs \subseteq Reachable
BY DEF IInv, TypeOK, OnlyReachable, Reachable

\* Without a failure everything reachable is in the bundle, and complete.
LEMMA SuccessIsClosed ==
  ASSUME IInv, stack = << >>, status # "fail"
  PROVE  slabs = Reachable /\ \A s \in slabs : Complete(s)
<1>1. \A s \in slabs : Complete(s)
  BY DEF IInv, Finished
<1>2. ASSUME NEW s \in slabs, NEW t \in AttachedBy(s)
      PROVE  t \in slabs
  <2>1. PICK i \in AttachItems(s) : t = project[s].items[i].target
    BY DEF AttachedBy
  <2>2. TypeOK /\ s \in Slabs
    BY DEF IInv, TypeOK
  <2>3. /\ Len(project[s].items) \in Nat
        /\ i \in 1 .. Len(project[s].items)
    BY <2>2, FileIsTyped DEF AttachItems
  <2>4. Progress(s, Len(project[s].items) + 1)
    BY <1>1, <2>3 DEF Complete
  <2> QED BY <2>1, <2>3, <2>4 DEF Progress
<1>3. Closed(slabs) /\ Root \in slabs /\ slabs \in SUBSET Slabs
  BY <1>2 DEF Closed, IInv, OnlyReachable, TypeOK
<1> QED BY <1>1, <1>3, EnteredAreReachable DEF Reachable

\* What a call has recorded when it is through is what the file says.
LEMMA CompleteIsSound ==
  ASSUME IInv, NEW s \in Slabs, Complete(s)
  PROVE  Sound(s) /\ AttachmentsKept(s) /\ DefinitionsKept(s)
<1> DEFINE last == Len(project[s].items)
<1>1. /\ TypeOK
      /\ DOMAIN project[s].items = 1 .. last /\ last \in Nat
      /\ AttachItems(s) \subseteq 1 .. last
  BY FileIsTyped DEF IInv, AttachItems
<1>2. Progress(s, last + 1)
  BY <1>1 DEF Complete
<1>3. \A i \in 1 .. last : i < last + 1
  BY <1>1
<1> HIDE DEF last
<1>4. Sound(s)
  BY <1>1, <1>2, <1>3 DEF Sound, Complete, Parsed, DistinctAliases, Progress
<1>5. AttachmentsKept(s)
  <2> SUFFICES ASSUME NEW alias \in Aliases
               PROVE  LET here == {i \in AttachItems(s) :
                                     project[s].items[i].alias = alias}
                      IN  IF here = {}
                          THEN attachments[s][alias] = NoSlab
                          ELSE \E i \in here :
                                 attachments[s][alias] = project[s].items[i].target
    BY DEF AttachmentsKept
  <2>1. attachments[s][alias] # NoSlab =>
          \E i \in AttachItems(s) : project[s].items[i].alias = alias
    BY <1>2 DEF Progress
  <2>2. \A i \in AttachItems(s) :
          attachments[s][project[s].items[i].alias] = project[s].items[i].target
    BY <1>1, <1>2, <1>3 DEF Progress
  <2> QED BY <2>1, <2>2
<1>6. DefinitionsKept(s)
  <2> SUFFICES ASSUME NEW name \in Names
               PROVE  LET here == {i \in DOMAIN project[s].items :
                                     /\ project[s].items[i].kind = "define"
                                     /\ project[s].items[i].name = name}
                      IN  IF here = {}
                          THEN definitions[s][name] = 0
                          ELSE /\ definitions[s][name] \in here
                               /\ \A i \in here : i <= definitions[s][name]
    BY DEF DefinitionsKept
  <2>1. definitions[s][name] # 0 =>
          /\ definitions[s][name] \in DOMAIN project[s].items
          /\ project[s].items[definitions[s][name]].kind = "define"
          /\ project[s].items[definitions[s][name]].name = name
    BY <1>2 DEF Progress
  <2>2. \A i \in 1 .. last :
          project[s].items[i].kind = "define" =>
            i <= definitions[s][project[s].items[i].name]
    BY <1>1, <1>2, <1>3 DEF Progress
  <2>3. \A i \in 1 .. last : ~(i <= 0)
    BY <1>1
  <2> QED BY <1>1, <2>1, <2>2, <2>3
<1> QED BY <1>4, <1>5, <1>6

\* createBundle's answer is right: success exactly when every reachable slab
\* is sound and the grammar could be read.
THEOREM VerdictIsAlwaysRight == Spec => []VerdictIsRight
<1>1. IInv => VerdictIsRight
  <2> SUFFICES ASSUME IInv, phase = "returned"
               PROVE  status = "success" <=> parser /\ \A s \in Reachable : Sound(s)
    BY DEF VerdictIsRight
  <2>1. /\ stack = << >> /\ status \in {"success", "fail"}
        /\ ~parser => status = "fail"
        /\ Reachable \subseteq Slabs
    BY DEF IInv, TypeOK, Stages, Reachable
  <2>2. CASE status = "success"
    BY <2>1, <2>2, SuccessIsClosed, CompleteIsSound
  <2>3. CASE status = "fail"
    BY <2>3, EnteredAreReachable DEF IInv, Cause
  <2> QED BY <2>1, <2>2, <2>3
<1> QED BY <1>1, Invariance, PTL

\* And after success the later stages find what the files say.
THEOREM SuccessIsAlwaysComplete == Spec => []SuccessIsComplete
<1>1. IInv => SuccessIsComplete
  BY SuccessIsClosed, CompleteIsSound
     DEF SuccessIsComplete, IInv, TypeOK, Stages
<1> QED BY <1>1, Invariance, PTL
=============================================================================
