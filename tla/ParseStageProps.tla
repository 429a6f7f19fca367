--------------------------- MODULE ParseStageProps ---------------------------
(***************************************************************************)
(* What the parse stage must guarantee.                                    *)
(***************************************************************************)
EXTENDS ParseStage

Phases == {"running", "returned", "null pointer", "uncaught exception",
           "overflow"}

\* The values of the variables, and where the parsers may be.
TypeOK ==
  /\ program \in Programs
  /\ next \in 1 .. Len(Class) + 1
  /\ stack \in Seq([name : Names, at : Nat \ {0}])
  /\ \A k \in DOMAIN stack :
       /\ stack[k].name \in program.present
       /\ stack[k].at <= Len(Body(stack[k].name)) + 1
  /\ parsed \subseteq Names
  /\ nulls \subseteq Names
  /\ hollow \subseteq Names \X Nat
  /\ status \in {"none", "fail", "success"}
  /\ phase \in Phases

(***************************************************************************)
(* What makes an item right, whatever the order of parsing.                *)
(***************************************************************************)
Resolved(d, i) ==
  LET item == Body(d)[i]
  IN /\ Found(d, item.of)
     /\ item.kind \in Calls => item.fits
     /\ item.kind = "member" =>
          /\ item.index \in 1 .. Len(Body(item.of))
          /\ Class[item.of] = "context" =>
               \E j \in 1 .. i - 1 :
                 Body(d)[j].kind = "capture" /\ Body(d)[j].of = item.of

AllResolved(d) == \A i \in DOMAIN Body(d) : Resolved(d, i)

Sound == \A d \in program.present : AllResolved(d)

(***************************************************************************)
(* Which definitions the parser of d enters, directly or not.              *)
(***************************************************************************)
Leads(d, e) ==
  /\ {d, e} \subseteq program.present
  /\ \E i \in DOMAIN Body(d) :
       /\ Body(d)[i].of = e
       /\ Body(d)[i].kind \in Calls \/ Class[e] = "alias"

Reached(d) ==
  LET within[n \in 0 .. Len(Class)] ==
        IF n = 0 THEN {d}
        ELSE LET near == within[n - 1]
             IN near \cup {f \in Names : \E e \in near : Leads(e, f)}
  IN within[Len(Class)]

Recursive == \E d, e \in Names : Leads(d, e) /\ d \in Reached(e)

\* Something that parseBundle's visit to d parses uses a member of a
\* definition that parseBundle visits later, or is visiting.
UsedEarly ==
  \E d \in program.present : \E e \in Reached(d) : \E i \in DOMAIN Body(e) :
    Body(e)[i].kind = "member" /\ Body(e)[i].of >= d

(***************************************************************************)
(* Properties.                                                             *)
(***************************************************************************)

\* When parseBundle returns success, every reference of every definition is
\* resolved: each of the many ways to go on after an error has left its mark
\* in the status, also where the error was met in a callee, deep under the
\* definition that parseBundle visits.
SuccessIsSound == phase = "returned" /\ status = "success" => Sound

\* As long as nothing failed, a function whose parsing is complete calls only
\* such functions.  A call compares its arguments with those of a callee that
\* has been parsed (parse.cpp 637).
CalleesFirst ==
  status # "fail" =>
    \A d \in parsed : \A i \in DOMAIN Body(d) :
      Body(d)[i].kind \in Calls => Body(d)[i].of \in parsed

\* The compiler crashes only for programs with an error in them, and runs out
\* of stack only for recursive ones.
CrashHasCause ==
  /\ phase \in {"null pointer", "uncaught exception"} => ~Sound
  /\ phase = "overflow" => Recursive

\* The stage fails only for programs with an error in them, or that use a
\* member of something before parseBundle has come to it.
FailureHasCause == status = "fail" => ~Sound \/ UsedEarly

\* All other programs are parsed, however calls, contexts and types of several
\* slabs refer to each other: the nested parsers end.
SoundProgramsParse ==
  Sound /\ ~Recursive /\ ~UsedEarly => <>(phase = "returned" /\ status = "success")

\* A member is reported as missing only when it is: a program without errors
\* does not fail.
MembersAreFound == phase = "returned" /\ Sound => status = "success"
=============================================================================
