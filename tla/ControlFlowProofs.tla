------------------------- MODULE ControlFlowProofs -------------------------
(***************************************************************************)
(* For bodies of every length and nesting: the blocks of a finished        *)
(* function end with terminators, and a call gives its stack back; what a  *)
(* call reads is on the stack, no declaration has its storage there twice, *)
(* and LLVM's verifier accepts the blocks exactly of those bodies that are *)
(* tidy.                                                                   *)
(***************************************************************************)
EXTENDS ControlFlowProps, SequenceTheorems, TLAPS

-----------------------------------------------------------------------------
(* Code.  "n" bounds the blocks that it may jump to; nothing jumps to block 1.  A return    *)
(* directly follows the restore of the function's stack, or only an evaluation is between. *)

Entry == <<Plain("save", 0), Plain("alloca", 0), Br(2)>>

InstrOK(x, n) ==
  /\ x \in Instruction
  /\ x.yes \in 0 .. n /\ x.no \in 0 .. n
  /\ x.op \in {"br", "condbr"} => x.yes \in 2 .. n
  /\ x.op = "condbr" => x.no \in 2 .. n
  /\ x.op = "save" => x.at # 0

Emptied(c, i) ==
  \/ i > 1 /\ c[i - 1] = Plain("restore", 0)
  \/ i > 2 /\ c[i - 1].op = "eval" /\ c[i - 2] = Plain("restore", 0)

CodeOK(c, n) ==
  /\ c \in Seq(Instruction)
  /\ \A i \in 1 .. Len(c) : InstrOK(c[i], n) /\ (c[i].op = "ret" => Emptied(c, i))

LEMMA Joining ==
  ASSUME NEW S, NEW c \in Seq(S), NEW d \in Seq(S)
  PROVE  /\ c \o d \in Seq(S) /\ Len(c \o d) = Len(c) + Len(d)
         /\ \A i \in 1 .. Len(c) : (c \o d)[i] = c[i]
         /\ \A i \in 1 .. Len(d) : (c \o d)[Len(c) + i] = d[i]
<1> DEFINE e == c \o d
<1>1. Len(c) \in Nat /\ Len(d) \in Nat
  OBVIOUS
<1>2. e \in Seq(S) /\ Len(e) = Len(c) + Len(d)
  BY ConcatProperties
<1>3. \A i \in 1 .. Len(c) + Len(d) : e[i] = IF i <= Len(c) THEN c[i] ELSE d[i - Len(c)]
  BY ConcatProperties
<1> HIDE DEF e
<1>4. ASSUME NEW i \in 1 .. Len(c) PROVE e[i] = c[i]
  BY <1>1, <1>3
<1>5. ASSUME NEW i \in 1 .. Len(d) PROVE e[Len(c) + i] = d[i]
  <2>1. Len(c) + i \in 1 .. Len(c) + Len(d) /\ ~(Len(c) + i <= Len(c)) /\ Len(c) + i - Len(c) = i
    BY <1>1
  <2> QED BY <1>3, <2>1
<1> QED BY <1>2, <1>4, <1>5 DEF e

LEMMA Pair ==
  ASSUME NEW S, NEW x \in S, NEW y \in S
  PROVE  <<x>> \o <<y>> = <<x, y>>
<1> DEFINE c == <<x>>
           d == <<y>>
           e == c \o d
           p == <<x, y>>
<1>1. c \in Seq(S) /\ Len(c) = 1 /\ c[1] = x
  OBVIOUS
<1>2. d \in Seq(S) /\ Len(d) = 1 /\ d[1] = y
  OBVIOUS
<1>3. p \in Seq(S) /\ Len(p) = 2 /\ p[1] = x /\ p[2] = y
  OBVIOUS
<1> HIDE DEF c, d
<1>4. /\ e \in Seq(S) /\ Len(e) = Len(c) + Len(d)
      /\ \A i \in 1 .. Len(c) : e[i] = c[i]
      /\ \A i \in 1 .. Len(d) : e[Len(c) + i] = d[i]
  <2>1. c \in Seq(S) /\ d \in Seq(S)
    BY <1>1, <1>2, Zenon
  <2> QED BY <2>1, Joining
<1> HIDE DEF e, p
<1>5. Len(e) = 2 /\ e[1] = x /\ e[2] = y
  BY <1>1, <1>2, <1>4
<1>6. \A i \in 1 .. Len(e) : e[i] = p[i]
  BY <1>3, <1>5
<1>7. e = p
  BY <1>3, <1>4, <1>5, <1>6, SeqEqual
<1> QED BY <1>7 DEF e, c, d, p

LEMMA UpTo ==
  ASSUME NEW S, NEW s \in Seq(S), NEW n \in 0 .. Len(s)
  PROVE  /\ SubSeq(s, 1, n) \in Seq(S) /\ Len(SubSeq(s, 1, n)) = n
         /\ \A i \in 1 .. n : SubSeq(s, 1, n)[i] = s[i]
<1> DEFINE p == SubSeq(s, 1, n)
<1>1. p \in Seq(S) /\ Len(p) = n
  BY SubSeqProperties
<1>2. \A i \in 1 .. n - 1 + 1 : p[i] = s[1 + i - 1]
  BY SubSeqProperties
<1> HIDE DEF p
<1>3. \A i \in 1 .. n : p[i] = s[i]
  BY <1>2
<1> QED BY <1>1, <1>3 DEF p

LEMMA EmptiedAfter ==
  ASSUME NEW c, NEW d, NEW k \in Nat, NEW i \in Nat, NEW m \in Nat, i <= m,
         \A j \in 1 .. m : c[k + j] = d[j], Emptied(d, i)
  PROVE  Emptied(c, k + i)
<1>1. CASE i > 1 /\ d[i - 1] = Plain("restore", 0)
  <2>1. i - 1 \in 1 .. m /\ k + (i - 1) = k + i - 1 /\ k + i > 1
    BY <1>1
  <2>2. c[k + i - 1] = d[i - 1]
    BY <2>1
  <2> QED BY <1>1, <2>1, <2>2 DEF Emptied
<1>2. CASE i > 2 /\ d[i - 1].op = "eval" /\ d[i - 2] = Plain("restore", 0)
  <2>1. /\ i - 1 \in 1 .. m /\ k + (i - 1) = k + i - 1 /\ k + i > 2
        /\ i - 2 \in 1 .. m /\ k + (i - 2) = k + i - 2
    BY <1>2
  <2>2. c[k + i - 1] = d[i - 1] /\ c[k + i - 2] = d[i - 2]
    BY <2>1
  <2> QED BY <1>2, <2>1, <2>2 DEF Emptied
<1> QED BY <1>1, <1>2, Zenon DEF Emptied

LEMMA CodeJoined ==
  ASSUME NEW n, NEW c, NEW d, CodeOK(c, n), CodeOK(d, n)
  PROVE  CodeOK(c \o d, n)
<1> DEFINE e == c \o d
<1>1. c \in Seq(Instruction) /\ d \in Seq(Instruction)
  BY Zenon DEF CodeOK
<1>2. /\ e \in Seq(Instruction) /\ Len(e) = Len(c) + Len(d)
      /\ \A i \in 1 .. Len(c) : e[i] = c[i]
      /\ \A i \in 1 .. Len(d) : e[Len(c) + i] = d[i]
  BY <1>1, Joining
<1>3. Len(c) \in Nat /\ Len(d) \in Nat
  BY <1>1
<1> HIDE DEF e
<1>4. ASSUME NEW i \in 1 .. Len(c)
      PROVE  InstrOK(e[i], n) /\ (e[i].op = "ret" => Emptied(e, i))
  <2>1. e[i] = c[i] /\ InstrOK(c[i], n) /\ (c[i].op = "ret" => Emptied(c, i))
    BY <1>2, Zenon DEF CodeOK
  <2>2. ASSUME Emptied(c, i) PROVE Emptied(e, i)
    <3>1. \A j \in 1 .. Len(c) : e[0 + j] = c[j]
      BY <1>2
    <3>2. i \in Nat /\ i <= Len(c) /\ 0 + i = i
      BY <1>3
    <3>3. Emptied(e, 0 + i)
      BY <1>3, <2>2, <3>1, <3>2, EmptiedAfter
    <3> QED BY <3>2, <3>3
  <2> QED BY <2>1, <2>2, Zenon
<1>5. ASSUME NEW i \in 1 .. Len(d)
      PROVE  InstrOK(e[Len(c) + i], n) /\ (e[Len(c) + i].op = "ret" => Emptied(e, Len(c) + i))
  <2>1. e[Len(c) + i] = d[i] /\ InstrOK(d[i], n) /\ (d[i].op = "ret" => Emptied(d, i))
    BY <1>2, Zenon DEF CodeOK
  <2>2. ASSUME Emptied(d, i) PROVE Emptied(e, Len(c) + i)
    <3>1. i \in Nat /\ i <= Len(d)
      BY <1>3
    <3> QED BY <1>2, <1>3, <2>2, <3>1, EmptiedAfter
  <2> QED BY <2>1, <2>2, Zenon
<1>6. ASSUME NEW i \in 1 .. Len(e)
      PROVE  InstrOK(e[i], n) /\ (e[i].op = "ret" => Emptied(e, i))
  <2>1. CASE i <= Len(c)
    <3>1. i \in 1 .. Len(c)
      BY <1>3, <2>1
    <3> QED BY <1>4, <3>1, Zenon
  <2>2. CASE ~(i <= Len(c))
    <3>1. PICK j \in 1 .. Len(d) : i = Len(c) + j
      <4>1. i - Len(c) \in 1 .. Len(d) /\ i = Len(c) + (i - Len(c))
        BY <1>2, <1>3, <2>2
      <4> QED BY <4>1
    <3> QED BY <1>5, <3>1, Zenon
  <2> QED BY <2>1, <2>2
<1>7. CodeOK(e, n)
  BY <1>2, <1>6, Zenon DEF CodeOK
<1> QED BY <1>7 DEF e

LEMMA PlainCode ==
  ASSUME NEW n \in Nat, NEW op \in {"eval", "alloca", "restore", "save"}, NEW at \in Nat,
         op = "save" => at # 0
  PROVE  CodeOK(<<Plain(op, at)>>, n)
<1> DEFINE x == Plain(op, at)
<1>1. x = [op |-> op, at |-> at, yes |-> 0, no |-> 0]
  BY DEF Plain
<1>2. x \in Instruction /\ x.op = op /\ x.at = at /\ x.yes = 0 /\ x.no = 0
  BY <1>1 DEF Instruction, Terminators
<1> HIDE DEF x
<1>3. InstrOK(x, n) /\ x.op # "ret"
  BY <1>2 DEF InstrOK
<1> QED BY <1>2, <1>3 DEF CodeOK, x

LEMMA BrCode ==
  ASSUME NEW n \in Nat, NEW b \in 2 .. n
  PROVE  CodeOK(<<Br(b)>>, n)
<1> DEFINE x == Br(b)
<1>1. x = [op |-> "br", at |-> 0, yes |-> b, no |-> 0]
  BY DEF Br
<1>2. x \in Instruction /\ x.op = "br" /\ x.yes = b /\ x.no = 0
  BY <1>1 DEF Instruction, Terminators
<1> HIDE DEF x
<1>3. InstrOK(x, n) /\ x.op # "ret"
  BY <1>2 DEF InstrOK
<1> QED BY <1>2, <1>3 DEF CodeOK, x

LEMMA CondBrCode ==
  ASSUME NEW n \in Nat, NEW at \in Nat, NEW b \in 2 .. n, NEW d \in 2 .. n
  PROVE  CodeOK(<<CondBr(at, b, d)>>, n)
<1> DEFINE x == CondBr(at, b, d)
<1>1. x = [op |-> "condbr", at |-> at, yes |-> b, no |-> d]
  BY DEF CondBr
<1>2. x \in Instruction /\ x.op = "condbr" /\ x.yes = b /\ x.no = d
  BY <1>1 DEF Instruction, Terminators
<1> HIDE DEF x
<1>3. InstrOK(x, n) /\ x.op # "ret"
  BY <1>2 DEF InstrOK
<1> QED BY <1>2, <1>3 DEF CodeOK, x

(* A return, with an expression or without. *)
LEMMA ReturnCode ==
  ASSUME NEW n \in Nat, NEW at \in Nat
  PROVE  /\ CodeOK(GiveBack \o <<Plain("eval", at), Plain("ret", at)>>, n)
         /\ CodeOK(GiveBack \o <<Plain("ret", at)>>, n)
<1> DEFINE x == Plain("restore", 0)
           y == Plain("eval", at)
           z == Plain("ret", at)
<1>1. x \in Instruction /\ y \in Instruction /\ z \in Instruction
  BY DEF Plain, Instruction, Terminators
<1>2. InstrOK(x, n) /\ InstrOK(y, n) /\ InstrOK(z, n)
  BY <1>1 DEF InstrOK, Plain
<1>3. x.op # "ret" /\ y.op # "ret" /\ y.op = "eval"
  BY DEF Plain
<1>4. GiveBack = <<x>>
  BY DEF GiveBack
<1>5. x = Plain("restore", 0)
  OBVIOUS
<1> HIDE DEF x, y, z
<1>6. CodeOK(<<x>> \o <<y, z>>, n)
  <2> DEFINE b == <<x>>
             d == <<y, z>>
             c == b \o d
  <2>1. b \in Seq(Instruction) /\ Len(b) = 1 /\ b[1] = x
    BY <1>1
  <2>2. d \in Seq(Instruction) /\ Len(d) = 2 /\ d[1] = y /\ d[2] = z
    BY <1>1
  <2> HIDE DEF b, d
  <2>3. /\ c \in Seq(Instruction) /\ Len(c) = Len(b) + Len(d)
        /\ \A i \in 1 .. Len(b) : c[i] = b[i]
        /\ \A i \in 1 .. Len(d) : c[Len(b) + i] = d[i]
    <3>1. b \in Seq(Instruction) /\ d \in Seq(Instruction)
      BY <2>1, <2>2, Zenon
    <3> QED BY <3>1, Joining
  <2> HIDE DEF c
  <2>4. Len(c) = 3 /\ c[1] = x /\ c[2] = y /\ c[3] = z
    BY <2>1, <2>2, <2>3
  <2>5. Emptied(c, 3)
    BY <1>3, <1>5, <2>4 DEF Emptied
  <2>6. \A i \in 1 .. Len(c) : i = 1 \/ i = 2 \/ i = 3
    BY <2>4
  <2>7. \A i \in 1 .. Len(c) : InstrOK(c[i], n) /\ (c[i].op = "ret" => Emptied(c, i))
    BY <1>2, <1>3, <2>4, <2>5, <2>6, Zenon
  <2>8. CodeOK(c, n)
    BY <2>3, <2>7 DEF CodeOK
  <2> QED BY <2>8 DEF c, b, d
<1>7. CodeOK(<<x>> \o <<z>>, n)
  <2> DEFINE b == <<x>>
             d == <<z>>
             c == b \o d
  <2>1. b \in Seq(Instruction) /\ Len(b) = 1 /\ b[1] = x
    BY <1>1
  <2>2. d \in Seq(Instruction) /\ Len(d) = 1 /\ d[1] = z
    BY <1>1
  <2> HIDE DEF b, d
  <2>3. /\ c \in Seq(Instruction) /\ Len(c) = Len(b) + Len(d)
        /\ \A i \in 1 .. Len(b) : c[i] = b[i]
        /\ \A i \in 1 .. Len(d) : c[Len(b) + i] = d[i]
    BY <2>1, <2>2, Joining
  <2> HIDE DEF c
  <2>4. Len(c) = 2 /\ c[1] = x /\ c[2] = z
    BY <2>1, <2>2, <2>3
  <2>5. Emptied(c, 2)
    BY <1>5, <2>4 DEF Emptied
  <2>6. \A i \in 1 .. Len(c) : i = 1 \/ i = 2
    BY <2>4
  <2>7. \A i \in 1 .. Len(c) : InstrOK(c[i], n) /\ (c[i].op = "ret" => Emptied(c, i))
    BY <1>2, <1>3, <2>4, <2>5, <2>6, Zenon
  <2>8. CodeOK(c, n)
    BY <2>3, <2>7 DEF CodeOK
  <2> QED BY <2>8 DEF c, b, d
<1> QED BY <1>4, <1>6, <1>7, Zenon DEF y, z

LEMMA EmptyCode ==
  ASSUME NEW n
  PROVE  CodeOK(<<>>, n)
BY DEF CodeOK

LEMMA CodeWidened ==
  ASSUME NEW n \in Nat, NEW m \in Nat, n <= m, NEW c, CodeOK(c, n)
  PROVE  CodeOK(c, m)
<1>1. ASSUME NEW x, InstrOK(x, n) PROVE InstrOK(x, m)
  BY <1>1 DEF InstrOK
<1> QED BY <1>1, Zenon DEF CodeOK
-----------------------------------------------------------------------------
(* Sequences of blocks. *)

BlocksOK(bs, n) ==
  /\ bs \in Seq(Seq(Instruction)) /\ Len(bs) >= 2 /\ bs[1] = Entry
  /\ \A b \in 2 .. Len(bs) : CodeOK(bs[b], n)

LEMMA BlocksWidened ==
  ASSUME NEW n \in Nat, NEW m \in Nat, n <= m, NEW bs, BlocksOK(bs, n)
  PROVE  BlocksOK(bs, m)
<1>1. \A c : CodeOK(c, n) => CodeOK(c, m)
  BY CodeWidened
<1> QED BY <1>1, Zenon DEF BlocksOK

LEMMA NewFacts ==
  ASSUME NEW bs \in Seq(Seq(Instruction))
  PROVE  /\ New(bs) \in Seq(Seq(Instruction)) /\ Len(New(bs)) = Len(bs) + 1
         /\ \A b \in 1 .. Len(bs) : New(bs)[b] = bs[b]
         /\ New(bs)[Len(bs) + 1] = <<>>
<1> DEFINE T == Seq(Instruction)
           none == <<>>
<1>1. none \in T
  OBVIOUS
<1> HIDE DEF T, none
<1>2. /\ Append(bs, none) \in Seq(T) /\ Len(Append(bs, none)) = Len(bs) + 1
      /\ \A b \in 1 .. Len(bs) : Append(bs, none)[b] = bs[b]
      /\ Append(bs, none)[Len(bs) + 1] = none
  BY <1>1, AppendProperties DEF T
<1> QED BY <1>2, Zenon DEF New, T, none

LEMMA EmitFacts ==
  ASSUME NEW bs \in Seq(Seq(Instruction)), NEW b \in 1 .. Len(bs), NEW code \in Seq(Instruction)
  PROVE  /\ Emit(bs, b, code) \in Seq(Seq(Instruction)) /\ Len(Emit(bs, b, code)) = Len(bs)
         /\ \A i \in 1 .. Len(bs) : i # b => Emit(bs, b, code)[i] = bs[i]
         /\ Emit(bs, b, code)[b] = bs[b] \o code
<1>1. bs[b] \o code \in Seq(Instruction)
  <2>1. bs[b] \in Seq(Instruction)
    OBVIOUS
  <2> QED BY <2>1, Joining
<1> DEFINE T == Seq(Instruction)
           x == bs[b] \o code
<1>2. Emit(bs, b, code) = [bs EXCEPT ![b] = x]
  BY DEF Emit
<1>3. x \in T
  BY <1>1
<1>4. bs \in Seq(T)
  OBVIOUS
<1> HIDE DEF T, x
<1>5. /\ [bs EXCEPT ![b] = x] \in Seq(T) /\ Len([bs EXCEPT ![b] = x]) = Len(bs)
      /\ \A i \in 1 .. Len(bs) : i # b => [bs EXCEPT ![b] = x][i] = bs[i]
      /\ [bs EXCEPT ![b] = x][b] = x
  BY <1>3, <1>4, ExceptSeq
<1> QED BY <1>2, <1>5, Zenon DEF T, x

-----------------------------------------------------------------------------
(* What New, Emit, EmitIfOpen and Joined preserve. *)

LEMMA NewKeeps ==
  ASSUME NEW n, NEW bs, BlocksOK(bs, n)
  PROVE  BlocksOK(New(bs), n) /\ Len(New(bs)) = Len(bs) + 1
<1>1. bs \in Seq(Seq(Instruction)) /\ Len(bs) >= 2 /\ bs[1] = Entry
      /\ \A b \in 2 .. Len(bs) : CodeOK(bs[b], n)
  BY Zenon DEF BlocksOK
<1> DEFINE m == Len(bs)
           cs == New(bs)
<1>2. /\ cs \in Seq(Seq(Instruction)) /\ Len(cs) = m + 1
      /\ \A b \in 1 .. m : cs[b] = bs[b]
      /\ cs[m + 1] = <<>>
  BY <1>1, NewFacts
<1>3. m \in Nat
  BY <1>1
<1> HIDE DEF cs, m
<1>4. m >= 2
  BY <1>1 DEF m
<1>5. ASSUME NEW b \in 2 .. m + 1 PROVE CodeOK(cs[b], n)
  <2>1. CASE b \in 2 .. m
    <3>1. b \in 1 .. m
      BY <1>3, <2>1
    <3> QED BY <1>1, <1>2, <2>1, <3>1, Zenon DEF m
  <2>2. CASE b = m + 1
    BY <1>2, <2>2, EmptyCode, Zenon
  <2> QED BY <1>3, <1>4, <2>1, <2>2
<1>6. cs[1] = Entry
  <2>1. 1 \in 1 .. m
    BY <1>3, <1>4
  <2> QED BY <1>1, <1>2, <2>1, Zenon
<1>7. m + 1 >= 2
  BY <1>3, <1>4
<1> QED BY <1>2, <1>5, <1>6, <1>7, Zenon DEF BlocksOK, cs, m

LEMMA EmitKeeps ==
  ASSUME NEW n, NEW bs, BlocksOK(bs, n), NEW b \in 2 .. Len(bs), NEW code, CodeOK(code, n)
  PROVE  BlocksOK(Emit(bs, b, code), n) /\ Len(Emit(bs, b, code)) = Len(bs)
<1>1. bs \in Seq(Seq(Instruction)) /\ Len(bs) >= 2 /\ bs[1] = Entry
      /\ \A i \in 2 .. Len(bs) : CodeOK(bs[i], n)
  BY Zenon DEF BlocksOK
<1>2. code \in Seq(Instruction)
  BY Zenon DEF CodeOK
<1>3. b \in 1 .. Len(bs) /\ 1 \in 1 .. Len(bs) /\ b # 1 /\ \A i \in 2 .. Len(bs) : i \in 1 .. Len(bs)
  BY <1>1
<1> DEFINE cs == Emit(bs, b, code)
<1>4. /\ cs \in Seq(Seq(Instruction)) /\ Len(cs) = Len(bs)
      /\ \A i \in 1 .. Len(bs) : i # b => cs[i] = bs[i]
      /\ cs[b] = bs[b] \o code
  BY <1>1, <1>2, <1>3, EmitFacts
<1> HIDE DEF cs
<1>5. ASSUME NEW i \in 2 .. Len(bs) PROVE CodeOK(cs[i], n)
  <2>1. CASE i = b
    BY <1>1, <1>4, <2>1, CodeJoined, Zenon
  <2>2. CASE i # b
    BY <1>1, <1>3, <1>4, <2>2, Zenon
  <2> QED BY <2>1, <2>2
<1> QED BY <1>1, <1>3, <1>4, <1>5, Zenon DEF BlocksOK, cs

LEMMA EmitIfOpenKeeps ==
  ASSUME NEW n, NEW bs, BlocksOK(bs, n), NEW b \in 2 .. Len(bs), NEW code, CodeOK(code, n)
  PROVE  BlocksOK(EmitIfOpen(bs, b, code), n) /\ Len(EmitIfOpen(bs, b, code)) = Len(bs)
BY EmitKeeps, Zenon DEF EmitIfOpen

(* The code whose last instruction is a terminator. *)
LEMMA EndsTerminated ==
  ASSUME NEW c \in Seq(Instruction), NEW d \in Seq(Instruction), Terminated(d)
  PROVE  Terminated(c \o d)
<1> DEFINE e == c \o d
<1>1. Len(d) \in Nat /\ Len(c) \in Nat /\ d # <<>> /\ d[Len(d)].op \in Terminators
  BY DEF Terminated
<1>2. Len(d) \in 1 .. Len(d)
  BY <1>1
<1>3. e \in Seq(Instruction) /\ Len(e) = Len(c) + Len(d)
      /\ \A i \in 1 .. Len(d) : e[Len(c) + i] = d[i]
  BY Joining
<1>4. e[Len(e)] = d[Len(d)]
  BY <1>2, <1>3, Zenon
<1>5. Len(e) >= 1
  BY <1>1, <1>2, <1>3
<1> HIDE DEF e
<1>6. e # <<>>
  BY <1>3, <1>5
<1>7. Terminated(e)
  BY <1>1, <1>4, <1>6, Zenon DEF Terminated
<1> QED BY <1>7 DEF e

LEMMA JumpsTerminate ==
  ASSUME NEW op \in Terminators, NEW x, x.op = op
  PROVE  Terminated(<<x>>)
BY DEF Terminated

(* The blocks with a terminator, and what they become. *)
Done(bs) == {b \in 1 .. Len(bs) : Terminated(bs[b])}

LEMMA NewDone ==
  ASSUME NEW n, NEW bs, BlocksOK(bs, n)
  PROVE  Done(bs) \subseteq Done(New(bs))
<1>1. bs \in Seq(Seq(Instruction)) /\ Len(bs) \in Nat
  BY DEF BlocksOK
<1>2. Len(New(bs)) = Len(bs) + 1 /\ \A b \in 1 .. Len(bs) : New(bs)[b] = bs[b]
  BY <1>1, NewFacts
<1>3. \A b \in 1 .. Len(bs) : b \in 1 .. Len(New(bs))
  BY <1>1, <1>2
<1> QED BY <1>2, <1>3, Zenon DEF Done

LEMMA EmitDone ==
  ASSUME NEW n, NEW bs, BlocksOK(bs, n), NEW b \in 2 .. Len(bs), NEW code, CodeOK(code, n)
  PROVE  /\ Done(bs) \ {b} \subseteq Done(Emit(bs, b, code))
         /\ Terminated(code) => b \in Done(Emit(bs, b, code))
<1>1. bs \in Seq(Seq(Instruction)) /\ code \in Seq(Instruction) /\ b \in 1 .. Len(bs)
  BY DEF BlocksOK, CodeOK
<1>2. bs[b] \in Seq(Instruction)
  BY <1>1
<1>3. /\ Len(Emit(bs, b, code)) = Len(bs)
      /\ \A i \in 1 .. Len(bs) : i # b => Emit(bs, b, code)[i] = bs[i]
      /\ Emit(bs, b, code)[b] = bs[b] \o code
  BY <1>1, EmitFacts
<1>4. Terminated(code) => Terminated(bs[b] \o code)
  BY <1>1, <1>2, EndsTerminated
<1> QED BY <1>1, <1>3, <1>4, Zenon DEF Done

LEMMA EmitIfOpenDone ==
  ASSUME NEW n, NEW bs, BlocksOK(bs, n), NEW b \in 2 .. Len(bs), NEW code, CodeOK(code, n),
         Terminated(code)
  PROVE  Done(bs) \cup {b} \subseteq Done(EmitIfOpen(bs, b, code))
<1>1. CASE Terminated(bs[b])
  <2>1. b \in 1 .. Len(bs)
    BY DEF BlocksOK
  <2>2. b \in Done(bs)
    BY <1>1, <2>1, Zenon DEF Done
  <2> QED BY <1>1, <2>2, Zenon DEF EmitIfOpen
<1>2. CASE ~Terminated(bs[b])
  <2>1. EmitIfOpen(bs, b, code) = Emit(bs, b, code)
    BY <1>2 DEF EmitIfOpen
  <2>2. Done(bs) \ {b} \subseteq Done(Emit(bs, b, code)) /\ b \in Done(Emit(bs, b, code))
    BY EmitDone
  <2> QED BY <2>1, <2>2
<1> QED BY <1>1, <1>2


LEMMA JoinedFacts ==
  ASSUME NEW n \in Nat, NEW bs, BlocksOK(bs, n), NEW dones, NEW from \in 2 .. Len(bs),
         dones \subseteq 2 .. Len(bs), Len(bs) + 1 \in 2 .. n
  PROVE  /\ BlocksOK(Joined(bs, dones, from), n) /\ Len(Joined(bs, dones, from)) = Len(bs) + 1
         /\ Done(bs) \cup dones \cup {from} \subseteq Done(Joined(bs, dones, from))
<1> DEFINE end == Len(bs) + 1
           br == <<Br(end)>>
           joins(b) == b = from \/ (b \in dones /\ ~Terminated(bs[b]))
           cs == [b \in DOMAIN bs |-> IF joins(b) THEN bs[b] \o br ELSE bs[b]]
<1>1. /\ bs \in Seq(Seq(Instruction)) /\ Len(bs) \in Nat /\ Len(bs) >= 2 /\ bs[1] = Entry
      /\ \A b \in 2 .. Len(bs) : CodeOK(bs[b], n)
  BY DEF BlocksOK
<1>2. CodeOK(br, n) /\ br \in Seq(Instruction) /\ Terminated(br)
  <2>1. CodeOK(br, n)
    BY BrCode
  <2>2. br \in Seq(Instruction)
    BY <2>1, Zenon DEF CodeOK
  <2>3. Terminated(br)
    BY JumpsTerminate DEF Br, Terminators
  <2> QED BY <2>1, <2>2, <2>3
<1>3. Joined(bs, dones, from) = New(cs)
  BY Zenon DEF Joined
<1>4. DOMAIN bs = 1 .. Len(bs) /\ \A b \in 1 .. Len(bs) : bs[b] \in Seq(Instruction)
  BY <1>1
<1> HIDE DEF br
<1>5. \A b \in 1 .. Len(bs) : bs[b] \o br \in Seq(Instruction)
  BY <1>2, <1>4, Joining
<1>6. /\ DOMAIN cs = 1 .. Len(bs)
      /\ \A b \in 1 .. Len(bs) : cs[b] = IF joins(b) THEN bs[b] \o br ELSE bs[b]
  BY <1>4, Zenon
<1> HIDE DEF cs, joins
<1>7. \A b \in 1 .. Len(bs) : cs[b] \in Seq(Instruction)
  BY <1>4, <1>5, <1>6, Zenon
<1>8. cs \in Seq(Seq(Instruction)) /\ Len(cs) = Len(bs)
  <2> DEFINE T == Seq(Instruction)
  <2>1. cs = [b \in 1 .. Len(bs) |-> cs[b]]
    BY <1>4, <1>6 DEF cs
  <2>2. \A b \in 1 .. Len(bs) : cs[b] \in T
    BY <1>7
  <2> HIDE DEF T
  <2>3. cs \in Seq(T) /\ Len(cs) = Len(bs)
    BY <1>1, <2>1, <2>2
  <2> QED BY <2>3 DEF T
<1>9. ~joins(1)
  BY DEF joins
<1>10. \A b \in 2 .. Len(bs) : b \in 1 .. Len(bs)
  OBVIOUS
<1>11. ASSUME NEW b \in 2 .. Len(bs) PROVE CodeOK(cs[b], n)
  <2>1. CASE joins(b)
    BY <1>1, <1>2, <1>6, <1>10, <2>1, CodeJoined, Zenon
  <2>2. CASE ~joins(b)
    BY <1>1, <1>6, <1>10, <2>2, Zenon
  <2> QED BY <2>1, <2>2
<1>12. cs[1] = Entry
  <2>1. 1 \in 1 .. Len(bs)
    BY <1>1
  <2> QED BY <1>1, <1>6, <1>9, <2>1, Zenon
<1>13. BlocksOK(cs, n)
  BY <1>1, <1>8, <1>11, <1>12, Zenon DEF BlocksOK
<1>14. BlocksOK(New(cs), n) /\ Len(New(cs)) = Len(cs) + 1 /\ Done(cs) \subseteq Done(New(cs))
  BY <1>13, NewKeeps, NewDone, Zenon
<1>15. ASSUME NEW b \in Done(bs) \cup dones \cup {from} PROVE b \in Done(cs)
  <2>1. b \in 1 .. Len(bs)
    BY <1>10 DEF Done
  <2>2. CASE joins(b)
    <3>1. bs[b] \in Seq(Instruction)
      BY <1>4, <2>1, Zenon
    <3>2. Terminated(bs[b] \o br)
      BY <1>2, <3>1, EndsTerminated
    <3>3. Terminated(cs[b])
      BY <1>6, <2>1, <2>2, <3>2, Zenon
    <3> QED BY <1>8, <2>1, <3>3, Zenon DEF Done
  <2>3. CASE ~joins(b)
    <3>1. Terminated(bs[b])
      BY <1>15, <2>3, Zenon DEF joins, Done
    <3>2. Terminated(cs[b])
      BY <1>6, <2>1, <2>3, <3>1, Zenon
    <3> QED BY <1>8, <2>1, <3>2, Zenon DEF Done
  <2> QED BY <2>2, <2>3
<1> QED BY <1>3, <1>8, <1>14, <1>15

-----------------------------------------------------------------------------
(* The statements that are being built. *)

Guarding == {"if", "loop", "twig"}

FrameOK(f, n) ==
  /\ f \in Frame
  /\ f.kind \in Guarding => f.eval \in 2 .. n /\ f.start \in 2 .. n
  /\ f.dones \subseteq 2 .. n
  /\ f.kind \in {"if", "loop", "block"} => f.dones = {}

(* The blocks that the end of a statement will terminate. *)
Awaits(f, b) == (f.kind \in Guarding /\ b = f.eval) \/ b \in f.dones

OpenOK(fs, n) == fs \in Seq(Frame) /\ \A i \in 1 .. Len(fs) : FrameOK(fs[i], n)

Awaited(fs, b) == \E i \in 1 .. Len(fs) : Awaits(fs[i], b)

LEMMA FrameWidened ==
  ASSUME NEW n \in Nat, NEW m \in Nat, n <= m, NEW f, FrameOK(f, n)
  PROVE  FrameOK(f, m)
<1>1. 2 .. n \subseteq 2 .. m
  OBVIOUS
<1> QED BY <1>1 DEF FrameOK

LEMMA Pushed ==
  ASSUME NEW n \in Nat, NEW m \in Nat, n <= m, NEW fs, OpenOK(fs, n), NEW f, FrameOK(f, m)
  PROVE  /\ OpenOK(Append(fs, f), m)
         /\ \A b : Awaited(fs, b) \/ Awaits(f, b) => Awaited(Append(fs, f), b)
<1> DEFINE gs == Append(fs, f)
<1>1. fs \in Seq(Frame) /\ f \in Frame
  BY Zenon DEF OpenOK, FrameOK
<1>2. /\ gs \in Seq(Frame) /\ Len(gs) = Len(fs) + 1
      /\ \A i \in 1 .. Len(fs) : gs[i] = fs[i]
      /\ gs[Len(fs) + 1] = f
  BY <1>1, AppendProperties
<1>3. Len(fs) \in Nat
  BY <1>1
<1> HIDE DEF gs
<1>4. ASSUME NEW i \in 1 .. Len(gs) PROVE FrameOK(gs[i], m)
  <2>1. CASE i \in 1 .. Len(fs)
    <3>1. FrameOK(fs[i], n)
      BY <2>1, Zenon DEF OpenOK
    <3>2. FrameOK(fs[i], m)
      BY <3>1, FrameWidened
    <3> QED BY <1>2, <2>1, <3>2, Zenon
  <2>2. CASE i = Len(fs) + 1
    BY <1>2, <2>2, Zenon
  <2> QED BY <1>2, <1>3, <2>1, <2>2
<1>5. OpenOK(gs, m)
  BY <1>2, <1>4, Zenon DEF OpenOK
<1>6. /\ \A i \in 1 .. Len(fs) : i \in 1 .. Len(gs)
      /\ Len(fs) + 1 \in 1 .. Len(gs)
  BY <1>2, <1>3
<1>7. \A b : Awaited(fs, b) \/ Awaits(f, b) => Awaited(gs, b)
  BY <1>2, <1>6, Zenon DEF Awaited
<1> QED BY <1>5, <1>7 DEF gs

LEMMA Popped ==
  ASSUME NEW n, NEW fs, OpenOK(fs, n), fs # <<>>
  PROVE  /\ OpenOK(SubSeq(fs, 1, Len(fs) - 1), n) /\ FrameOK(fs[Len(fs)], n)
         /\ \A b : Awaited(fs, b) =>
              Awaited(SubSeq(fs, 1, Len(fs) - 1), b) \/ Awaits(fs[Len(fs)], b)
<1> DEFINE k == Len(fs) - 1
           gs == SubSeq(fs, 1, k)
<1>1. fs \in Seq(Frame) /\ Len(fs) \in Nat /\ Len(fs) >= 1
  BY DEF OpenOK
<1>2. k \in Nat /\ \A i \in 1 .. k : i \in 1 .. Len(fs)
  BY <1>1
<1>3. gs \in Seq(Frame) /\ Len(gs) = k /\ \A i \in 1 .. k : gs[i] = fs[i]
  <2>1. k \in 0 .. Len(fs)
    BY <1>1
  <2> QED BY <1>1, <2>1, UpTo
<1>4. Len(fs) \in 1 .. Len(fs) /\ \A i \in 1 .. Len(fs) : i \in 1 .. k \/ i = Len(fs)
  BY <1>1
<1> HIDE DEF gs, k
<1>5. OpenOK(gs, n)
  BY <1>2, <1>3, Zenon DEF OpenOK
<1>6. FrameOK(fs[Len(fs)], n)
  BY <1>4, Zenon DEF OpenOK
<1>7. \A b : Awaited(fs, b) => Awaited(gs, b) \/ Awaits(fs[Len(fs)], b)
  BY <1>3, <1>4, Zenon DEF Awaited
<1> QED BY <1>5, <1>6, <1>7 DEF gs, k
-----------------------------------------------------------------------------
(* The tokens. *)

LEMMA WrittenTyped ==
  ASSUME body \in Seq(Token), NEW kind \in Kinds, NEW to \in Nat, NEW reads \in Nat
  PROVE  Written(kind, to, reads) \in Seq(Token) /\ Len(Written(kind, to, reads)) = Len(body) + 1
<1> DEFINE x == [kind |-> kind, to |-> to, reads |-> reads]
<1>1. x \in Token
  BY DEF Token
<1>2. Written(kind, to, reads) = Append(body, x)
  BY DEF Written
<1> HIDE DEF x
<1> QED BY <1>1, <1>2, AppendProperties

LEMMA LinkedTyped ==
  ASSUME body \in Seq(Token), NEW kind \in Kinds, NEW to \in Nat
  PROVE  Linked(kind, to) \in Seq(Token)
<1> DEFINE s == Written(kind, to, 0)
           k == Top.at
           x == [s[k] EXCEPT !.to = Here]
<1>1. s \in Seq(Token) /\ Len(body) \in Nat
  BY WrittenTyped
<1>2. Linked(kind, to) = [s EXCEPT ![k] = x]
  BY Zenon DEF Linked
<1> HIDE DEF s, k
<1>3. CASE k \in 1 .. Len(s)
  <2>1. s[k] \in Token
    BY <1>1, <1>3
  <2>2. Here \in Nat
    BY <1>1 DEF Here
  <2>3. x \in Token
    BY <2>1, <2>2 DEF Token
  <2> HIDE DEF x
  <2> QED BY <1>1, <1>2, <1>3, <2>3, ExceptSeq
<1>4. CASE k \notin 1 .. Len(s)
  <2>1. s = [i \in 1 .. Len(s) |-> s[i]]
    BY <1>1
  <2>2. [s EXCEPT ![k] = x] = s
    BY <1>4, <2>1
  <2> QED BY <1>1, <1>2, <2>2
<1> QED BY <1>3, <1>4

-----------------------------------------------------------------------------
(* While a function is built, a block without a terminator is the current one or awaited by *)
(* the end of a statement.                                                                  *)

NoneForgotten(bs, b0, fs) == \A b \in 2 .. Len(bs) : b \in Done(bs) \/ b = b0 \/ Awaited(fs, b)

BuildInv ==
  /\ body \in Seq(Token)
  /\ BlocksOK(blocks, Len(blocks))
  /\ insert \in 2 .. Len(blocks)
  /\ OpenOK(open, Len(blocks))
  /\ phase = "build" => NoneForgotten(blocks, insert, open)
  /\ BlocksTerminated

LEMMA Sizes ==
  ASSUME BuildInv
  PROVE  /\ Len(blocks) \in Nat /\ Len(blocks) >= 2
         /\ insert \in 2 .. Len(blocks)
         /\ Here \in Nat /\ Here # 0
<1>1. body \in Seq(Token) /\ blocks \in Seq(Seq(Instruction)) /\ Len(blocks) >= 2
  BY DEF BuildInv, BlocksOK
<1>2. Len(body) \in Nat
  BY <1>1
<1>3. Here \in Nat /\ Here # 0
  BY <1>2 DEF Here
<1>4. insert \in 2 .. Len(blocks)
  BY Zenon DEF BuildInv
<1> QED BY <1>1, <1>3, <1>4

LEMMA StillBuilding ==
  ASSUME body' \in Seq(Token), BlocksOK(blocks', Len(blocks')), insert' \in 2 .. Len(blocks'),
         OpenOK(open', Len(blocks')), phase' = "build", NoneForgotten(blocks', insert', open')
  PROVE  BuildInv'
BY DEF BuildInv, BlocksTerminated

LEMMA OpenedOK ==
  ASSUME NEW n, NEW eval \in Nat, NEW start \in Nat, Here \in Nat,
         NEW kind \in {"if", "loop", "block", "branch", "twig", "otherwise"},
         kind \in Guarding => eval \in 2 .. n /\ start \in 2 .. n
  PROVE  FrameOK(Opened(kind, eval, start), n)
<1> DEFINE f == Opened(kind, eval, start)
<1>1. f = [kind |-> kind, at |-> Here, eval |-> eval, start |-> start, dones |-> {}]
  BY DEF Opened
<1>2. f \in Frame /\ f.kind = kind /\ f.eval = eval /\ f.start = start /\ f.dones = {}
  BY <1>1 DEF Frame
<1> HIDE DEF f
<1>3. FrameOK(f, n)
  BY <1>2 DEF FrameOK
<1> QED BY <1>3 DEF f

(* Instructions are added to the current block. *)
LEMMA Appending ==
  ASSUME BuildInv, phase = "build", UNCHANGED <<open, insert, phase>>,
         NEW code, CodeOK(code, Len(blocks)), blocks' = Emit(blocks, insert, code),
         body' \in Seq(Token)
  PROVE  BuildInv'
<1>1. insert \in 2 .. Len(blocks) /\ BlocksOK(blocks, Len(blocks)) /\ OpenOK(open, Len(blocks))
      /\ NoneForgotten(blocks, insert, open)
  BY Zenon DEF BuildInv
<1>2. BlocksOK(blocks', Len(blocks)) /\ Len(blocks') = Len(blocks)
  BY <1>1, EmitKeeps
<1>3. Done(blocks) \ {insert} \subseteq Done(blocks')
  BY <1>1, EmitDone
<1>4. NoneForgotten(blocks', insert, open)
  BY <1>1, <1>2, <1>3 DEF NoneForgotten
<1> QED BY <1>1, <1>2, <1>4, StillBuilding

(* Statements are opened or closed without a change to the blocks. *)
LEMMA Reframing ==
  ASSUME BuildInv, phase = "build", UNCHANGED <<blocks, insert, phase>>,
         body' \in Seq(Token), OpenOK(open', Len(blocks)),
         \A b : Awaited(open, b) => Awaited(open', b)
  PROVE  BuildInv'
<1>1. NoneForgotten(blocks, insert, open')
  BY DEF BuildInv, NoneForgotten
<1>2. insert \in 2 .. Len(blocks) /\ BlocksOK(blocks, Len(blocks))
  BY Zenon DEF BuildInv
<1> QED BY <1>1, <1>2, StillBuilding

LEMMA BuildSimpleKeeps ==
  ASSUME BuildInv, BuildSimple
  PROVE  BuildInv'
<1>1. phase = "build" /\ UNCHANGED <<open, insert, phase>>
      /\ blocks' = Emit(blocks, insert, <<Plain("eval", Here)>>)
  BY DEF BuildSimple, InBlock
<1>2. PICK d \in Visible \cup {0} : body' = Written("do", 0, d)
  BY DEF BuildSimple
<1>3. body \in Seq(Token)
  BY DEF BuildInv
<1>4. d \in Nat
  BY <1>3 DEF Visible
<1>5. body' \in Seq(Token)
  BY <1>2, <1>3, <1>4, WrittenTyped DEF Kinds
<1>6. CodeOK(<<Plain("eval", Here)>>, Len(blocks))
  BY Sizes, PlainCode
<1> QED BY <1>1, <1>5, <1>6, Appending

LEMMA BuildDeclarationKeeps ==
  ASSUME BuildInv, BuildDeclaration
  PROVE  BuildInv'
<1>1. phase = "build" /\ UNCHANGED <<open, insert, phase>>
      /\ blocks' = Emit(blocks, insert, <<Plain("alloca", Here), Plain("eval", Here)>>)
      /\ body' = Written("let", 0, 0)
  BY DEF BuildDeclaration, InBlock
<1>2. body' \in Seq(Token)
  BY <1>1, WrittenTyped DEF Kinds, BuildInv
<1>3. CodeOK(<<Plain("alloca", Here), Plain("eval", Here)>>, Len(blocks))
  <2> DEFINE x == Plain("alloca", Here)
             y == Plain("eval", Here)
  <2>1. CodeOK(<<x>>, Len(blocks)) /\ CodeOK(<<y>>, Len(blocks))
    BY Sizes, PlainCode
  <2>2. CodeOK(<<x>> \o <<y>>, Len(blocks))
    BY <2>1, CodeJoined
  <2>a. x \in Instruction /\ y \in Instruction
    BY Sizes DEF Plain, Instruction, Terminators
  <2> HIDE DEF x, y
  <2>3. <<x>> \o <<y>> = <<x, y>>
    BY <2>a, Pair
  <2>4. CodeOK(<<x, y>>, Len(blocks))
    BY <2>2, <2>3
  <2> QED BY <2>4 DEF x, y
<1> QED BY <1>1, <1>2, <1>3, Appending

LEMMA BuildReturnKeeps ==
  ASSUME BuildInv, BuildReturn
  PROVE  BuildInv'
<1>1. phase = "build" /\ UNCHANGED <<open, insert, phase>>
      /\ blocks' = Emit(blocks, insert, GiveBack \o <<Plain("eval", Here), Plain("ret", Here)>>)
  BY DEF BuildReturn, InBlock
<1>2. PICK d \in Visible \cup {0} : body' = Written("ret", 0, d)
  BY DEF BuildReturn
<1>3. body \in Seq(Token)
  BY DEF BuildInv
<1>4. d \in Nat
  BY <1>3 DEF Visible
<1>5. body' \in Seq(Token)
  BY <1>2, <1>3, <1>4, WrittenTyped DEF Kinds
<1>6. CodeOK(GiveBack \o <<Plain("eval", Here), Plain("ret", Here)>>, Len(blocks))
  BY Sizes, ReturnCode
<1> QED BY <1>1, <1>5, <1>6, Appending

LEMMA OpenBlockKeeps ==
  ASSUME BuildInv, OpenBlock \/ OpenBranch
  PROVE  BuildInv'
<1>1. /\ phase = "build" /\ UNCHANGED <<blocks, insert, phase>>
      /\ \E kind \in {"block", "branch"} :
           body' = Written(kind, 0, 0) /\ open' = Append(open, Opened(kind, 0, 0))
  BY DEF OpenBlock, OpenBranch, InBlock
<1>2. PICK kind \in {"block", "branch"} :
           body' = Written(kind, 0, 0) /\ open' = Append(open, Opened(kind, 0, 0))
  BY <1>1
<1>3. body' \in Seq(Token)
  BY <1>2, WrittenTyped DEF Kinds, BuildInv
<1>4. FrameOK(Opened(kind, 0, 0), Len(blocks))
  BY Sizes, OpenedOK DEF Guarding
<1>5. OpenOK(open, Len(blocks)) /\ Len(blocks) \in Nat
  BY Sizes, Zenon DEF BuildInv
<1>6. OpenOK(open', Len(blocks)) /\ \A b : Awaited(open, b) => Awaited(open', b)
  BY <1>2, <1>4, <1>5, Pushed
<1> QED BY <1>1, <1>3, <1>6, Reframing

LEMMA CloseBlockKeeps ==
  ASSUME BuildInv, CloseBlock
  PROVE  BuildInv'
<1>1. /\ phase = "build" /\ UNCHANGED <<blocks, insert, phase>>
      /\ open # <<>> /\ Top.kind = "block" /\ body' = Linked("end", 0) /\ open' = Below
  BY DEF CloseBlock, InBlockOf
<1>2. body' \in Seq(Token)
  BY <1>1, LinkedTyped DEF Kinds, BuildInv
<1>3. OpenOK(open, Len(blocks))
  BY Zenon DEF BuildInv
<1>4. /\ OpenOK(Below, Len(blocks)) /\ FrameOK(Top, Len(blocks))
      /\ \A b : Awaited(open, b) => Awaited(Below, b) \/ Awaits(Top, b)
  BY <1>1, <1>3, Popped DEF Below, Top
<1>5. \A b : ~Awaits(Top, b)
  BY <1>1, <1>4 DEF Awaits, FrameOK, Guarding
<1>6. \A b : Awaited(open, b) => Awaited(open', b)
  BY <1>1, <1>4, <1>5, Zenon
<1> QED BY <1>1, <1>2, <1>4, <1>6, Reframing


(* A block that guards and a block that it guards come after the current one, which then    *)
(* has its terminator.                                                                      *)
LEMMA Guarded ==
  ASSUME BuildInv, phase = "build", NEW n, n = Len(blocks),
         NEW bs, bs = New(Emit(New(Emit(blocks, insert, <<Br(n + 1)>>)), n + 1, <<Plain("eval", Here)>>))
  PROVE  /\ BlocksOK(bs, n + 2) /\ Len(bs) = n + 2 /\ n \in Nat /\ n >= 2
         /\ OpenOK(open, n)
         /\ \A b \in 2 .. n : b \in Done(bs) \/ Awaited(open, b)
<1>1. n \in Nat /\ n >= 2 /\ insert \in 2 .. n /\ Here \in Nat
  BY Sizes
<1>2. BlocksOK(blocks, n) /\ OpenOK(open, n) /\ NoneForgotten(blocks, insert, open)
  BY Zenon DEF BuildInv
<1>3. n + 2 \in Nat /\ n <= n + 2 /\ n + 1 \in 2 .. n + 2 /\ n + 1 \in 2 .. n + 1
  BY <1>1
<1>4. BlocksOK(blocks, n + 2)
  BY <1>1, <1>2, <1>3, BlocksWidened
<1> DEFINE c1 == <<Br(n + 1)>>
           c2 == <<Plain("eval", Here)>>
           b1 == Emit(blocks, insert, c1)
           b2 == New(b1)
           b3 == Emit(b2, n + 1, c2)
<1>5. CodeOK(c1, n + 2) /\ Terminated(c1)
  BY <1>3, BrCode, JumpsTerminate DEF Br, Terminators
<1>6. CodeOK(c2, n + 2)
  BY <1>1, PlainCode
<1>7. bs = New(b3)
  OBVIOUS
<1> HIDE DEF c1, c2
<1>8. /\ BlocksOK(b1, n + 2) /\ Len(b1) = n
      /\ Done(blocks) \subseteq Done(b1) /\ insert \in Done(b1)
  <2>1. BlocksOK(b1, n + 2) /\ Len(b1) = n
    BY <1>1, <1>4, <1>5, EmitKeeps
  <2>2. Done(blocks) \ {insert} \subseteq Done(b1) /\ insert \in Done(b1)
    BY <1>1, <1>4, <1>5, EmitDone
  <2> QED BY <2>1, <2>2
<1> HIDE DEF b1
<1>9. BlocksOK(b2, n + 2) /\ Len(b2) = n + 1 /\ Done(b1) \subseteq Done(b2)
  BY <1>8, NewKeeps, NewDone
<1> HIDE DEF b2
<1>10. BlocksOK(b3, n + 2) /\ Len(b3) = n + 1 /\ Done(b2) \ {n + 1} \subseteq Done(b3)
  <2>1. n + 1 \in 2 .. Len(b2)
    BY <1>3, <1>9
  <2> QED BY <1>6, <1>9, <2>1, EmitKeeps, EmitDone
<1> HIDE DEF b3
<1>11. BlocksOK(bs, n + 2) /\ Len(bs) = n + 1 + 1 /\ Done(b3) \subseteq Done(bs)
  BY <1>7, <1>10, NewKeeps, NewDone
<1>12. ASSUME NEW b \in 2 .. n PROVE b \in Done(bs) \/ Awaited(open, b)
  <2>1. b # n + 1
    BY <1>1
  <2>2. b \in Done(blocks) \/ b = insert \/ Awaited(open, b)
    BY <1>2 DEF NoneForgotten
  <2> QED BY <1>8, <1>9, <1>10, <1>11, <2>1, <2>2
<1>13. Len(bs) = n + 2
  BY <1>1, <1>11
<1> QED BY <1>1, <1>2, <1>11, <1>12, <1>13

(* The statement that awaits the guarding block is pushed. *)
LEMMA GuardPushed ==
  ASSUME NEW n \in Nat, n >= 2, NEW bs, Len(bs) = n + 2, OpenOK(open, n),
         \A b \in 2 .. n : b \in Done(bs) \/ Awaited(open, b),
         NEW f, FrameOK(f, n + 2), Awaits(f, n + 1)
  PROVE  OpenOK(Append(open, f), n + 2) /\ NoneForgotten(bs, n + 2, Append(open, f))
<1>1. /\ OpenOK(Append(open, f), n + 2)
      /\ \A b : Awaited(open, b) \/ Awaits(f, b) => Awaited(Append(open, f), b)
  BY Pushed
<1>2. \A b \in 2 .. n + 2 : b \in 2 .. n \/ b = n + 1 \/ b = n + 2
  OBVIOUS
<1>3. NoneForgotten(bs, n + 2, Append(open, f))
  BY <1>1, <1>2 DEF NoneForgotten
<1> QED BY <1>1, <1>3

LEMMA GuardFrame ==
  ASSUME NEW n \in Nat, n >= 2, NEW kind \in {"if", "loop"}, Here \in Nat
  PROVE  FrameOK(Opened(kind, n + 1, n + 2), n + 2) /\ Awaits(Opened(kind, n + 1, n + 2), n + 1)
<1>1. FrameOK(Opened(kind, n + 1, n + 2), n + 2)
  <2>1. n + 1 \in 2 .. n + 2 /\ n + 2 \in 2 .. n + 2 /\ n + 1 \in Nat /\ n + 2 \in Nat
    OBVIOUS
  <2>2. kind \in {"if", "loop", "block", "branch", "twig", "otherwise"}
    OBVIOUS
  <2> QED BY <2>1, <2>2, OpenedOK, Zenon
<1>2. Opened(kind, n + 1, n + 2).kind = kind /\ Opened(kind, n + 1, n + 2).eval = n + 1
  BY DEF Opened
<1>3. Awaits(Opened(kind, n + 1, n + 2), n + 1)
  BY <1>2 DEF Awaits, Guarding
<1> QED BY <1>1, <1>3

LEMMA OpenConditionalKeeps ==
  ASSUME BuildInv, OpenConditional
  PROVE  BuildInv'
<1> DEFINE n == Len(blocks)
           f == Opened("if", n + 1, n + 2)
<1>1. /\ phase = "build" /\ phase' = phase /\ body' = Written("if", 0, 0)
      /\ blocks' = New(Emit(New(Emit(blocks, insert, <<Br(n + 1)>>)), n + 1, <<Plain("eval", Here)>>))
      /\ insert' = n + 2 /\ open' = Append(open, f)
  BY DEF OpenConditional, InBlock
<1>2. body' \in Seq(Token)
  <2>1. body \in Seq(Token)
    BY Zenon DEF BuildInv
  <2>2. "if" \in Kinds /\ "loop" \in Kinds /\ 0 \in Nat
    BY DEF Kinds, Conditions
  <2> QED BY <1>1, <2>1, <2>2, WrittenTyped, Zenon
<1>3. /\ BlocksOK(blocks', n + 2) /\ Len(blocks') = n + 2 /\ n \in Nat /\ n >= 2 /\ OpenOK(open, n)
      /\ \A b \in 2 .. n : b \in Done(blocks') \/ Awaited(open, b)
  BY <1>1, Guarded
<1>4. FrameOK(f, n + 2) /\ Awaits(f, n + 1)
  BY <1>3, GuardFrame, Sizes
<1> HIDE DEF f, n
<1>5. OpenOK(open', n + 2) /\ NoneForgotten(blocks', n + 2, open')
  BY <1>1, <1>3, <1>4, GuardPushed
<1>6. n + 2 \in 2 .. n + 2
  BY <1>3
<1> QED BY <1>1, <1>2, <1>3, <1>5, <1>6, StillBuilding

LEMMA OpenLoopKeeps ==
  ASSUME BuildInv, OpenLoop
  PROVE  BuildInv'
<1> DEFINE n == Len(blocks)
           f == Opened("loop", n + 1, n + 2)
           bs == New(Emit(New(Emit(blocks, insert, <<Br(n + 1)>>)), n + 1, <<Plain("eval", Here)>>))
           save == <<Plain("save", Here)>>
<1>1. /\ phase = "build" /\ phase' = phase /\ body' = Written("loop", 0, 0)
      /\ blocks' = Emit(bs, n + 2, save)
      /\ insert' = n + 2 /\ open' = Append(open, f)
  BY DEF OpenLoop, InBlock
<1>2. body' \in Seq(Token)
  <2>1. body \in Seq(Token)
    BY Zenon DEF BuildInv
  <2>2. "if" \in Kinds /\ "loop" \in Kinds /\ 0 \in Nat
    BY DEF Kinds, Conditions
  <2> QED BY <1>1, <2>1, <2>2, WrittenTyped, Zenon
<1>3. /\ BlocksOK(bs, n + 2) /\ Len(bs) = n + 2 /\ n \in Nat /\ n >= 2 /\ OpenOK(open, n)
      /\ \A b \in 2 .. n : b \in Done(bs) \/ Awaited(open, b)
  BY <1>1, Guarded
<1>4. FrameOK(f, n + 2) /\ Awaits(f, n + 1)
  BY <1>3, GuardFrame, Sizes
<1>5. CodeOK(save, n + 2)
  BY Sizes, PlainCode
<1> HIDE DEF f, n, bs, save
<1>6. n + 2 \in 2 .. n + 2 /\ \A b \in 2 .. n : b # n + 2
  BY <1>3
<1>7. BlocksOK(blocks', n + 2) /\ Len(blocks') = n + 2 /\ Done(bs) \ {n + 2} \subseteq Done(blocks')
  BY <1>1, <1>3, <1>5, <1>6, EmitKeeps, EmitDone
<1>8. \A b \in 2 .. n : b \in Done(blocks') \/ Awaited(open, b)
  BY <1>3, <1>6, <1>7
<1>9. OpenOK(open', n + 2) /\ NoneForgotten(blocks', n + 2, open')
  BY <1>1, <1>3, <1>4, <1>7, <1>8, GuardPushed
<1> QED BY <1>1, <1>2, <1>6, <1>7, <1>9, StillBuilding


LEMMA EmitJump ==
  ASSUME NEW n, NEW bs, BlocksOK(bs, n), NEW b \in 2 .. Len(bs), NEW code, CodeOK(code, n),
         Terminated(code)
  PROVE  /\ BlocksOK(Emit(bs, b, code), n) /\ Len(Emit(bs, b, code)) = Len(bs)
         /\ Done(bs) \cup {b} \subseteq Done(Emit(bs, b, code))
<1>1. Done(bs) \ {b} \subseteq Done(Emit(bs, b, code)) /\ b \in Done(Emit(bs, b, code))
  BY EmitDone
<1> QED BY <1>1, EmitKeeps

LEMMA BrEnds ==
  ASSUME NEW n \in Nat, NEW b \in 2 .. n
  PROVE  CodeOK(<<Br(b)>>, n) /\ Terminated(<<Br(b)>>)
BY BrCode, JumpsTerminate DEF Br, Terminators

LEMMA CondBrEnds ==
  ASSUME NEW n \in Nat, NEW at \in Nat, NEW b \in 2 .. n, NEW d \in 2 .. n
  PROVE  CodeOK(<<CondBr(at, b, d)>>, n) /\ Terminated(<<CondBr(at, b, d)>>)
BY CondBrCode, JumpsTerminate DEF CondBr, Terminators

(* The statement on top of those that are being built. *)
LEMMA TopFacts ==
  ASSUME BuildInv, phase = "build", open # <<>>, NEW n, n = Len(blocks)
  PROVE  /\ n \in Nat /\ n >= 2 /\ insert \in 2 .. n /\ Here \in Nat
         /\ BlocksOK(blocks, n) /\ NoneForgotten(blocks, insert, open)
         /\ OpenOK(Below, n) /\ FrameOK(Top, n)
         /\ \A b : Awaited(open, b) => Awaited(Below, b) \/ Awaits(Top, b)
<1>1. BlocksOK(blocks, n) /\ OpenOK(open, n) /\ NoneForgotten(blocks, insert, open)
  BY Zenon DEF BuildInv
<1>2. /\ OpenOK(Below, n) /\ FrameOK(Top, n)
      /\ \A b : Awaited(open, b) => Awaited(Below, b) \/ Awaits(Top, b)
  BY <1>1, Popped DEF Below, Top
<1> QED BY <1>1, <1>2, Sizes

LEMMA GuardingTop ==
  ASSUME NEW n, NEW f, FrameOK(f, n), f.kind \in Guarding
  PROVE  f.at \in Nat /\ f.eval \in 2 .. n /\ f.start \in 2 .. n /\ f.dones \subseteq 2 .. n
BY DEF FrameOK, Frame

LEMMA BelowWidened ==
  ASSUME NEW n \in Nat, NEW m \in Nat, n <= m, NEW fs, OpenOK(fs, n)
  PROVE  OpenOK(fs, m)
<1>1. \A f : FrameOK(f, n) => FrameOK(f, m)
  BY FrameWidened
<1> QED BY <1>1, Zenon DEF OpenOK

LEMMA CloseConditionalKeeps ==
  ASSUME BuildInv, CloseConditional
  PROVE  BuildInv'
<1> DEFINE n == Len(blocks)
           c1 == <<Br(n + 1)>>
           c2 == <<CondBr(Top.at, Top.start, n + 1)>>
           b1 == New(blocks)
           b2 == EmitIfOpen(b1, insert, c1)
<1>1. /\ phase = "build" /\ phase' = phase /\ open # <<>> /\ Top.kind = "if"
      /\ body' = Linked("end", 0) /\ blocks' = Emit(b2, Top.eval, c2)
      /\ insert' = n + 1 /\ open' = Below
  BY DEF CloseConditional, InBlockOf
<1>2. body' \in Seq(Token)
  BY <1>1, LinkedTyped DEF Kinds, BuildInv
<1>3. /\ n \in Nat /\ n >= 2 /\ insert \in 2 .. n
      /\ BlocksOK(blocks, n) /\ NoneForgotten(blocks, insert, open)
      /\ OpenOK(Below, n) /\ FrameOK(Top, n)
      /\ \A b : Awaited(open, b) => Awaited(Below, b) \/ Awaits(Top, b)
  BY <1>1, TopFacts
<1>4. Top.at \in Nat /\ Top.eval \in 2 .. n /\ Top.start \in 2 .. n /\ Top.dones = {}
  BY <1>1, <1>3, GuardingTop DEF Guarding, FrameOK
<1>5. n + 1 \in Nat /\ n <= n + 1 /\ n + 1 \in 2 .. n + 1 /\ 2 .. n \subseteq 2 .. n + 1
  BY <1>3
<1>6. CodeOK(c1, n + 1) /\ Terminated(c1) /\ CodeOK(c2, n + 1) /\ Terminated(c2)
  BY <1>4, <1>5, BrEnds, CondBrEnds
<1>7. BlocksOK(b1, n + 1) /\ Len(b1) = n + 1 /\ Done(blocks) \subseteq Done(b1)
  <2>1. BlocksOK(blocks, n + 1)
    BY <1>3, <1>5, BlocksWidened
  <2> QED BY <2>1, NewKeeps, NewDone
<1> HIDE DEF c1, c2, b1
<1>8. BlocksOK(b2, n + 1) /\ Len(b2) = n + 1 /\ Done(b1) \cup {insert} \subseteq Done(b2)
  <2>1. insert \in 2 .. Len(b1)
    BY <1>3, <1>5, <1>7
  <2> QED BY <1>6, <1>7, <2>1, EmitIfOpenKeeps, EmitIfOpenDone
<1> HIDE DEF b2
<1>9. /\ BlocksOK(blocks', n + 1) /\ Len(blocks') = n + 1
      /\ Done(b2) \cup {Top.eval} \subseteq Done(blocks')
  <2>1. Top.eval \in 2 .. Len(b2)
    BY <1>4, <1>5, <1>8
  <2> QED BY <1>1, <1>6, <1>8, <2>1, EmitJump
<1> HIDE DEF n
<1>10. ASSUME NEW b \in 2 .. n + 1 PROVE b \in Done(blocks') \/ b = n + 1 \/ Awaited(Below, b)
  <2>1. CASE b \in 2 .. n
    <3>1. b \in Done(blocks) \/ b = insert \/ Awaited(open, b)
      BY <1>3, <2>1 DEF NoneForgotten, n
    <3>2. Awaits(Top, b) => b = Top.eval
      BY <1>4 DEF Awaits
    <3> QED BY <1>3, <1>7, <1>8, <1>9, <3>1, <3>2
  <2> QED BY <1>3, <2>1
<1>11. NoneForgotten(blocks', n + 1, Below)
  BY <1>9, <1>10 DEF NoneForgotten
<1>12. OpenOK(Below, n + 1)
  BY <1>3, <1>5, BelowWidened
<1> QED BY <1>1, <1>2, <1>5, <1>9, <1>11, <1>12, StillBuilding

LEMMA TwigDone ==
  ASSUME NEW t \in Frame, NEW b \in Nat,
         NEW f, f = [t EXCEPT !.kind = "branch", !.dones = @ \cup {b}]
  PROVE  f \in Frame /\ f.kind = "branch" /\ f.dones = t.dones \cup {b}
<1>1. /\ t.at \in Nat /\ t.eval \in Nat /\ t.start \in Nat /\ t.dones \cup {b} \subseteq Nat
      /\ t = [kind |-> t.kind, at |-> t.at, eval |-> t.eval, start |-> t.start, dones |-> t.dones]
  BY DEF Frame
<1>2. f = [kind |-> "branch", at |-> t.at, eval |-> t.eval, start |-> t.start,
           dones |-> t.dones \cup {b}]
  BY <1>1
<1>3. f.dones = t.dones \cup {b} /\ f.kind = "branch"
  BY <1>2
<1>4. f \in Frame
  BY <1>1, <1>2 DEF Frame
<1> QED BY <1>3, <1>4

LEMMA CloseTwigKeeps ==
  ASSUME BuildInv, CloseTwig
  PROVE  BuildInv'
<1> DEFINE n == Len(blocks)
           c2 == <<CondBr(Top.at, Top.start, n + 1)>>
           b1 == New(blocks)
           f == [Top EXCEPT !.kind = "branch", !.dones = @ \cup {insert}]
<1>1. /\ phase = "build" /\ phase' = phase /\ open # <<>> /\ Top.kind = "twig"
      /\ body' = body /\ blocks' = Emit(b1, Top.eval, c2)
      /\ insert' = n + 1 /\ open' = Append(Below, f)
  BY DEF CloseTwig, InBlockOf
<1>2. body' \in Seq(Token)
  BY <1>1 DEF BuildInv
<1>3. /\ n \in Nat /\ n >= 2 /\ insert \in 2 .. n
      /\ BlocksOK(blocks, n) /\ NoneForgotten(blocks, insert, open)
      /\ OpenOK(Below, n) /\ FrameOK(Top, n)
      /\ \A b : Awaited(open, b) => Awaited(Below, b) \/ Awaits(Top, b)
  BY <1>1, TopFacts
<1>4. Top.at \in Nat /\ Top.eval \in 2 .. n /\ Top.start \in 2 .. n /\ Top.dones \subseteq 2 .. n
  BY <1>1, <1>3, GuardingTop DEF Guarding
<1>5. n + 1 \in Nat /\ n <= n + 1 /\ n + 1 \in 2 .. n + 1 /\ 2 .. n \subseteq 2 .. n + 1
  BY <1>3
<1>6. CodeOK(c2, n + 1) /\ Terminated(c2)
  BY <1>4, <1>5, CondBrEnds
<1>7. BlocksOK(b1, n + 1) /\ Len(b1) = n + 1 /\ Done(blocks) \subseteq Done(b1)
  <2>1. BlocksOK(blocks, n + 1)
    BY <1>3, <1>5, BlocksWidened
  <2> QED BY <2>1, NewKeeps, NewDone
<1> HIDE DEF c2, b1
<1>8. /\ BlocksOK(blocks', n + 1) /\ Len(blocks') = n + 1
      /\ Done(b1) \cup {Top.eval} \subseteq Done(blocks')
  <2>1. Top.eval \in 2 .. Len(b1)
    BY <1>4, <1>5, <1>7
  <2> QED BY <1>1, <1>6, <1>7, <2>1, EmitJump
<1>9. f \in Frame /\ f.kind = "branch" /\ f.dones = Top.dones \cup {insert}
  <2>1. Top \in Frame
    BY <1>3 DEF FrameOK
  <2>2. insert \in Nat
    BY <1>3
  <2> HIDE DEF n
  <2> QED BY <2>1, <2>2, TwigDone
<1> HIDE DEF f
<1>10. FrameOK(f, n + 1) /\ \A b : b \in Top.dones \cup {insert} => Awaits(f, b)
  BY <1>3, <1>4, <1>5, <1>9 DEF FrameOK, Awaits, Guarding
<1>11. /\ OpenOK(open', n + 1)
       /\ \A b : Awaited(Below, b) \/ Awaits(f, b) => Awaited(open', b)
  BY <1>1, <1>3, <1>5, <1>10, Pushed
<1> HIDE DEF n
<1>12. ASSUME NEW b \in 2 .. n + 1 PROVE b \in Done(blocks') \/ b = n + 1 \/ Awaited(open', b)
  <2>1. CASE b \in 2 .. n
    <3>1. b \in Done(blocks) \/ b = insert \/ Awaited(open, b)
      BY <1>3, <2>1 DEF NoneForgotten, n
    <3>2. Awaits(Top, b) => b = Top.eval \/ b \in Top.dones
      BY DEF Awaits
    <3> QED BY <1>3, <1>7, <1>8, <1>10, <1>11, <3>1, <3>2
  <2> QED BY <1>3, <2>1
<1>13. NoneForgotten(blocks', n + 1, open')
  BY <1>8, <1>12 DEF NoneForgotten
<1> QED BY <1>1, <1>2, <1>5, <1>8, <1>11, <1>13, StillBuilding

(* A twig or an "otherwise" begins in a new block; the current one evaluates the condition, *)
(* or goes there.                                                                           *)
LEMMA BranchGoesOn ==
  ASSUME BuildInv, Between, phase' = phase, NEW n, n = Len(blocks),
         NEW kind \in {"twig", "otherwise"}, body' = Linked(kind, 0),
         NEW code, CodeOK(code, n + 1), kind = "otherwise" => Terminated(code),
         blocks' = Emit(New(blocks), insert, code), insert' = n + 1,
         NEW f, f \in Frame, f.kind = kind, f.dones = Top.dones,
         kind = "twig" => f.eval = insert /\ f.start = n + 1,
         open' = Append(Below, f)
  PROVE  BuildInv'
<1>1. phase = "build" /\ open # <<>> /\ Top.kind = "branch"
  BY DEF Between
<1>2. body' \in Seq(Token)
  <2>1. body \in Seq(Token) /\ kind \in Kinds
    BY DEF BuildInv, Kinds, Conditions
  <2> QED BY <2>1, LinkedTyped
<1>3. /\ n \in Nat /\ n >= 2 /\ insert \in 2 .. n
      /\ BlocksOK(blocks, n) /\ NoneForgotten(blocks, insert, open)
      /\ OpenOK(Below, n) /\ FrameOK(Top, n)
      /\ \A b : Awaited(open, b) => Awaited(Below, b) \/ Awaits(Top, b)
  BY <1>1, TopFacts
<1>4. n + 1 \in Nat /\ n <= n + 1 /\ n + 1 \in 2 .. n + 1 /\ 2 .. n \subseteq 2 .. n + 1
  BY <1>3
<1> DEFINE b1 == New(blocks)
<1>5. BlocksOK(b1, n + 1) /\ Len(b1) = n + 1 /\ Done(blocks) \subseteq Done(b1)
  <2>1. BlocksOK(blocks, n + 1)
    BY <1>3, <1>4, BlocksWidened
  <2> QED BY <2>1, NewKeeps, NewDone
<1> HIDE DEF b1
<1>6. /\ BlocksOK(blocks', n + 1) /\ Len(blocks') = n + 1
      /\ Done(b1) \ {insert} \subseteq Done(blocks')
      /\ kind = "otherwise" => insert \in Done(blocks')
  <2>1. insert \in 2 .. Len(b1) /\ blocks' = Emit(b1, insert, code)
    BY <1>3, <1>4, <1>5 DEF b1
  <2> QED BY <1>5, <2>1, EmitKeeps, EmitDone
<1>7. FrameOK(f, n + 1) /\ \A b : b \in Top.dones \/ (kind = "twig" /\ b = insert) => Awaits(f, b)
  BY <1>3, <1>4 DEF FrameOK, Awaits, Guarding
<1>8. /\ OpenOK(open', n + 1)
      /\ \A b : Awaited(Below, b) \/ Awaits(f, b) => Awaited(open', b)
  BY <1>3, <1>4, <1>7, Pushed
<1>9. ASSUME NEW b \in 2 .. n + 1 PROVE b \in Done(blocks') \/ b = n + 1 \/ Awaited(open', b)
  <2>1. CASE b \in 2 .. n
    <3>1. b \in Done(blocks) \/ b = insert \/ Awaited(open, b)
      BY <1>3, <2>1 DEF NoneForgotten
    <3>2. Awaits(Top, b) => b \in Top.dones
      BY <1>1 DEF Awaits, Guarding
    <3>3. insert \in Done(blocks') \/ Awaited(open', insert)
      BY <1>6, <1>7, <1>8
    <3> QED BY <1>3, <1>5, <1>6, <1>7, <1>8, <3>1, <3>2, <3>3
  <2> QED BY <1>3, <2>1
<1>10. NoneForgotten(blocks', n + 1, open')
  BY <1>6, <1>9 DEF NoneForgotten
<1> QED BY <1>1, <1>2, <1>4, <1>6, <1>8, <1>10, StillBuilding


LEMMA OpenTwigKeeps ==
  ASSUME BuildInv, OpenTwig
  PROVE  BuildInv'
<1> DEFINE n == Len(blocks)
           code == <<Plain("eval", Here)>>
           f == [Opened("twig", insert, n + 1) EXCEPT !.dones = Top.dones]
<1>1. /\ Between /\ phase' = phase /\ body' = Linked("twig", 0)
      /\ blocks' = Emit(New(blocks), insert, code) /\ insert' = n + 1
      /\ open' = Append(Below, f)
  BY DEF OpenTwig
<1>2. n \in Nat /\ n + 1 \in Nat /\ insert \in Nat /\ Here \in Nat
  BY Sizes
<1>3. CodeOK(code, n + 1)
  BY <1>2, PlainCode
<1>4. Top.dones \subseteq Nat
  <2>1. FrameOK(Top, n)
    BY <1>1, TopFacts DEF Between
  <2> QED BY <2>1 DEF FrameOK, Frame
<1>5. f = [kind |-> "twig", at |-> Here, eval |-> insert, start |-> n + 1, dones |-> Top.dones]
  BY DEF Opened
<1> HIDE DEF f, n, code
<1>6. /\ f \in Frame /\ f.kind = "twig" /\ f.dones = Top.dones
      /\ f.eval = insert /\ f.start = n + 1
  BY <1>2, <1>4, <1>5 DEF Frame
<1> QED BY <1>1, <1>3, <1>6, BranchGoesOn, Zenon DEF n

LEMMA OpenOtherwiseKeeps ==
  ASSUME BuildInv, OpenOtherwise
  PROVE  BuildInv'
<1> DEFINE n == Len(blocks)
           code == <<Br(n + 1)>>
           f == [Opened("otherwise", 0, 0) EXCEPT !.dones = Top.dones]
<1>1. /\ Between /\ phase' = phase /\ body' = Linked("otherwise", 0)
      /\ blocks' = Emit(New(blocks), insert, code) /\ insert' = n + 1
      /\ open' = Append(Below, f)
  BY DEF OpenOtherwise
<1>2. n \in Nat /\ n + 1 \in Nat /\ n + 1 \in 2 .. n + 1 /\ Here \in Nat
  BY Sizes
<1>3. CodeOK(code, n + 1) /\ Terminated(code)
  BY <1>2, BrEnds
<1>4. Top.dones \subseteq Nat
  <2>1. FrameOK(Top, n)
    BY <1>1, TopFacts DEF Between
  <2> QED BY <2>1 DEF FrameOK, Frame
<1>5. f = [kind |-> "otherwise", at |-> Here, eval |-> 0, start |-> 0, dones |-> Top.dones]
  BY DEF Opened
<1> HIDE DEF f, n, code
<1>6. f \in Frame /\ f.kind = "otherwise" /\ f.dones = Top.dones
  BY <1>2, <1>4, <1>5 DEF Frame
<1> QED BY <1>1, <1>3, <1>6, BranchGoesOn, Zenon DEF n

LEMMA CloseBranchKeeps ==
  ASSUME BuildInv, CloseBranch
  PROVE  BuildInv'
<1> DEFINE n == Len(blocks)
<1>1. /\ phase = "build" /\ phase' = phase /\ open # <<>> /\ Top.kind = "branch"
      /\ body' = Linked("end", 0) /\ blocks' = Joined(blocks, Top.dones, insert)
      /\ insert' = n + 1 /\ open' = Below
  BY DEF CloseBranch, Between
<1>2. body' \in Seq(Token)
  BY <1>1, LinkedTyped DEF Kinds, BuildInv
<1>3. /\ n \in Nat /\ n >= 2 /\ insert \in 2 .. n
      /\ BlocksOK(blocks, n) /\ NoneForgotten(blocks, insert, open)
      /\ OpenOK(Below, n) /\ FrameOK(Top, n)
      /\ \A b : Awaited(open, b) => Awaited(Below, b) \/ Awaits(Top, b)
  BY <1>1, TopFacts
<1>4. n + 1 \in Nat /\ n <= n + 1 /\ n + 1 \in 2 .. n + 1
  BY <1>3
<1>5. Top.dones \subseteq 2 .. n /\ \A b : Awaits(Top, b) => b \in Top.dones
  BY <1>1, <1>3 DEF FrameOK, Awaits, Guarding
<1>6. /\ BlocksOK(blocks', n + 1) /\ Len(blocks') = n + 1
      /\ Done(blocks) \cup Top.dones \cup {insert} \subseteq Done(blocks')
  <2>1. BlocksOK(blocks, n + 1)
    BY <1>3, <1>4, BlocksWidened
  <2> QED BY <1>1, <1>3, <1>4, <1>5, <2>1, JoinedFacts
<1>7. ASSUME NEW b \in 2 .. n + 1 PROVE b \in Done(blocks') \/ b = n + 1 \/ Awaited(Below, b)
  <2>1. CASE b \in 2 .. n
    <3>1. b \in Done(blocks) \/ b = insert \/ Awaited(open, b)
      BY <1>3, <2>1 DEF NoneForgotten
    <3> QED BY <1>3, <1>5, <1>6, <3>1
  <2> QED BY <1>3, <2>1
<1>8. NoneForgotten(blocks', n + 1, Below)
  BY <1>6, <1>7 DEF NoneForgotten
<1>9. OpenOK(Below, n + 1)
  BY <1>3, <1>4, BelowWidened
<1> HIDE DEF n
<1> QED BY <1>1, <1>2, <1>4, <1>6, <1>8, <1>9, StillBuilding

LEMMA CloseOtherwiseKeeps ==
  ASSUME BuildInv, CloseOtherwise
  PROVE  BuildInv'
<1> DEFINE n == Len(blocks)
           b1 == New(blocks)
           dones == Top.dones \cup {insert}
<1>1. /\ phase = "build" /\ phase' = phase /\ open # <<>> /\ Top.kind = "otherwise"
      /\ body' = Linked("end", 0) /\ blocks' = Joined(b1, dones, n + 1)
      /\ insert' = n + 2 /\ open' = Below
  BY DEF CloseOtherwise, InBlockOf
<1>2. body' \in Seq(Token)
  BY <1>1, LinkedTyped DEF Kinds, BuildInv
<1>3. /\ n \in Nat /\ n >= 2 /\ insert \in 2 .. n
      /\ BlocksOK(blocks, n) /\ NoneForgotten(blocks, insert, open)
      /\ OpenOK(Below, n) /\ FrameOK(Top, n)
      /\ \A b : Awaited(open, b) => Awaited(Below, b) \/ Awaits(Top, b)
  BY <1>1, TopFacts
<1>4. /\ n + 2 \in Nat /\ n <= n + 2 /\ n + 2 \in 2 .. n + 2
      /\ n + 1 \in 2 .. n + 1 /\ n + 1 + 1 = n + 2
  BY <1>3
<1>5. dones \subseteq 2 .. n + 1 /\ \A b : Awaits(Top, b) => b \in dones
  BY <1>1, <1>3 DEF FrameOK, Awaits, Guarding
<1>6. BlocksOK(b1, n + 2) /\ Len(b1) = n + 1 /\ Done(blocks) \subseteq Done(b1)
  <2>1. BlocksOK(blocks, n + 2)
    BY <1>3, <1>4, BlocksWidened
  <2> QED BY <2>1, NewKeeps, NewDone
<1> HIDE DEF b1, n, dones
<1>7. /\ BlocksOK(blocks', n + 2) /\ Len(blocks') = n + 2
      /\ Done(b1) \cup dones \cup {n + 1} \subseteq Done(blocks')
  BY <1>1, <1>4, <1>5, <1>6, JoinedFacts
<1>8. ASSUME NEW b \in 2 .. n + 2 PROVE b \in Done(blocks') \/ b = n + 2 \/ Awaited(Below, b)
  <2>1. CASE b \in 2 .. n
    <3>1. b \in Done(blocks) \/ b = insert \/ Awaited(open, b)
      BY <1>3, <2>1 DEF NoneForgotten, n
    <3>2. insert \in dones
      BY DEF dones
    <3> QED BY <1>3, <1>5, <1>6, <1>7, <3>1, <3>2
  <2>2. b \in 2 .. n \/ b = n + 1 \/ b = n + 2
    BY <1>3
  <2> QED BY <1>7, <2>1, <2>2
<1>9. NoneForgotten(blocks', n + 2, Below)
  BY <1>7, <1>8 DEF NoneForgotten
<1>10. OpenOK(Below, n + 2)
  BY <1>3, <1>4, BelowWidened
<1> QED BY <1>1, <1>2, <1>4, <1>7, <1>9, <1>10, StillBuilding


LEMMA CloseLoopKeeps ==
  ASSUME BuildInv, CloseLoop
  PROVE  BuildInv'
<1> DEFINE n == Len(blocks)
           c1 == RestoreRound
           c2 == <<Br(n + 1)>>
           c3 == <<Br(Top.eval)>>
           c4 == <<CondBr(Top.at, Top.start, n + 2)>>
           b1 == Emit(blocks, insert, c1)
           b2 == New(b1)
           b3 == EmitIfOpen(b2, insert, c2)
           b4 == Emit(b3, n + 1, c3)
           b5 == New(b4)
<1>1. /\ phase = "build" /\ phase' = phase /\ open # <<>> /\ Top.kind = "loop"
      /\ body' = Linked("end", Top.at) /\ blocks' = Emit(b5, Top.eval, c4)
      /\ insert' = n + 2 /\ open' = Below
  BY DEF CloseLoop, InBlockOf
<1>2. /\ n \in Nat /\ n >= 2 /\ insert \in 2 .. n
      /\ BlocksOK(blocks, n) /\ NoneForgotten(blocks, insert, open)
      /\ OpenOK(Below, n) /\ FrameOK(Top, n)
      /\ \A b : Awaited(open, b) => Awaited(Below, b) \/ Awaits(Top, b)
  BY <1>1, TopFacts
<1>3. Top.at \in Nat /\ Top.eval \in 2 .. n /\ Top.start \in 2 .. n /\ Top.dones = {}
  BY <1>1, <1>2, GuardingTop DEF Guarding, FrameOK
<1>4. body' \in Seq(Token)
  BY <1>1, <1>3, LinkedTyped DEF Kinds, BuildInv
<1>5. /\ n + 2 \in Nat /\ n <= n + 2 /\ n + 2 \in 2 .. n + 2 /\ n + 1 \in 2 .. n + 2
      /\ n + 1 \in 2 .. n + 1 /\ n + 1 + 1 = n + 2
      /\ \A b : b \in 2 .. n => b \in 2 .. n + 1 /\ b \in 2 .. n + 2
  BY <1>2
<1>6. /\ CodeOK(c1, n + 2)
      /\ CodeOK(c2, n + 2) /\ Terminated(c2)
      /\ CodeOK(c3, n + 2) /\ Terminated(c3)
      /\ CodeOK(c4, n + 2) /\ Terminated(c4)
  <2>1. CodeOK(c1, n + 2)
    BY <1>3, PlainCode DEF RestoreRound
  <2>2. Top.eval \in 2 .. n + 2 /\ Top.start \in 2 .. n + 2
    BY <1>3, <1>5
  <2> HIDE DEF n, c1
  <2>3. CodeOK(c2, n + 2) /\ Terminated(c2)
    BY <1>5, BrEnds
  <2>4. CodeOK(c3, n + 2) /\ Terminated(c3)
    BY <1>5, <2>2, BrEnds
  <2>5. CodeOK(c4, n + 2) /\ Terminated(c4)
    BY <1>3, <1>5, <2>2, CondBrEnds
  <2> QED BY <2>1, <2>3, <2>4, <2>5
<1>7. BlocksOK(blocks, n + 2)
  BY <1>2, <1>5, BlocksWidened
<1> HIDE DEF c1, c2, c3, c4
<1>8. BlocksOK(b1, n + 2) /\ Len(b1) = n /\ Done(blocks) \ {insert} \subseteq Done(b1)
  BY <1>2, <1>6, <1>7, EmitKeeps, EmitDone
<1> HIDE DEF b1
<1>9. BlocksOK(b2, n + 2) /\ Len(b2) = n + 1 /\ Done(b1) \subseteq Done(b2)
  BY <1>8, NewKeeps, NewDone
<1> HIDE DEF b2
<1>10. BlocksOK(b3, n + 2) /\ Len(b3) = n + 1 /\ Done(b2) \cup {insert} \subseteq Done(b3)
  <2>1. insert \in 2 .. Len(b2)
    BY <1>2, <1>5, <1>9
  <2> QED BY <1>6, <1>9, <2>1, EmitIfOpenKeeps, EmitIfOpenDone
<1> HIDE DEF b3
<1>11. BlocksOK(b4, n + 2) /\ Len(b4) = n + 1 /\ Done(b3) \cup {n + 1} \subseteq Done(b4)
  <2>1. n + 1 \in 2 .. Len(b3)
    BY <1>5, <1>10
  <2> QED BY <1>6, <1>10, <2>1, EmitJump, ZenonT(60)
<1> HIDE DEF b4
<1>12. BlocksOK(b5, n + 2) /\ Len(b5) = n + 2 /\ Done(b4) \subseteq Done(b5)
  BY <1>5, <1>11, NewKeeps, NewDone
<1> HIDE DEF b5
<1>13. /\ BlocksOK(blocks', n + 2) /\ Len(blocks') = n + 2
       /\ Done(b5) \cup {Top.eval} \subseteq Done(blocks')
  <2>1. Top.eval \in 2 .. Len(b5)
    BY <1>3, <1>5, <1>12
  <2> QED BY <1>1, <1>6, <1>12, <2>1, EmitJump
<1> HIDE DEF n
<1>14. ASSUME NEW b \in 2 .. n + 2 PROVE b \in Done(blocks') \/ b = n + 2 \/ Awaited(Below, b)
  <2>1. CASE b \in 2 .. n
    <3>1. b \in Done(blocks) \/ b = insert \/ Awaited(open, b)
      BY <1>2, <2>1 DEF NoneForgotten, n
    <3>2. Awaits(Top, b) => b = Top.eval
      BY <1>3 DEF Awaits
    <3> QED BY <1>2, <1>8, <1>9, <1>10, <1>11, <1>12, <1>13, <3>1, <3>2
  <2>2. b \in 2 .. n \/ b = n + 1 \/ b = n + 2
    BY <1>2
  <2> QED BY <1>11, <1>12, <1>13, <2>1, <2>2
<1>15. NoneForgotten(blocks', n + 2, Below)
  BY <1>13, <1>14 DEF NoneForgotten
<1>16. OpenOK(Below, n + 2)
  BY <1>2, <1>5, BelowWidened
<1> QED BY <1>1, <1>4, <1>5, <1>13, <1>15, <1>16, StillBuilding

(* No statement is left that could await a block, so that all blocks have terminators. *)
LEMMA FinishFunctionKeeps ==
  ASSUME BuildInv, FinishFunction
  PROVE  BuildInv'
<1> DEFINE n == Len(blocks)
           code == GiveBack \o <<Plain("ret", Here)>>
<1>1. /\ phase = "build" /\ open = <<>> /\ phase' = "built"
      /\ UNCHANGED <<body, open, insert>>
      /\ blocks' = EmitIfOpen(blocks, insert, code)
  BY DEF FinishFunction
<1>2. /\ body \in Seq(Token) /\ BlocksOK(blocks, n) /\ insert \in 2 .. n /\ OpenOK(open, n)
      /\ NoneForgotten(blocks, insert, open)
  BY <1>1, Zenon DEF BuildInv
<1>3. n \in Nat /\ n >= 2 /\ Here \in Nat
  BY Sizes
<1>4. CodeOK(code, n)
  BY <1>3, ReturnCode
<1>5. Terminated(code)
  <2> DEFINE x == Plain("restore", 0)
             y == Plain("ret", Here)
  <2>1. x \in Instruction /\ y \in Instruction /\ y.op \in Terminators
    BY <1>3 DEF Plain, Instruction, Terminators
  <2>2. GiveBack = <<x>>
    BY DEF GiveBack
  <2> HIDE DEF x, y
  <2>3. Terminated(<<y>>)
    BY <2>1, JumpsTerminate
  <2>4. <<x>> \in Seq(Instruction) /\ <<y>> \in Seq(Instruction)
    BY <2>1
  <2>5. Terminated(<<x>> \o <<y>>)
    BY <2>3, <2>4, EndsTerminated
  <2> QED BY <2>2, <2>5 DEF y
<1> HIDE DEF code
<1>6. /\ BlocksOK(blocks', n) /\ Len(blocks') = n
      /\ Done(blocks) \cup {insert} \subseteq Done(blocks')
  BY <1>1, <1>2, <1>4, <1>5, EmitIfOpenKeeps, EmitIfOpenDone
<1>7. \A b : ~Awaited(open, b)
  BY <1>1 DEF Awaited
<1>8. \A b \in 2 .. n : b \in Done(blocks')
  BY <1>2, <1>6, <1>7 DEF NoneForgotten
<1>9. Terminated(blocks'[1])
  BY <1>6 DEF BlocksOK, Entry, Terminated, Br, Terminators
<1>10. \A b \in DOMAIN blocks' : Terminated(blocks'[b])
  <2>1. DOMAIN blocks' = 1 .. n
    BY <1>6 DEF BlocksOK
  <2>2. \A b \in 1 .. n : b = 1 \/ b \in 2 .. n
    BY <1>3
  <2> QED BY <1>8, <1>9, <2>1, <2>2 DEF Done
<1>11. BlocksTerminated'
  BY <1>10 DEF BlocksTerminated
<1> QED BY <1>1, <1>2, <1>6, <1>11 DEF BuildInv

(* What does not build leaves the blocks alone. *)
LEMMA NotBuildingKeeps ==
  ASSUME BuildInv, UNCHANGED built, phase' = phase \/ phase' \in {"crashed", "run", "returned"},
         phase' \in {"run", "returned"} => phase \in {"built", "run", "returned"}
  PROVE  BuildInv'
<1>1. UNCHANGED <<body, open, blocks, insert>>
  BY DEF built
<1>2. phase' = "build" => phase = "build"
  OBVIOUS
<1>3. phase' \in {"built", "run", "returned"} => phase \in {"built", "run", "returned"}
  OBVIOUS
<1> QED BY <1>1, <1>2, <1>3 DEF BuildInv, BlocksTerminated

LEMMA InitBuilds ==
  ASSUME Init
  PROVE  BuildInv
<1> DEFINE none == <<>>
           bs == <<Entry, none>>
<1>1. body = <<>> /\ open = <<>> /\ blocks = bs /\ insert = 2 /\ phase = "build"
  BY DEF Init, Entry
<1>2. Entry \in Seq(Instruction) /\ none \in Seq(Instruction)
  BY DEF Entry, Plain, Br, Instruction, Terminators
<1>3. CodeOK(none, 2)
  BY EmptyCode
<1> HIDE DEF none
<1>4. bs \in Seq(Seq(Instruction)) /\ Len(bs) = 2 /\ bs[1] = Entry /\ bs[2] = none
  <2> DEFINE T == Seq(Instruction)
  <2>1. Entry \in T /\ none \in T
    BY <1>2
  <2> HIDE DEF T
  <2>2. bs \in Seq(T) /\ Len(bs) = 2 /\ bs[1] = Entry /\ bs[2] = none
    BY <2>1
  <2> QED BY <2>2 DEF T
<1> HIDE DEF bs
<1>5. BlocksOK(blocks, Len(blocks))
  BY <1>1, <1>3, <1>4 DEF BlocksOK
<1>6. OpenOK(open, Len(blocks)) /\ body \in Seq(Token)
  BY <1>1 DEF OpenOK
<1>7. insert \in 2 .. Len(blocks) /\ NoneForgotten(blocks, insert, open)
  BY <1>1, <1>4 DEF NoneForgotten
<1>8. BlocksTerminated
  BY <1>1 DEF BlocksTerminated
<1> QED BY <1>5, <1>6, <1>7, <1>8 DEF BuildInv

LEMMA BuildKeeps ==
  ASSUME BuildInv, [Next]_vars
  PROVE  BuildInv'
<1>1. CASE Build
  <2>1. CASE BuildBareReturn
    <3>1. UNCHANGED built /\ phase' = "crashed"
      BY <2>1 DEF BuildBareReturn
    <3> QED BY <3>1, NotBuildingKeeps
  <2> QED BY <1>1, <2>1, BuildSimpleKeeps, BuildDeclarationKeeps, BuildReturnKeeps,
             OpenBlockKeeps, CloseBlockKeeps, OpenConditionalKeeps, CloseConditionalKeeps,
             OpenTwigKeeps, CloseTwigKeeps, OpenOtherwiseKeeps, CloseOtherwiseKeeps,
             CloseBranchKeeps, OpenLoopKeeps, CloseLoopKeeps, FinishFunctionKeeps, Zenon
          DEF Build
<1>2. CASE CallFunction
  BY <1>2, NotBuildingKeeps DEF CallFunction
<1>3. CASE Run
  BY <1>3, NotBuildingKeeps
  DEF Run, Evaluate, Allocate, SaveStack, RestoreStack, Branch, BranchIf, Return, Running
<1>4. CASE UNCHANGED vars
  BY <1>4, NotBuildingKeeps DEF vars
<1> QED BY <1>1, <1>2, <1>3, <1>4 DEF Next


(* Each block of a finished function ends with a terminator. *)
THEOREM BlocksAreTerminated == Spec => []BlocksTerminated
<1>1. Init => BuildInv
  BY InitBuilds
<1>2. BuildInv /\ [Next]_vars => BuildInv'
  BY BuildKeeps
<1>3. BuildInv => BlocksTerminated
  BY Zenon DEF BuildInv
<1> QED BY <1>1, <1>2, <1>3, PTL DEF Spec
-----------------------------------------------------------------------------
(* A call: the stack is empty where it begins, and where a restore of the function's stack  *)
(* is the last instruction that touched it.                                                 *)

EmptyAt(b, i) == (b = 1 /\ i = 1) \/ Emptied(blocks[b], i)

RunInv ==
  /\ DOMAIN saved = 0 .. MaxTokens /\ saved[0] = 0
  /\ pc \in [block : Nat, index : Nat]
  /\ pc.block \in 1 .. Len(blocks)
  /\ phase \in {"build", "built"} => pc.block = 1 /\ pc.index = 1 /\ stack = <<>>
  /\ phase = "run" =>
       /\ pc.index \in 1 .. Len(blocks[pc.block])
       /\ EmptyAt(pc.block, pc.index) => stack = <<>>
  /\ StackGivenBack

LEMMA InitRuns ==
  ASSUME Init
  PROVE  RunInv
BY MaxTokensAssumption DEF Init, RunInv, StackGivenBack

LEMMA BuildingIsIdle ==
  ASSUME BuildInv, BuildInv', RunInv, Build
  PROVE  RunInv'
<1>1. phase = "build" /\ phase' \in {"build", "built", "crashed"} /\ UNCHANGED <<pc, stack, saved>>
  <2>1. CASE FinishFunction \/ BuildBareReturn
    BY <2>1 DEF FinishFunction, BuildBareReturn, called, InBlock
  <2>2. CASE BuildSimple \/ BuildDeclaration \/ BuildReturn \/ OpenBlock \/ CloseBlock
    BY <2>2 DEF BuildSimple, BuildDeclaration, BuildReturn, OpenBlock, CloseBlock,
                InBlock, InBlockOf, called
  <2>3. CASE OpenConditional \/ CloseConditional \/ OpenLoop \/ CloseLoop
    BY <2>3 DEF OpenConditional, CloseConditional, OpenLoop, CloseLoop, InBlock, InBlockOf, called
  <2>4. CASE \/ OpenBranch \/ OpenTwig \/ CloseTwig
             \/ OpenOtherwise \/ CloseOtherwise \/ CloseBranch
    BY <2>4 DEF OpenBranch, OpenTwig, CloseTwig, OpenOtherwise, CloseOtherwise, CloseBranch,
                InBlock, InBlockOf, Between, called
  <2> QED BY <2>1, <2>2, <2>3, <2>4, Zenon DEF Build
<1>2. 1 \in 1 .. Len(blocks')
  BY DEF BuildInv, BlocksOK
<1> QED BY <1>1, <1>2 DEF RunInv, StackGivenBack

LEMMA CallFunctionRuns ==
  ASSUME BuildInv, RunInv, CallFunction
  PROVE  RunInv'
<1>1. /\ phase = "built" /\ phase' = "run" /\ UNCHANGED <<pc, stack, saved>>
      /\ blocks' = blocks
  BY DEF CallFunction, built
<1>2. blocks[1] = Entry /\ Len(blocks) \in Nat /\ Len(blocks) >= 2
  BY Sizes DEF BuildInv, BlocksOK
<1>3. Len(blocks[1]) = 3
  BY <1>2 DEF Entry
<1>4. pc.block = 1 /\ pc.index = 1 /\ stack = <<>>
  BY <1>1 DEF RunInv
<1> QED BY <1>1, <1>2, <1>3, <1>4 DEF RunInv, StackGivenBack, EmptyAt

(* Where a call is. *)
LEMMA AtInstruction ==
  ASSUME BuildInv, RunInv, phase = "run", NEW b, b = pc.block, NEW i, i = pc.index,
         NEW x, x = blocks[b][i]
  PROVE  /\ b \in 1 .. Len(blocks) /\ i \in 1 .. Len(blocks[b]) /\ Len(blocks) \in Nat
         /\ blocks[b] \in Seq(Instruction) /\ x \in Instruction /\ Instr = x
         /\ x.op \in {"br", "condbr"} => x.yes \in 2 .. Len(blocks)
         /\ x.op = "condbr" => x.no \in 2 .. Len(blocks)
         /\ x.op = "save" => x.at # 0 \/ (b = 1 /\ i = 1)
         /\ x.op = "ret" => Emptied(blocks[b], i)
         /\ x.op \notin Terminators => i # Len(blocks[b])
         /\ EmptyAt(b, i) => stack = <<>>
<1>1. /\ b \in 1 .. Len(blocks) /\ i \in 1 .. Len(blocks[b])
      /\ EmptyAt(b, i) => stack = <<>>
  BY DEF RunInv
<1>2. BlocksOK(blocks, Len(blocks)) /\ Len(blocks) \in Nat /\ Len(blocks) >= 2
  BY Sizes DEF BuildInv
<1>3. blocks \in Seq(Seq(Instruction)) /\ DOMAIN blocks = 1 .. Len(blocks)
  BY <1>2 DEF BlocksOK
<1>4. blocks[b] \in Seq(Instruction)
  BY <1>1, <1>3
<1>5. x \in Instruction
  BY <1>1, <1>4
<1>6. Terminated(blocks[b])
  BY <1>1, <1>3 DEF BuildInv, BlocksTerminated
<1>7. x.op \notin Terminators => i # Len(blocks[b])
  BY <1>6 DEF Terminated
<1>8. Instr = x
  BY DEF Instr
<1>9. CASE b = 1
  <2>1. blocks[b] = Entry
    BY <1>2, <1>9 DEF BlocksOK
  <2>2. i \in {1, 2, 3}
    BY <1>1, <2>1 DEF Entry
  <2>3. x = Entry[i]
    BY <2>1
  <2>4. /\ i = 1 => x.op = "save"
        /\ i = 2 => x.op = "alloca"
        /\ i = 3 => x.op = "br" /\ x.yes = 2
    BY <2>2, <2>3 DEF Entry, Plain, Br
  <2> QED BY <1>1, <1>2, <1>4, <1>5, <1>7, <1>8, <1>9, <2>2, <2>4
<1>10. CASE b # 1
  <2>1. b \in 2 .. Len(blocks)
    BY <1>1, <1>2, <1>10
  <2>2. CodeOK(blocks[b], Len(blocks))
    BY <1>2, <2>1, Zenon DEF BlocksOK
  <2>3. InstrOK(x, Len(blocks)) /\ (x.op = "ret" => Emptied(blocks[b], i))
    BY <1>1, <2>2, Zenon DEF CodeOK
  <2> QED BY <1>1, <1>2, <1>4, <1>5, <1>7, <1>8, <2>3 DEF InstrOK
<1> QED BY <1>9, <1>10

(* The next instruction is in the same block. *)
LEMMA Stepping ==
  ASSUME BuildInv, RunInv, phase = "run", phase' = "run", Step, UNCHANGED built,
         Instr.op \notin Terminators,
         DOMAIN saved' = 0 .. MaxTokens, saved'[0] = 0,
         Emptied(blocks[pc.block], pc.index + 1) => stack' = <<>>
  PROVE  RunInv'
<1> DEFINE b == pc.block
           i == pc.index
<1>1. /\ b \in 1 .. Len(blocks) /\ i \in 1 .. Len(blocks[b]) /\ Len(blocks) \in Nat
      /\ blocks[b] \in Seq(Instruction) /\ i # Len(blocks[b])
  BY AtInstruction
<1>2. Len(blocks[b]) \in Nat
  BY <1>1
<1>3. i + 1 \in 1 .. Len(blocks[b]) /\ i + 1 # 1 /\ i + 1 \in Nat /\ b \in Nat
  BY <1>1, <1>2
<1>4. pc' = [block |-> b, index |-> i + 1]
  BY DEF RunInv, Step
<1>5. blocks' = blocks
  BY DEF built
<1>6. pc'.block = b /\ pc'.index = i + 1 /\ pc' \in [block : Nat, index : Nat]
  BY <1>3, <1>4
<1>7. Emptied(blocks[b], i + 1) => stack' = <<>>
  OBVIOUS
<1> HIDE DEF b, i
<1>8. EmptyAt(pc.block, pc.index)' <=> (b = 1 /\ i + 1 = 1) \/ Emptied(blocks[b], i + 1)
  BY <1>5, <1>6, Zenon DEF EmptyAt
<1> QED BY <1>1, <1>3, <1>5, <1>6, <1>7, <1>8 DEF RunInv, StackGivenBack

(* The next instruction is the first one of another block. *)
LEMMA Jumping ==
  ASSUME BuildInv, RunInv, phase = "run", phase' = "run", UNCHANGED <<built, saved>>,
         NEW b \in 2 .. Len(blocks), Jump(b)
  PROVE  RunInv'
<1>1. blocks \in Seq(Seq(Instruction)) /\ Len(blocks) \in Nat
  BY DEF BuildInv, BlocksOK
<1>2. b \in 1 .. Len(blocks) /\ b # 1 /\ b \in Nat /\ DOMAIN blocks = 1 .. Len(blocks)
  BY <1>1
<1>3. blocks[b] \in Seq(Instruction)
  BY <1>1, <1>2
<1>4. Terminated(blocks[b])
  BY <1>2 DEF BuildInv, BlocksTerminated
<1>5. 1 \in 1 .. Len(blocks[b])
  BY <1>3, <1>4 DEF Terminated
<1>6. pc' = [block |-> b, index |-> 1]
  BY DEF Jump
<1>7. blocks' = blocks
  BY DEF built
<1>8. pc'.block = b /\ pc'.index = 1 /\ pc' \in [block : Nat, index : Nat]
  BY <1>2, <1>6
<1>9. ~Emptied(blocks[b], 1)
  BY DEF Emptied
<1>10. ~EmptyAt(pc.block, pc.index)'
  BY <1>2, <1>7, <1>8, <1>9 DEF EmptyAt
<1> QED BY <1>2, <1>5, <1>7, <1>8, <1>10 DEF RunInv, StackGivenBack

(* What an instruction leaves the next one. *)
LEMMA NextEmptied ==
  ASSUME NEW c, NEW i \in Nat, i >= 1, Emptied(c, i + 1)
  PROVE  c[i] = Plain("restore", 0) \/ (c[i].op = "eval" /\ Emptied(c, i))
<1>1. i + 1 - 1 = i /\ i + 1 - 2 = i - 1 /\ (i + 1 > 2 => i > 1)
  OBVIOUS
<1> QED BY <1>1 DEF Emptied

LEMMA RunKeeps ==
  ASSUME BuildInv, RunInv, Run
  PROVE  RunInv'
<1> DEFINE b == pc.block
           i == pc.index
           x == blocks[b][i]
<1>1. phase = "run"
  BY DEF Run, Evaluate, Allocate, SaveStack, RestoreStack, Branch, BranchIf, Return, Running
<1>2. /\ b \in 1 .. Len(blocks) /\ i \in 1 .. Len(blocks[b]) /\ Len(blocks) \in Nat
      /\ x \in Instruction /\ Instr = x
      /\ x.op \in {"br", "condbr"} => x.yes \in 2 .. Len(blocks)
      /\ x.op = "condbr" => x.no \in 2 .. Len(blocks)
      /\ x.op = "save" => x.at # 0 \/ (b = 1 /\ i = 1)
      /\ x.op = "ret" => Emptied(blocks[b], i)
      /\ EmptyAt(b, i) => stack = <<>>
  BY <1>1, AtInstruction
<1>3. i \in Nat /\ i >= 1
  BY <1>2
<1>4. DOMAIN saved = 0 .. MaxTokens /\ saved[0] = 0 /\ 0 \in DOMAIN saved
  BY MaxTokensAssumption DEF RunInv
<1>5. /\ Plain("restore", 0).op = "restore" /\ Plain("restore", 0).at = 0
  BY DEF Plain
<1>6. Emptied(blocks[b], i + 1) => x = Plain("restore", 0) \/ (x.op = "eval" /\ Emptied(blocks[b], i))
  BY <1>3, NextEmptied
<1> HIDE DEF x, b, i
<1>7. CASE Evaluate
  <2>1. x.op = "eval" /\ phase' = "run" /\ Step /\ UNCHANGED <<built, stack, saved>>
    BY <1>1, <1>2, <1>7 DEF Evaluate, Running
  <2>2. Emptied(blocks[b], i + 1) => stack' = <<>>
    BY <1>2, <1>5, <1>6, <2>1 DEF EmptyAt
  <2> QED BY <1>1, <1>2, <1>4, <2>1, <2>2, Stepping DEF Terminators, b, i
<1>8. CASE Allocate
  <2>1. x.op = "alloca" /\ phase' = "run" /\ Step /\ UNCHANGED <<built, saved>>
    BY <1>1, <1>2, <1>8 DEF Allocate, Running
  <2>2. ~Emptied(blocks[b], i + 1)
    BY <1>5, <1>6, <2>1
  <2> QED BY <1>1, <1>2, <1>4, <2>1, <2>2, Stepping DEF Terminators, b, i
<1>9. CASE SaveStack
  <2>1. /\ x.op = "save" /\ phase' = "run" /\ Step /\ UNCHANGED built
        /\ saved' = [saved EXCEPT ![x.at] = Len(stack)]
    BY <1>1, <1>2, <1>9 DEF SaveStack, Running
  <2>2. ~Emptied(blocks[b], i + 1)
    BY <1>5, <1>6, <2>1
  <2>3. DOMAIN saved' = 0 .. MaxTokens
    BY <1>4, <2>1
  <2>4. saved'[0] = 0
    <3>1. CASE x.at = 0
      <4>1. stack = <<>>
        BY <1>2, <2>1, <3>1 DEF EmptyAt
      <4> QED BY <1>4, <2>1, <3>1, <4>1
    <3>2. CASE x.at # 0
      BY <1>4, <2>1, <3>2
    <3> QED BY <3>1, <3>2
  <2> QED BY <1>1, <1>2, <2>1, <2>2, <2>3, <2>4, Stepping DEF Terminators, b, i
<1>10. CASE RestoreStack
  <2>1. /\ x.op = "restore" /\ phase' = "run" /\ Step /\ UNCHANGED <<built, saved>>
        /\ stack' = SubSeq(stack, 1, saved[x.at])
    BY <1>1, <1>2, <1>10 DEF RestoreStack, Running
  <2>2. ASSUME Emptied(blocks[b], i + 1) PROVE stack' = <<>>
    <3>1. x.at = 0
      BY <1>5, <1>6, <2>1, <2>2
    <3>2. stack' = SubSeq(stack, 1, 0)
      BY <1>4, <2>1, <3>1
    <3> QED BY <3>2
  <2> QED BY <1>1, <1>2, <1>4, <2>1, <2>2, Stepping DEF Terminators, b, i
<1>11. CASE Branch
  <2>1. x.op = "br" /\ phase' = "run" /\ Jump(x.yes) /\ UNCHANGED <<built, saved>>
    BY <1>1, <1>2, <1>11 DEF Branch, Running
  <2> QED BY <1>1, <1>2, <2>1, Jumping
<1>12. CASE BranchIf
  <2>1. /\ x.op = "condbr" /\ phase' = "run" /\ UNCHANGED <<built, saved>>
        /\ Jump(IF last.yes THEN x.yes ELSE x.no)
    BY <1>1, <1>2, <1>12 DEF BranchIf, Running
  <2>2. (IF last.yes THEN x.yes ELSE x.no) \in 2 .. Len(blocks)
    BY <1>2, <2>1
  <2> QED BY <1>1, <2>1, <2>2, Jumping
<1>13. CASE Return
  <2>1. x.op = "ret" /\ phase' = "returned" /\ UNCHANGED <<built, pc, stack, saved>>
    BY <1>2, <1>13 DEF Return, Running
  <2>2. stack = <<>>
    BY <1>2, <2>1 DEF EmptyAt
  <2>3. blocks' = blocks
    BY <1>13 DEF Return, built
  <2> QED BY <2>1, <2>2, <2>3 DEF RunInv, StackGivenBack
<1> QED BY <1>7, <1>8, <1>9, <1>10, <1>11, <1>12, <1>13, Zenon DEF Run

LEMMA RunInvKeeps ==
  ASSUME BuildInv, RunInv, [Next]_vars
  PROVE  RunInv'
<1>1. CASE UNCHANGED vars
  BY <1>1 DEF vars, built, called, RunInv, StackGivenBack, EmptyAt
<1>2. BuildInv'
  BY BuildKeeps
<1> QED BY <1>1, <1>2, BuildingIsIdle, CallFunctionRuns, RunKeeps, Zenon DEF Next

(* Every way out of a function leaves the stack as it was before the call. *)
THEOREM StackIsGivenBack == Spec => []StackGivenBack
<1>1. Init => BuildInv /\ RunInv
  BY InitBuilds, InitRuns
<1>2. BuildInv /\ RunInv /\ [Next]_vars => BuildInv' /\ RunInv'
  BY BuildKeeps, RunInvKeeps
<1>3. RunInv => StackGivenBack
  BY Zenon DEF RunInv
<1> QED BY <1>1, <1>2, <1>3, PTL DEF Spec

-----------------------------------------------------------------------------
(* What is known of the stack where an instruction begins: every piece of storage on it is   *)
(* of a declaration before "bound"; the ones in "holds" are there; and for the loops in      *)
(* "marks", what was saved is the size of the part of the stack that is older than the loop. *)

Shape == [bound : Nat, holds : SUBSET Nat, marks : SUBSET Nat]

(* A shape for every place in every block. *)
Shapes == [Nat -> [Nat -> Shape]]

(* Where s is known, t is. *)
Implies(s, t) == s.bound <= t.bound /\ t.holds \subseteq s.holds /\ t.marks \subseteq s.marks

(* Instruction x of a function with body w turns shape s into shape t. *)
Fits(w, x, s, t, A) ==
  /\ x.op = "eval" =>
       /\ x.at \in DOMAIN w
       /\ w[x.at].kind # "ret" => {0, w[x.at].reads} \subseteq s.holds
       /\ Implies(s, t)
  /\ x.op = "alloca" =>
       /\ s.bound <= x.at /\ x.at < t.bound
       /\ t.holds \subseteq s.holds \cup {x.at}
       /\ t.marks \subseteq {l \in s.marks : l <= x.at}
  /\ x.op = "save" =>
       /\ x.at \in 0 .. MaxTokens /\ s.bound <= x.at /\ s.bound <= t.bound
       /\ t.holds \subseteq s.holds
       /\ t.marks \subseteq s.marks \cup {x.at}
  /\ x.op = "restore" =>
       /\ x.at \in s.marks /\ x.at <= t.bound
       /\ t.holds \subseteq {d \in s.holds : d < x.at}
       /\ t.marks \subseteq {l \in s.marks : l <= x.at}
  /\ x.op \in {"br", "condbr"} => Implies(s, A[x.yes][1])
  /\ x.op = "condbr" => Implies(s, A[x.no][1])

CodeFits(w, c, a, A) ==
  /\ \A i \in 1 .. Len(c) : Fits(w, c[i], a[i], a[i + 1], A)
  /\ \A i \in Nat : i > Len(c) => a[i] = a[Len(c) + 1]

(* Code that leaves the shape s as it is. *)
Keeps(w, d, s, A) == \A i \in 1 .. Len(d) : Fits(w, d[i], s, s, A)

(* The shapes of a block without code. *)
Always(a, s) == \A i \in Nat : a[i] = s

Fitting(w, A, bs) == \A b \in 1 .. Len(bs) : CodeFits(w, bs[b], A[b], A)

(* The shape behind the last instruction of a block. *)
End(A, bs, b) == A[b][Len(bs[b]) + 1]

EndsWith(A, bs, b, s) == End(A, bs, b) = s

SameEnds(A, bs, B, cs) == \A b \in 1 .. Len(bs) : End(B, cs, b) = End(A, bs, b)

SameEntries(A, B) == \A b \in Nat : B[b][1] = A[b][1]

LEMMA ImpliesItself ==
  ASSUME NEW s \in Shape
  PROVE  Implies(s, s)
BY DEF Implies, Shape

LEMMA FitsAgree ==
  ASSUME NEW n \in Nat, NEW w, NEW x, InstrOK(x, n), NEW s, NEW t, NEW A, NEW B,
         \A b \in 1 .. n : B[b][1] = A[b][1], Fits(w, x, s, t, A)
  PROVE  Fits(w, x, s, t, B)
<1>1. x.op \in {"br", "condbr"} => x.yes \in 1 .. n
  BY DEF InstrOK
<1>2. x.op = "condbr" => x.no \in 1 .. n
  BY DEF InstrOK
<1>3. x.op \in {"br", "condbr"} => Implies(s, B[x.yes][1])
  BY <1>1 DEF Fits
<1>4. x.op = "condbr" => Implies(s, B[x.no][1])
  BY <1>2 DEF Fits
<1> QED BY <1>3, <1>4, Zenon DEF Fits

(* The tokens of v go on those of w. *)
Continues(v, w) ==
  \A i \in DOMAIN w : i \in DOMAIN v /\ v[i].kind = w[i].kind /\ v[i].reads = w[i].reads

LEMMA BodyContinued ==
  ASSUME NEW w, NEW v, Continues(v, w), NEW A, NEW bs, Fitting(w, A, bs)
  PROVE  Fitting(v, A, bs)
<1>1. ASSUME NEW x, NEW s, NEW t, Fits(w, x, s, t, A) PROVE Fits(v, x, s, t, A)
  <2>1. x.op = "eval" =>
          /\ x.at \in DOMAIN v
          /\ v[x.at].kind # "ret" => {0, v[x.at].reads} \subseteq s.holds
          /\ Implies(s, t)
    BY <1>1 DEF Fits, Continues
  <2> QED BY <1>1, <2>1, Zenon DEF Fits
<1> QED BY <1>1, Zenon DEF Fitting, CodeFits

LEMMA FitsJoined ==
  ASSUME NEW w, NEW A, NEW c \in Seq(Instruction), NEW d \in Seq(Instruction), NEW a, NEW e,
         CodeFits(w, c, a, A), \A i \in 1 .. Len(c) + 1 : e[i] = a[i],
         \A i \in 1 .. Len(d) : Fits(w, d[i], e[Len(c) + i], e[Len(c) + i + 1], A),
         \A i \in Nat : i > Len(c) + Len(d) => e[i] = e[Len(c) + Len(d) + 1]
  PROVE  CodeFits(w, c \o d, e, A)
<1> DEFINE f == c \o d
<1>1. /\ f \in Seq(Instruction) /\ Len(f) = Len(c) + Len(d)
      /\ \A i \in 1 .. Len(c) : f[i] = c[i]
      /\ \A i \in 1 .. Len(d) : f[Len(c) + i] = d[i]
  BY Joining
<1>2. Len(c) \in Nat /\ Len(d) \in Nat
  OBVIOUS
<1> HIDE DEF f
<1>3. ASSUME NEW i \in 1 .. Len(f) PROVE Fits(w, f[i], e[i], e[i + 1], A)
  <2>1. CASE i <= Len(c)
    <3>1. i \in 1 .. Len(c) /\ i \in 1 .. Len(c) + 1 /\ i + 1 \in 1 .. Len(c) + 1
      BY <1>2, <2>1
    <3>2. Fits(w, c[i], a[i], a[i + 1], A)
      BY <3>1, Zenon DEF CodeFits
    <3> QED BY <1>1, <3>1, <3>2, Zenon
  <2>2. CASE ~(i <= Len(c))
    <3>1. PICK j \in 1 .. Len(d) : i = Len(c) + j
      <4>1. i - Len(c) \in 1 .. Len(d) /\ i = Len(c) + (i - Len(c))
        BY <1>1, <1>2, <2>2
      <4> QED BY <4>1
    <3> QED BY <1>1, <3>1, Zenon
  <2> QED BY <2>1, <2>2
<1>4. \A i \in Nat : i > Len(f) => e[i] = e[Len(f) + 1]
  BY <1>1
<1> QED BY <1>3, <1>4, Zenon DEF CodeFits, f

LEMMA FitsSame ==
  ASSUME NEW w, NEW A, NEW c \in Seq(Instruction), NEW d \in Seq(Instruction), NEW a,
         CodeFits(w, c, a, A),
         Keeps(w, d, a[Len(c) + 1], A)
  PROVE  CodeFits(w, c \o d, a, A)
<1> DEFINE s == a[Len(c) + 1]
<1> HIDE DEF s
<1>0. /\ s = a[Len(c) + 1]
      /\ \A i \in 1 .. Len(d) : Fits(w, d[i], s, s, A)
  BY Zenon DEF s, Keeps
<1>1. Len(c) \in Nat /\ Len(d) \in Nat /\ Len(c \o d) = Len(c) + Len(d)
  BY Joining
<1>2. \A i \in Nat : i > Len(c) => a[i] = s
  BY <1>0, Zenon DEF CodeFits
<1>3. ASSUME NEW i \in 1 .. Len(d) PROVE Fits(w, d[i], a[Len(c) + i], a[Len(c) + i + 1], A)
  <2>1. /\ Len(c) + i \in Nat /\ Len(c) + i > Len(c)
        /\ Len(c) + i + 1 \in Nat /\ Len(c) + i + 1 > Len(c)
    BY <1>1
  <2> QED BY <1>0, <1>2, <2>1, Zenon
<1>4. /\ Len(c) + Len(d) + 1 \in Nat /\ Len(c) + Len(d) + 1 > Len(c)
      /\ \A i \in Nat : i > Len(c) + Len(d) => i > Len(c)
  BY <1>1
<1>5. a[Len(c) + Len(d) + 1] = s
  BY <1>2, <1>4, Zenon
<1>6. \A i \in Nat : i > Len(c) + Len(d) => a[i] = a[Len(c) + Len(d) + 1]
  BY <1>2, <1>4, <1>5, Zenon
<1> QED BY <1>3, <1>6, FitsJoined, Zenon

(* The shape behind code, which is also the shape everywhere behind it. *)
EndIs(a, c, s) == a[Len(c) + 1] = s

LEMMA EndSame ==
  ASSUME NEW w, NEW A, NEW c \in Seq(Instruction), NEW d \in Seq(Instruction), NEW a,
         CodeFits(w, c, a, A), NEW s, EndIs(a, c, s)
  PROVE  EndIs(a, c \o d, s)
<1>1. Len(c) \in Nat /\ Len(d) \in Nat /\ Len(c \o d) = Len(c) + Len(d)
  BY Joining
<1>2. Len(c) + Len(d) + 1 \in Nat /\ Len(c) + Len(d) + 1 > Len(c)
  BY <1>1
<1>3. \A i \in Nat : i > Len(c) => a[i] = s
  BY Zenon DEF CodeFits, EndIs
<1> QED BY <1>1, <1>2, <1>3, Zenon DEF EndIs

-----------------------------------------------------------------------------
(* Blocks are created and filled. *)

(* The shapes for two blocks that do not exist yet. *)
Prepared(A, n, s, t) == [A EXCEPT ![n + 1] = [i \in Nat |-> s], ![n + 2] = [i \in Nat |-> t]]

LEMMA PreparedFacts ==
  ASSUME NEW w, NEW A \in Shapes, NEW bs, BlocksOK(bs, Len(bs)), Fitting(w, A, bs),
         NEW s \in Shape, NEW t \in Shape
  PROVE  LET B == Prepared(A, Len(bs), s, t)
         IN /\ B \in Shapes /\ Fitting(w, B, bs)
            /\ \A b \in 1 .. Len(bs) : B[b] = A[b]
            /\ Always(B[Len(bs) + 1], s) /\ Always(B[Len(bs) + 2], t)
<1> DEFINE n == Len(bs)
           S == [i \in Nat |-> s]
           T == [i \in Nat |-> t]
           B == Prepared(A, n, s, t)
<1>1. n \in Nat /\ bs \in Seq(Seq(Instruction)) /\ n >= 2
      /\ \A b \in 2 .. n : CodeOK(bs[b], n)
  BY DEF BlocksOK
<1> HIDE DEF n
<1>2. S \in [Nat -> Shape] /\ T \in [Nat -> Shape] /\ (\A i \in Nat : S[i] = s /\ T[i] = t)
  OBVIOUS
<1>3. B = [A EXCEPT ![n + 1] = S, ![n + 2] = T]
  BY DEF Prepared
<1> HIDE DEF S, T, B
<1>4. B \in Shapes /\ B[n + 1] = S /\ B[n + 2] = T /\ \A b \in 1 .. n : B[b] = A[b]
  <2> DEFINE F == [Nat -> Shape]
  <2>1. A \in [Nat -> F] /\ S \in F /\ T \in F
    BY <1>2 DEF Shapes
  <2>2. n + 1 \in Nat /\ n + 2 \in Nat /\ n + 1 # n + 2
        /\ \A b \in 1 .. n : b \in Nat /\ b # n + 1 /\ b # n + 2
    BY <1>1
  <2> HIDE DEF F
  <2>3. B \in [Nat -> F] /\ B[n + 1] = S /\ B[n + 2] = T /\ \A b \in 1 .. n : B[b] = A[b]
    BY <1>3, <2>1, <2>2
  <2> QED BY <2>3 DEF F, Shapes
<1>5. \A b \in 1 .. n : B[b][1] = A[b][1]
  BY <1>4
<1>6. ASSUME NEW b \in 1 .. n, NEW i \in 1 .. Len(bs[b]) PROVE InstrOK(bs[b][i], n) \/ bs[b] = Entry
  BY <1>1 DEF BlocksOK, CodeOK
<1>7. ASSUME NEW b \in 1 .. n PROVE CodeFits(w, bs[b], B[b], B)
  <2>1. CodeFits(w, bs[b], A[b], A)
    BY DEF Fitting, n
  <2>2. ASSUME NEW i \in 1 .. Len(bs[b])
        PROVE  Fits(w, bs[b][i], A[b][i], A[b][i + 1], B)
    <3>1. Fits(w, bs[b][i], A[b][i], A[b][i + 1], A)
      BY <2>1, Zenon DEF CodeFits
    <3>2. CASE InstrOK(bs[b][i], n)
      BY <1>1, <1>5, <3>1, <3>2, FitsAgree
    <3>3. CASE bs[b] = Entry
      <4>1. bs[b][i] \in {Plain("save", 0), Plain("alloca", 0), Br(2)}
        BY <3>3 DEF Entry
      <4>2. /\ Plain("save", 0).op = "save" /\ Plain("alloca", 0).op = "alloca"
            /\ Br(2).op = "br" /\ Br(2).yes = 2
        BY DEF Plain, Br
      <4>3. B[2][1] = A[2][1]
        BY <1>1, <1>5
      <4> QED BY <3>1, <4>1, <4>2, <4>3 DEF Fits
    <3> QED BY <1>6, <3>2, <3>3
  <2> QED BY <1>4, <2>1, <2>2, Zenon DEF CodeFits
<1>8. Fitting(w, B, bs)
  BY <1>7 DEF Fitting, n
<1> QED BY <1>2, <1>4, <1>8 DEF n, B, Always

LEMMA NewFits ==
  ASSUME NEW w, NEW A, NEW bs \in Seq(Seq(Instruction)), Fitting(w, A, bs),
         NEW s, Always(A[Len(bs) + 1], s)
  PROVE  /\ Fitting(w, A, New(bs))
         /\ SameEnds(A, bs, A, New(bs)) /\ EndsWith(A, New(bs), Len(bs) + 1, s)
<1>1. /\ New(bs) \in Seq(Seq(Instruction)) /\ Len(New(bs)) = Len(bs) + 1
      /\ \A b \in 1 .. Len(bs) : New(bs)[b] = bs[b]
      /\ New(bs)[Len(bs) + 1] = <<>>
  BY NewFacts
<1>2. Len(bs) \in Nat /\ Len(<<>>) = 0 /\ 0 + 1 \in Nat
  OBVIOUS
<1>3. CodeFits(w, <<>>, A[Len(bs) + 1], A)
  BY <1>2 DEF CodeFits, Always
<1>4. \A b \in 1 .. Len(New(bs)) : b \in 1 .. Len(bs) \/ b = Len(bs) + 1
  BY <1>1, <1>2
<1>5. Fitting(w, A, New(bs))
  BY <1>1, <1>3, <1>4, Zenon DEF Fitting
<1>6. End(A, New(bs), Len(bs) + 1) = s
  BY <1>1, <1>2 DEF End, Always
<1> QED BY <1>1, <1>5, <1>6, Zenon DEF End, SameEnds, EndsWith

(* Code that leaves the shape at the end of its block as it is. *)
LEMMA EmitFits ==
  ASSUME NEW w, NEW A, NEW bs \in Seq(Seq(Instruction)), Fitting(w, A, bs),
         NEW b \in 1 .. Len(bs), NEW code \in Seq(Instruction),
         Keeps(w, code, End(A, bs, b), A)
  PROVE  /\ Fitting(w, A, Emit(bs, b, code))
         /\ SameEnds(A, bs, A, Emit(bs, b, code))
<1>1. /\ Len(Emit(bs, b, code)) = Len(bs)
      /\ \A i \in 1 .. Len(bs) : i # b => Emit(bs, b, code)[i] = bs[i]
      /\ Emit(bs, b, code)[b] = bs[b] \o code
  BY EmitFacts
<1>2. bs[b] \in Seq(Instruction) /\ CodeFits(w, bs[b], A[b], A)
  BY DEF Fitting
<1>3. CodeFits(w, bs[b] \o code, A[b], A) /\ EndIs(A[b], bs[b] \o code, End(A, bs, b))
  <2>1. EndIs(A[b], bs[b], End(A, bs, b)) /\ Keeps(w, code, A[b][Len(bs[b]) + 1], A)
    BY Zenon DEF End, EndIs
  <2> QED BY <1>2, <2>1, FitsSame, EndSame, Zenon
<1>4. Fitting(w, A, Emit(bs, b, code))
  BY <1>1, <1>3, Zenon DEF Fitting
<1>5. SameEnds(A, bs, A, Emit(bs, b, code))
  BY <1>1, <1>3, Zenon DEF End, EndIs, SameEnds
<1> QED BY <1>4, <1>5

LEMMA EmitIfOpenFits ==
  ASSUME NEW w, NEW A, NEW bs \in Seq(Seq(Instruction)), Fitting(w, A, bs),
         NEW b \in 1 .. Len(bs), NEW code \in Seq(Instruction),
         Keeps(w, code, End(A, bs, b), A)
  PROVE  /\ Fitting(w, A, EmitIfOpen(bs, b, code))
         /\ SameEnds(A, bs, A, EmitIfOpen(bs, b, code))
<1>1. SameEnds(A, bs, A, bs)
  BY Zenon DEF SameEnds
<1> QED BY <1>1, EmitFits, Zenon DEF EmitIfOpen

(* Every block in dones and "from" go to a block whose shape is implied by their ends. *)
LEMMA JoinedFits ==
  ASSUME NEW w, NEW A, NEW n \in Nat, NEW bs, BlocksOK(bs, n), Fitting(w, A, bs),
         NEW dones, NEW from,
         NEW s \in Shape, Always(A[Len(bs) + 1], s),
         \A b \in 1 .. Len(bs) : b \in dones \cup {from} => Implies(End(A, bs, b), s)
  PROVE  /\ Fitting(w, A, Joined(bs, dones, from))
         /\ SameEnds(A, bs, A, Joined(bs, dones, from))
         /\ EndsWith(A, Joined(bs, dones, from), Len(bs) + 1, s)
<1> DEFINE end == Len(bs) + 1
           br == <<Br(end)>>
           joins(b) == b = from \/ (b \in dones /\ ~Terminated(bs[b]))
           cs == [b \in DOMAIN bs |-> IF joins(b) THEN bs[b] \o br ELSE bs[b]]
<1>1. /\ bs \in Seq(Seq(Instruction)) /\ Len(bs) \in Nat
  BY DEF BlocksOK
<1>2. Joined(bs, dones, from) = New(cs)
  BY Zenon DEF Joined
<1>3. Br(end) \in Instruction /\ Br(end).op = "br" /\ Br(end).yes = end
  BY <1>1 DEF Br, Instruction, Terminators
<1>4. br \in Seq(Instruction) /\ Len(br) = 1 /\ br[1] = Br(end)
  BY <1>3
<1>5. DOMAIN bs = 1 .. Len(bs) /\ \A b \in 1 .. Len(bs) : bs[b] \in Seq(Instruction)
  BY <1>1
<1> HIDE DEF br
<1>6. \A b \in 1 .. Len(bs) : bs[b] \o br \in Seq(Instruction)
  BY <1>4, <1>5, Joining
<1>7. /\ DOMAIN cs = 1 .. Len(bs)
      /\ \A b \in 1 .. Len(bs) : cs[b] = IF joins(b) THEN bs[b] \o br ELSE bs[b]
  BY <1>5, Zenon
<1> HIDE DEF cs, joins
<1>8. \A b \in 1 .. Len(bs) : cs[b] \in Seq(Instruction)
  BY <1>5, <1>6, <1>7, Zenon
<1>9. cs \in Seq(Seq(Instruction)) /\ Len(cs) = Len(bs)
  <2> DEFINE T == Seq(Instruction)
  <2>1. cs = [b \in 1 .. Len(bs) |-> cs[b]]
    BY <1>5, <1>7 DEF cs
  <2>2. \A b \in 1 .. Len(bs) : cs[b] \in T
    BY <1>8
  <2> HIDE DEF T
  <2>3. cs \in Seq(T) /\ Len(cs) = Len(bs)
    BY <1>1, <2>1, <2>2
  <2> QED BY <2>3 DEF T
<1>10. A[end][1] = s
  BY DEF Always
<1>11. ASSUME NEW b \in 1 .. Len(bs)
       PROVE  CodeFits(w, cs[b], A[b], A) /\ End(A, cs, b) = End(A, bs, b)
  <2>1. CodeFits(w, bs[b], A[b], A)
    BY Zenon DEF Fitting
  <2>2. CASE joins(b)
    <3>1. Implies(End(A, bs, b), s)
      BY <2>2 DEF joins
    <3>2. Fits(w, Br(end), End(A, bs, b), End(A, bs, b), A)
      BY <1>3, <1>10, <3>1 DEF Fits
    <3>3. Keeps(w, br, A[b][Len(bs[b]) + 1], A)
      BY <1>4, <3>2 DEF End, Keeps
    <3>4. bs[b] \in Seq(Instruction) /\ br \in Seq(Instruction)
      BY <1>4, <1>5, Zenon
    <3>5. EndIs(A[b], bs[b], End(A, bs, b))
      BY Zenon DEF End, EndIs
    <3>6. CodeFits(w, bs[b] \o br, A[b], A) /\ EndIs(A[b], bs[b] \o br, End(A, bs, b))
      BY <2>1, <3>3, <3>4, <3>5, FitsSame, EndSame, Zenon
    <3> QED BY <1>7, <2>2, <3>6, Zenon DEF End, EndIs
  <2>3. CASE ~joins(b)
    BY <1>7, <2>1, <2>3, Zenon DEF End
  <2> QED BY <2>2, <2>3
<1>12. Fitting(w, A, cs)
  BY <1>9, <1>11, Zenon DEF Fitting
<1>13. Always(A[Len(cs) + 1], s)
  BY <1>9
<1>14. cs \in Seq(Seq(Instruction))
  BY <1>9, Zenon
<1>15. /\ Fitting(w, A, New(cs)) /\ SameEnds(A, cs, A, New(cs))
       /\ EndsWith(A, New(cs), Len(cs) + 1, s)
  BY <1>12, <1>13, <1>14, NewFits, Zenon
<1> QED BY <1>2, <1>9, <1>11, <1>15, Zenon DEF SameEnds

(* Code behind code c with the shapes a: e has the shapes of both. *)
Moves(w, c, code, a, e, A) ==
  /\ \A i \in 1 .. Len(c) + 1 : e[i] = a[i]
  /\ \A i \in 1 .. Len(code) : Fits(w, code[i], e[Len(c) + i], e[Len(c) + i + 1], A)
  /\ \A i \in Nat : i > Len(c) + Len(code) => e[i] = e[Len(c) + Len(code) + 1]

(* Code that changes the shape. *)
LEMMA EmitMoves ==
  ASSUME NEW w, NEW A \in Shapes, NEW n \in Nat, NEW bs, BlocksOK(bs, n), n <= Len(bs),
         Fitting(w, A, bs),
         NEW b \in 1 .. Len(bs), NEW code \in Seq(Instruction), NEW e \in [Nat -> Shape],
         Moves(w, bs[b], code, A[b], e, A)
  PROVE  \E B \in Shapes :
           /\ Fitting(w, B, Emit(bs, b, code))
           /\ SameEntries(A, B) /\ \A i \in Nat \ {b} : B[i] = A[i]
           /\ \A i \in 1 .. Len(bs) : i # b => End(B, Emit(bs, b, code), i) = End(A, bs, i)
           /\ EndsWith(B, Emit(bs, b, code), b, e[Len(bs[b]) + Len(code) + 1])
<1> DEFINE B == [A EXCEPT ![b] = e]
<1>0. /\ \A i \in 1 .. Len(bs[b]) + 1 : e[i] = A[b][i]
      /\ \A i \in 1 .. Len(code) : Fits(w, code[i], e[Len(bs[b]) + i], e[Len(bs[b]) + i + 1], A)
      /\ \A i \in Nat : i > Len(bs[b]) + Len(code) => e[i] = e[Len(bs[b]) + Len(code) + 1]
  BY Zenon DEF Moves
<1>1. bs \in Seq(Seq(Instruction)) /\ Len(bs) \in Nat
  BY DEF BlocksOK
<1>2. B \in Shapes /\ B[b] = e /\ (\A i \in Nat \ {b} : B[i] = A[i])
  <2> DEFINE F == [Nat -> Shape]
  <2>1. A \in [Nat -> F] /\ e \in F
    BY DEF Shapes
  <2>2. b \in Nat
    BY <1>1
  <2> HIDE DEF F
  <2>3. B \in [Nat -> F] /\ B[b] = e /\ (\A i \in Nat \ {b} : B[i] = A[i])
    BY <2>1, <2>2
  <2> QED BY <2>3 DEF F, Shapes
<1> HIDE DEF B
<1>3. bs[b] \in Seq(Instruction) /\ Len(bs[b]) \in Nat /\ Len(code) \in Nat
  BY <1>1
<1>4. 1 \in 1 .. Len(bs[b]) + 1
  BY <1>3
<1>5. \A i \in Nat : B[i][1] = A[i][1]
  BY <1>0, <1>2, <1>4
<1>6. ASSUME NEW x, NEW s, NEW t, Fits(w, x, s, t, A), x \in Instruction PROVE Fits(w, x, s, t, B)
  <2>1. x.yes \in Nat /\ x.no \in Nat
    BY <1>6 DEF Instruction
  <2>2. B[x.yes][1] = A[x.yes][1] /\ B[x.no][1] = A[x.no][1]
    BY <1>5, <2>1
  <2> QED BY <1>6, <2>2 DEF Fits
<1>7. ASSUME NEW i \in 1 .. Len(bs) PROVE CodeFits(w, bs[i], A[i], B)
  <2>1. bs[i] \in Seq(Instruction) /\ CodeFits(w, bs[i], A[i], A)
    BY <1>1 DEF Fitting
  <2>2. \A j \in 1 .. Len(bs[i]) : bs[i][j] \in Instruction
    BY <2>1
  <2> QED BY <1>6, <2>1, <2>2, Zenon DEF CodeFits
<1>8. \A i \in 1 .. Len(code) : Fits(w, code[i], e[Len(bs[b]) + i], e[Len(bs[b]) + i + 1], B)
  <2>1. \A i \in 1 .. Len(code) : code[i] \in Instruction
    OBVIOUS
  <2> QED BY <1>0, <1>6, <2>1, Zenon
<1>9. CodeFits(w, bs[b] \o code, e, B)
  BY <1>0, <1>3, <1>7, <1>8, FitsJoined, Zenon
<1>10. /\ Len(Emit(bs, b, code)) = Len(bs)
       /\ \A i \in 1 .. Len(bs) : i # b => Emit(bs, b, code)[i] = bs[i]
       /\ Emit(bs, b, code)[b] = bs[b] \o code
  BY <1>1, EmitFacts
<1>11. \A i \in 1 .. Len(bs) : i # b => B[i] = A[i]
  BY <1>1, <1>2
<1>12. Fitting(w, B, Emit(bs, b, code))
  BY <1>2, <1>7, <1>9, <1>10, <1>11, Zenon DEF Fitting
<1>13. \A i \in 1 .. Len(bs) : i # b => End(B, Emit(bs, b, code), i) = End(A, bs, i)
  BY <1>10, <1>11, Zenon DEF End
<1>14. End(B, Emit(bs, b, code), b) = e[Len(bs[b]) + Len(code) + 1]
  <2>1. Len(bs[b] \o code) = Len(bs[b]) + Len(code)
    BY <1>3, Joining
  <2> QED BY <1>2, <1>10, <2>1 DEF End
<1>15. SameEntries(A, B) /\ EndsWith(B, Emit(bs, b, code), b, e[Len(bs[b]) + Len(code) + 1])
  BY <1>5, <1>14, Zenon DEF SameEntries, EndsWith
<1> QED BY <1>2, <1>12, <1>13, <1>15
-----------------------------------------------------------------------------
(* What is known of the stack at a place in the source: the declarations in scope are on it, *)
(* and the loops around the place have saved its size.                                       *)

LoopsOf(fs) == {fs[k].at : k \in {j \in 1 .. Len(fs) : fs[j].kind = "loop"}}

VisibleTo(p) == {d \in Visible : d < p}
LoopsTo(p) == {l \in LoopsOf(open) : l < p}

Known(p) ==
  [bound |-> Here, holds |-> {0} \cup VisibleTo(p), marks |-> {0} \cup LoopsTo(p)]

(* The place where the next token is written: between two twigs that is in front of them. *)
Position == IF open # <<>> /\ Top.kind = "branch" THEN Top.at ELSE Here

Covers(s, here, visible, loops) ==
  s.bound <= here /\ {0} \cup visible \subseteq s.holds /\ {0} \cup loops \subseteq s.marks

Enough(s, p) == Covers(s, Here, VisibleTo(p), LoopsTo(p))

FrameFits(A, f) ==
  /\ f.at \in 1 .. Len(body) /\ body[f.at].kind \notin {"let", "end"}
  /\ body[f.at].kind = "branch" => f.kind = "branch" /\ f.at = Len(body)
  /\ f.kind \in Guarding =>
       /\ Enough(End(A, blocks, f.eval), f.at)
       /\ Implies(End(A, blocks, f.eval), A[f.start][1])
  /\ \A b \in f.dones : Enough(End(A, blocks, b), f.at)
  /\ f.kind = "loop" =>
       /\ f.at <= A[f.eval][1].bound
       /\ A[f.eval][1].holds \subseteq {0} \cup VisibleTo(f.at)
       /\ A[f.eval][1].marks \subseteq {0} \cup LoopsTo(f.at)

Nested(fs) == \A j, k \in 1 .. Len(fs) : j < k => fs[j].at < fs[k].at /\ fs[j].kind # "branch"

Nothing == [bound |-> 0, holds |-> {}, marks |-> {}]

ShapeInv(A) ==
  /\ A \in Shapes /\ Fitting(body, A, blocks) /\ A[1][1] = Nothing
  /\ phase = "build" =>
       /\ \A k \in 1 .. Len(open) : FrameFits(A, open[k]) /\ ~Awaits(open[k], insert)
       /\ Nested(open)
       /\ Enough(End(A, blocks, insert), Position)

(* What the next token does to the scope. *)
LEMMA VisibleFacts ==
  ASSUME body \in Seq(Token)
  PROVE  Visible \subseteq 1 .. Len(body) /\ Len(body) \in Nat /\ Here = Len(body) + 1
BY DEF Visible, Here

LEMMA WrittenScope ==
  ASSUME body \in Seq(Token), NEW kind \in Kinds, NEW reads \in Nat,
         body' = Written(kind, 0, reads)
  PROVE  /\ Len(body') = Len(body) + 1 /\ Here' = Here + 1
         /\ \A i \in 1 .. Len(body) : body'[i] = body[i]
         /\ body'[Here] = [kind |-> kind, to |-> 0, reads |-> reads]
         /\ Visible' \ {Here} = Visible /\ (Here \in Visible' => kind = "let")
<1> DEFINE x == [kind |-> kind, to |-> 0, reads |-> reads]
<1>1. x \in Token /\ x.to = 0 /\ x.kind = kind
  BY DEF Token
<1>2. body' = Append(body, x) /\ Len(body) \in Nat /\ Here = Len(body) + 1
  BY DEF Written, Here
<1> HIDE DEF x
<1>3. /\ body' \in Seq(Token) /\ Len(body') = Len(body) + 1
      /\ \A i \in 1 .. Len(body) : body'[i] = body[i]
      /\ body'[Len(body) + 1] = x
  BY <1>1, <1>2, AppendProperties
<1>4. Here' = Here + 1
  BY <1>2, <1>3 DEF Here
<1>5. DOMAIN body = 1 .. Len(body) /\ DOMAIN body' = 1 .. Len(body) + 1
  BY <1>3
<1>6. ASSUME NEW d \in 1 .. Len(body) PROVE d \in Visible' <=> d \in Visible
  <2>1. \A j \in 1 .. d - 1 : j \in 1 .. Len(body)
    BY <1>2
  <2>2. d \in 1 .. Len(body) + 1 /\ body'[d] = body[d] /\ \A j \in 1 .. d - 1 : body'[j] = body[j]
    BY <1>2, <1>3, <2>1
  <2> QED BY <1>5, <2>2, Zenon DEF Visible
<1>7. Here \in Visible' => kind = "let"
  BY <1>1, <1>2, <1>3 DEF Visible
<1>8. Visible \subseteq 1 .. Len(body) /\ Visible' \subseteq 1 .. Len(body) + 1
  BY <1>5 DEF Visible
<1>9. Visible' \ {Here} = Visible
  <2>1. ASSUME NEW d \in Visible' \ {Here} PROVE d \in Visible
    <3>1. d \in 1 .. Len(body)
      BY <1>2, <1>8
    <3> QED BY <1>6, <3>1
  <2>2. ASSUME NEW d \in Visible PROVE d \in Visible' \ {Here}
    <3>1. d \in 1 .. Len(body) /\ d # Here
      BY <1>2, <1>8
    <3> QED BY <1>6, <3>1
  <2> QED BY <2>1, <2>2
<1> QED BY <1>2, <1>3, <1>4, <1>7, <1>9 DEF x

(* The statement on top is continued or ended: what was declared inside goes out of scope. *)
LEMMA LinkedScope ==
  ASSUME body \in Seq(Token), NEW kind \in Kinds, NEW to \in Nat,
         kind \in {"end", "twig", "otherwise"}, kind # "end" => to = 0,
         NEW k, k = Top.at, k \in 1 .. Len(body), body[k].kind \notin {"let", "end"},
         body[k].kind = "branch" => k = Len(body),
         body' = Linked(kind, to)
  PROVE  /\ Len(body') = Len(body) + 1 /\ Here' = Here + 1
         /\ \A i \in 1 .. Len(body) : body'[i].kind = body[i].kind /\ body'[i].reads = body[i].reads
         /\ body'[Here].kind = kind /\ body'[Here].reads = 0
         /\ Visible' = VisibleTo(k)
<1> DEFINE x == [kind |-> kind, to |-> to, reads |-> 0]
           s == Append(body, x)
<1>1. x \in Token /\ x.to = to /\ x.kind = kind /\ x.reads = 0
  BY DEF Token
<1>2. /\ body' = [s EXCEPT ![k].to = Here] /\ Len(body) \in Nat /\ Here = Len(body) + 1
      /\ DOMAIN body = 1 .. Len(body)
  BY DEF Written, Here, Linked
<1> HIDE DEF x
<1>3. /\ s \in Seq(Token) /\ Len(s) = Len(body) + 1
      /\ \A i \in 1 .. Len(body) : s[i] = body[i]
      /\ s[Len(body) + 1] = x
  BY <1>1, AppendProperties
<1> HIDE DEF s
<1>4. /\ DOMAIN body' = 1 .. Len(body) + 1 /\ Len(body') = Len(body) + 1
      /\ \A i \in 1 .. Len(body) + 1 : i # k => body'[i] = s[i]
      /\ body'[k] = [s[k] EXCEPT !.to = Here]
  <2>1. DOMAIN s = 1 .. Len(body) + 1 /\ k \in DOMAIN s
    BY <1>2, <1>3
  <2>2. DOMAIN body' = DOMAIN s
    BY <1>2
  <2>3. Len(body') = Len(body) + 1
    <3>1. body' \in Seq(Token)
      BY LinkedTyped
    <3> QED BY <1>2, <2>1, <2>2, <3>1
  <2> QED BY <1>2, <2>1, <2>2, <2>3
<1>5. body'[k].kind = body[k].kind /\ body'[k].reads = body[k].reads /\ body'[k].to = Here
  <2>1. s[k] = body[k] /\ body[k] \in Token
    BY <1>3
  <2> QED BY <1>4, <2>1 DEF Token
<1>6. \A i \in 1 .. Len(body) : i # k => body'[i] = body[i]
  BY <1>2, <1>3, <1>4
<1>7. body'[Here] = x
  BY <1>2, <1>3, <1>4
<1>8. Here' = Here + 1
  BY <1>2, <1>4 DEF Here
<1>9. ASSUME NEW d \in VisibleTo(k) PROVE d \in Visible'
  <2>1. d \in 1 .. Len(body) /\ d < k
    BY <1>2 DEF VisibleTo, Visible
  <2>2. \A j \in 1 .. d - 1 : j \in 1 .. Len(body) /\ j # k
    BY <1>2, <2>1
  <2>3. body'[d] = body[d] /\ \A j \in 1 .. d - 1 : body'[j] = body[j]
    BY <1>6, <2>1, <2>2
  <2>4. d \in DOMAIN body'
    BY <1>2, <1>4, <2>1
  <2> QED BY <2>3, <2>4, Zenon DEF VisibleTo, Visible
<1>10. ASSUME NEW d \in Visible' PROVE d \in VisibleTo(k)
  <2>1. /\ d \in 1 .. Len(body) + 1 /\ body'[d].kind = "let"
        /\ ~ \E j \in 1 .. d - 1 : body'[j].kind \notin {"branch", "end"} /\ body'[j].to > d
    BY <1>4 DEF Visible
  <2>2. d # Here
    BY <1>1, <1>7, <2>1
  <2>3. d \in 1 .. Len(body) /\ d # k
    BY <1>2, <1>5, <2>1, <2>2
  <2>4. d < k
    <3>1. SUFFICES ASSUME ~(d < k) PROVE FALSE
      OBVIOUS
    <3>2. k \in 1 .. d - 1 /\ Here > d
      BY <1>2, <2>3, <3>1
    <3>3. CASE body[k].kind = "branch"
      BY <1>2, <2>3, <3>2, <3>3
    <3>4. CASE body[k].kind # "branch"
      BY <1>5, <2>1, <3>2, <3>4
    <3> QED BY <3>3, <3>4
  <2>5. \A j \in 1 .. d - 1 : j \in 1 .. Len(body) /\ j # k
    BY <1>2, <2>3, <2>4
  <2>6. body'[d] = body[d] /\ \A j \in 1 .. d - 1 : body'[j] = body[j]
    BY <1>6, <2>3, <2>5
  <2>7. d \in Visible
    BY <1>2, <2>1, <2>3, <2>6 DEF Visible
  <2> QED BY <2>4, <2>7 DEF VisibleTo
<1>11. \A i \in 1 .. Len(body) : body'[i].kind = body[i].kind /\ body'[i].reads = body[i].reads
  BY <1>5, <1>6, Zenon
<1>12. Visible' = VisibleTo(k)
  BY <1>9, <1>10
<1> QED BY <1>1, <1>4, <1>7, <1>8, <1>11, <1>12
-----------------------------------------------------------------------------
(* What a step of the builder leaves of what is known. *)

ScopeKept(q) ==
  \A p \in Nat : p <= q => VisibleTo(p)' = VisibleTo(p) /\ LoopsTo(p)' = LoopsTo(p)

TokensKept ==
  Len(body) <= Len(body') /\ \A i \in 1 .. Len(body) : body'[i].kind = body[i].kind

(* Only the current block ends with another shape than before. *)
ShapesKept(A, B) ==
  /\ \A b \in 1 .. Len(blocks) : b # insert => End(B, blocks', b) = End(A, blocks, b)
  /\ \A b \in 1 .. Len(blocks) : B[b][1] = A[b][1]

LEMMA CoversMore ==
  ASSUME NEW s \in Shape, NEW m \in Nat, NEW n \in Nat, m <= n, NEW visible, NEW loops,
         Covers(s, m, visible, loops)
  PROVE  Covers(s, n, visible, loops)
BY DEF Covers, Shape

LEMMA EndTyped ==
  ASSUME NEW A \in Shapes, NEW n, NEW bs, BlocksOK(bs, n), NEW b \in 1 .. Len(bs)
  PROVE  End(A, bs, b) \in Shape /\ A[b][1] \in Shape
<1>1. bs \in Seq(Seq(Instruction)) /\ b \in Nat
  BY DEF BlocksOK
<1>2. bs[b] \in Seq(Instruction)
  BY <1>1
<1>3. Len(bs[b]) + 1 \in Nat
  BY <1>2
<1> QED BY <1>1, <1>3 DEF End, Shapes

LEMMA FrameKept ==
  ASSUME body \in Seq(Token), body' \in Seq(Token), TokensKept,
         NEW A \in Shapes, NEW B, ShapesKept(A, B), BlocksOK(blocks, Len(blocks)),
         NEW q \in Nat, ScopeKept(q),
         NEW f, FrameOK(f, Len(blocks)), FrameFits(A, f), ~Awaits(f, insert),
         f.at <= q, f.kind # "branch"
  PROVE  FrameFits(B, f)'
<1>1. f \in Frame /\ f.at \in 1 .. Len(body) /\ f.at \in Nat /\ Len(body) \in Nat /\ Len(body') \in Nat
  BY DEF FrameFits, FrameOK
<1>2. f.at \in 1 .. Len(body') /\ body'[f.at].kind = body[f.at].kind
  BY <1>1 DEF TokensKept
<1>3. body'[f.at].kind \notin {"let", "end", "branch"}
  BY <1>2 DEF FrameFits
<1>4. VisibleTo(f.at)' = VisibleTo(f.at) /\ LoopsTo(f.at)' = LoopsTo(f.at)
  BY <1>1, Zenon DEF ScopeKept
<1>5. Here <= Here' /\ Here \in Nat /\ Here' \in Nat
  BY DEF Here, TokensKept
<1>6. ASSUME NEW b \in 1 .. Len(blocks), b # insert, Enough(End(A, blocks, b), f.at)
      PROVE  /\ End(B, blocks', b) = End(A, blocks, b)
             /\ Covers(End(B, blocks', b), Here', VisibleTo(f.at)', LoopsTo(f.at)')
  <2>1. End(B, blocks', b) = End(A, blocks, b)
    BY <1>6 DEF ShapesKept
  <2>2. End(A, blocks, b) \in Shape
    BY EndTyped
  <2>3. Covers(End(A, blocks, b), Here, VisibleTo(f.at), LoopsTo(f.at))
    BY <1>6, Zenon DEF Enough
  <2>4. Covers(End(A, blocks, b), Here', VisibleTo(f.at), LoopsTo(f.at))
    BY <1>5, <2>2, <2>3, CoversMore
  <2> QED BY <1>4, <2>1, <2>4
<1>7. 2 .. Len(blocks) \subseteq 1 .. Len(blocks)
  BY DEF BlocksOK
<1>8. f.kind \in Guarding =>
        /\ Covers(End(B, blocks', f.eval), Here', VisibleTo(f.at)', LoopsTo(f.at)')
        /\ Implies(End(B, blocks', f.eval), B[f.start][1])
        /\ f.kind = "loop" =>
             /\ f.at <= B[f.eval][1].bound
             /\ B[f.eval][1].holds \subseteq {0} \cup VisibleTo(f.at)'
             /\ B[f.eval][1].marks \subseteq {0} \cup LoopsTo(f.at)'
  <2>0. SUFFICES ASSUME f.kind \in Guarding
        PROVE  /\ Covers(End(B, blocks', f.eval), Here', VisibleTo(f.at)', LoopsTo(f.at)')
               /\ Implies(End(B, blocks', f.eval), B[f.start][1])
               /\ f.kind = "loop" =>
                    /\ f.at <= B[f.eval][1].bound
                    /\ B[f.eval][1].holds \subseteq {0} \cup VisibleTo(f.at)'
                    /\ B[f.eval][1].marks \subseteq {0} \cup LoopsTo(f.at)'
    OBVIOUS
  <2>1. /\ f.eval \in 1 .. Len(blocks) /\ f.start \in 1 .. Len(blocks) /\ f.eval # insert
        /\ Enough(End(A, blocks, f.eval), f.at) /\ Implies(End(A, blocks, f.eval), A[f.start][1])
    BY <1>7, <2>0 DEF FrameOK, FrameFits, Awaits
  <2>2. /\ End(B, blocks', f.eval) = End(A, blocks, f.eval)
        /\ Covers(End(B, blocks', f.eval), Here', VisibleTo(f.at)', LoopsTo(f.at)')
    BY <1>6, <2>1
  <2>3. B[f.start][1] = A[f.start][1] /\ B[f.eval][1] = A[f.eval][1]
    BY <2>1 DEF ShapesKept
  <2>4. /\ Covers(End(B, blocks', f.eval), Here', VisibleTo(f.at)', LoopsTo(f.at)')
        /\ Implies(End(B, blocks', f.eval), B[f.start][1])
    BY <2>1, <2>2, <2>3
  <2>5. f.kind = "loop" =>
          /\ f.at <= B[f.eval][1].bound
          /\ B[f.eval][1].holds \subseteq {0} \cup VisibleTo(f.at)'
          /\ B[f.eval][1].marks \subseteq {0} \cup LoopsTo(f.at)'
    BY <1>4, <2>3 DEF FrameFits
  <2> QED BY <2>4, <2>5
<1>9. \A b \in f.dones : Covers(End(B, blocks', b), Here', VisibleTo(f.at)', LoopsTo(f.at)')
  BY <1>6, <1>7 DEF FrameOK, FrameFits, Awaits
<1>10. f.kind = "loop" => f.kind \in Guarding
  BY DEF Guarding
<1> QED BY <1>2, <1>3, <1>8, <1>9, <1>10 DEF FrameFits, Enough

(* The statements around the one that is opened, continued or closed at q. *)
Outer(ks, q) ==
  /\ ks \in Seq(Frame) /\ Len(ks) <= Len(open)
  /\ \A i \in 1 .. Len(ks) : ks[i] = open[i] /\ ks[i].at < q /\ ks[i].kind # "branch"

LEMMA OuterOpen ==
  ASSUME BuildInv, NEW A, ShapeInv(A), phase = "build", InBlock
  PROVE  Outer(open, Here) /\ Len(open) \in Nat
<1>1. open \in Seq(Frame) /\ Len(open) \in Nat /\ body \in Seq(Token)
  BY DEF BuildInv, OpenOK
<1>2. ASSUME NEW i \in 1 .. Len(open) PROVE open[i].at < Here /\ open[i].kind # "branch"
  <2>1. open[i].at \in 1 .. Len(body)
    BY DEF ShapeInv, FrameFits
  <2>2. open[i].at < Here
    BY <1>1, <2>1 DEF Here
  <2>3. CASE i = Len(open)
    BY <1>1, <2>2, <2>3 DEF InBlock, Top
  <2>4. CASE i # Len(open)
    <3>1. i < Len(open) /\ Len(open) \in 1 .. Len(open)
      BY <1>1, <2>4
    <3> QED BY <2>2, <3>1 DEF ShapeInv, Nested
  <2> QED BY <2>3, <2>4
<1> QED BY <1>1, <1>2 DEF Outer

LEMMA OuterBelow ==
  ASSUME BuildInv, NEW A, ShapeInv(A), phase = "build", open # <<>>
  PROVE  /\ Outer(Below, Top.at) /\ Len(Below) \in Nat
         /\ open \in Seq(Frame) /\ Len(open) \in Nat /\ Len(open) = Len(Below) + 1
         /\ Top \in Frame /\ FrameOK(Top, Len(blocks)) /\ FrameFits(A, Top) /\ ~Awaits(Top, insert)
         /\ \A i \in 1 .. Len(Below) : Below[i] = open[i]
<1>1. open \in Seq(Frame) /\ Len(open) \in Nat /\ Len(open) >= 1
  BY DEF BuildInv, OpenOK
<1>2. Len(open) - 1 \in 0 .. Len(open) /\ Len(open) \in 1 .. Len(open)
      /\ \A i \in 1 .. Len(open) - 1 : i \in 1 .. Len(open) /\ i < Len(open)
  BY <1>1
<1>3. /\ Below \in Seq(Frame) /\ Len(Below) = Len(open) - 1
      /\ \A i \in 1 .. Len(open) - 1 : Below[i] = open[i]
  BY <1>1, <1>2, UpTo DEF Below
<1>4. Top = open[Len(open)]
  BY DEF Top
<1>5. FrameOK(Top, Len(blocks)) /\ FrameFits(A, Top) /\ ~Awaits(Top, insert)
  BY <1>2, <1>4 DEF BuildInv, OpenOK, ShapeInv
<1>6. \A i \in 1 .. Len(Below) : open[i].at < Top.at /\ open[i].kind # "branch"
  BY <1>2, <1>3, <1>4 DEF ShapeInv, Nested
<1>7. Outer(Below, Top.at)
  BY <1>1, <1>3, <1>6 DEF Outer
<1> QED BY <1>1, <1>3, <1>5, <1>7 DEF FrameOK

LEMMA LoopsPushed ==
  ASSUME NEW fs \in Seq(Frame), NEW f \in Frame, NEW gs \in Seq(Frame), Len(gs) = Len(fs) + 1,
         \A i \in 1 .. Len(fs) : gs[i] = fs[i], gs[Len(fs) + 1] = f
  PROVE  LoopsOf(gs) = LoopsOf(fs) \cup (IF f.kind = "loop" THEN {f.at} ELSE {})
<1>1. Len(fs) \in Nat
  OBVIOUS
<1>2. ASSUME NEW l \in LoopsOf(gs) PROVE l \in LoopsOf(fs) \/ (f.kind = "loop" /\ l = f.at)
  <2>1. PICK k \in 1 .. Len(gs) : gs[k].kind = "loop" /\ l = gs[k].at
    BY DEF LoopsOf
  <2>2. CASE k \in 1 .. Len(fs)
    BY <2>1, <2>2 DEF LoopsOf
  <2>3. CASE k = Len(fs) + 1
    BY <2>1, <2>3
  <2> QED BY <1>1, <2>2, <2>3
<1>3. ASSUME NEW l \in LoopsOf(fs) PROVE l \in LoopsOf(gs)
  <2>1. PICK k \in 1 .. Len(fs) : fs[k].kind = "loop" /\ l = fs[k].at
    BY DEF LoopsOf
  <2>2. k \in 1 .. Len(gs) /\ gs[k] = fs[k]
    BY <1>1
  <2> QED BY <2>1, <2>2 DEF LoopsOf
<1>4. f.kind = "loop" => f.at \in LoopsOf(gs)
  <2>1. Len(fs) + 1 \in 1 .. Len(gs)
    BY <1>1
  <2> QED BY <2>1 DEF LoopsOf
<1> QED BY <1>2, <1>3, <1>4

LEMMA LoopsTyped ==
  ASSUME BuildInv, NEW A, ShapeInv(A), phase = "build"
  PROVE  LoopsOf(open) \subseteq 1 .. Len(body)
BY DEF LoopsOf, ShapeInv, FrameFits

(* The statements around it await the same blocks as before, with the same shapes. *)
LEMMA OuterFits ==
  ASSUME BuildInv, BuildInv', NEW A, ShapeInv(A), phase = "build",
         NEW B \in Shapes, ShapesKept(A, B), TokensKept,
         NEW q \in Nat, ScopeKept(q), NEW ks, Outer(ks, q),
         insert' = insert \/ insert' > Len(blocks)
  PROVE  \A i \in 1 .. Len(ks) : FrameFits(B, ks[i])' /\ ~Awaits(ks[i], insert')
<1>1. ks \in Seq(Frame) /\ Len(ks) \in Nat /\ Len(ks) <= Len(open) /\ Len(open) \in Nat
  BY DEF Outer, BuildInv, OpenOK
<1>2. body \in Seq(Token) /\ body' \in Seq(Token) /\ BlocksOK(blocks, Len(blocks)) /\ A \in Shapes
      /\ Len(blocks) \in Nat
  BY DEF BuildInv, ShapeInv, BlocksOK
<1>3. ASSUME NEW i \in 1 .. Len(ks) PROVE FrameFits(B, ks[i])' /\ ~Awaits(ks[i], insert')
  <2> DEFINE f == ks[i]
  <2>1. i \in 1 .. Len(open) /\ f = open[i] /\ f.at < q /\ f.kind # "branch" /\ f \in Frame
    BY <1>1 DEF Outer
  <2>2. FrameOK(f, Len(blocks)) /\ FrameFits(A, f) /\ ~Awaits(f, insert)
    BY <2>1 DEF BuildInv, OpenOK, ShapeInv
  <2>3. f.at <= q
    BY <2>1 DEF Frame
  <2>4. PICK g : g = f
    OBVIOUS
  <2>5. FrameFits(B, g)'
    BY <1>2, <2>1, <2>2, <2>3, <2>4, FrameKept
  <2>6. ~Awaits(f, insert')
    BY <1>2, <2>2 DEF Awaits, FrameOK
  <2> QED BY <2>4, <2>5, <2>6
<1> QED BY <1>3

LEMMA FrameFitsAt ==
  ASSUME NEW B, NEW f, NEW i, open'[i] = f, FrameFits(B, f)'
  PROVE  FrameFits(B, open[i])'
BY DEF FrameFits, Enough

LEMMA StillFits ==
  ASSUME BuildInv, BuildInv', NEW A, ShapeInv(A), phase = "build",
         NEW B \in Shapes, ShapesKept(A, B), TokensKept, Fitting(body', B, blocks'),
         NEW q \in Nat, ScopeKept(q), Outer(open', q),
         insert' = insert \/ insert' > Len(blocks),
         Enough(End(B, blocks, insert), Here)'
  PROVE  ShapeInv(B)'
<1>1. PICK ks : ks = open'
  OBVIOUS
<1>2. \A i \in 1 .. Len(ks) : FrameFits(B, ks[i])' /\ ~Awaits(ks[i], insert')
  BY <1>1, OuterFits
<1>3. \A i \in 1 .. Len(open') : FrameFits(B, open[i])' /\ ~Awaits(open'[i], insert')
  BY <1>1, <1>2, FrameFitsAt
<1>4. ks \in Seq(Frame) /\ Len(ks) \in Nat /\ Len(ks) <= Len(open)
      /\ \A i \in 1 .. Len(ks) : ks[i] = open[i] /\ ks[i].kind # "branch"
      /\ Len(open) \in Nat
  BY <1>1 DEF Outer, BuildInv, OpenOK
<1>5. Nested(ks)
  <2>1. \A i \in 1 .. Len(ks) : i \in 1 .. Len(open)
    BY <1>4
  <2>2. Nested(open)
    BY DEF ShapeInv
  <2> QED BY <1>4, <2>1, <2>2 DEF Nested
<1>6. Position' = Here'
  <2>1. ks = <<>> \/ Len(ks) \in 1 .. Len(ks)
    BY <1>4
  <2> QED BY <1>1, <1>4, <2>1 DEF Position, Top
<1>7. B[1][1] = Nothing
  <2>1. 1 \in 1 .. Len(blocks)
    BY DEF BuildInv, BlocksOK
  <2> QED BY <2>1 DEF ShapesKept, ShapeInv
<1>8. Enough(End(B, blocks, insert), Position)'
  BY <1>6 DEF Enough, VisibleTo, LoopsTo
<1> QED BY <1>1, <1>3, <1>5, <1>7, <1>8 DEF ShapeInv

(* A statement is opened, or continued by its next part. *)
LEMMA StillFitsBelow ==
  ASSUME BuildInv, BuildInv', NEW A, ShapeInv(A), phase = "build",
         NEW B \in Shapes, ShapesKept(A, B), TokensKept, Fitting(body', B, blocks'),
         NEW q \in Nat, ScopeKept(q), NEW ks, Outer(ks, q),
         insert' = insert \/ insert' > Len(blocks),
         NEW f \in Frame, open' = Append(ks, f), q <= f.at,
         FrameFits(B, f)', ~Awaits(f, insert'),
         f.kind = "branch" => Enough(End(B, blocks, insert), f.at)',
         f.kind # "branch" => Enough(End(B, blocks, insert), Here)'
  PROVE  ShapeInv(B)'
<1>1. PICK gs : gs = open'
  OBVIOUS
<1>2. \A i \in 1 .. Len(ks) : FrameFits(B, ks[i])' /\ ~Awaits(ks[i], insert')
  BY OuterFits
<1>3. ks \in Seq(Frame) /\ Len(ks) \in Nat /\ Len(ks) <= Len(open)
      /\ \A i \in 1 .. Len(ks) : ks[i] = open[i] /\ ks[i].kind # "branch" /\ ks[i].at < q
                                 /\ ks[i] \in Frame
      /\ Len(open) \in Nat
  BY DEF Outer, BuildInv, OpenOK
<1>4. /\ gs \in Seq(Frame) /\ Len(gs) = Len(ks) + 1
      /\ \A i \in 1 .. Len(ks) : gs[i] = ks[i]
      /\ gs[Len(ks) + 1] = f
  BY <1>1, <1>3, AppendProperties
<1>5. \A i \in 1 .. Len(gs) : i \in 1 .. Len(ks) \/ i = Len(ks) + 1
  BY <1>3, <1>4
<1>6. \A i \in 1 .. Len(gs) : FrameFits(B, gs[i])' /\ ~Awaits(gs[i], insert')
  <2>1. ASSUME NEW i \in 1 .. Len(ks) PROVE FrameFits(B, gs[i])' /\ ~Awaits(gs[i], insert')
    <3>1. gs[i] = ks[i]
      BY <1>4
    <3> QED BY <1>2, <3>1
  <2>2. FrameFits(B, gs[Len(ks) + 1])' /\ ~Awaits(gs[Len(ks) + 1], insert')
    BY <1>4
  <2> QED BY <1>5, <2>1, <2>2
<1>7. \A i \in 1 .. Len(open') : FrameFits(B, open[i])' /\ ~Awaits(open'[i], insert')
  BY <1>1, <1>6, FrameFitsAt
<1>8. Nested(gs)
  <2>1. \A i \in 1 .. Len(ks) : i \in 1 .. Len(open)
    BY <1>3
  <2>2. Nested(open)
    BY DEF ShapeInv
  <2>3. ASSUME NEW j \in 1 .. Len(gs), NEW k \in 1 .. Len(gs), j < k
        PROVE  gs[j].at < gs[k].at /\ gs[j].kind # "branch"
    <3>1. j \in 1 .. Len(ks)
      BY <1>3, <1>5, <2>3
    <3>2. CASE k \in 1 .. Len(ks)
      BY <1>3, <1>4, <2>1, <2>2, <2>3, <3>1, <3>2 DEF Nested
    <3>3. CASE k = Len(ks) + 1
      <4>1. gs[j] = ks[j] /\ gs[k] = f /\ ks[j] \in Frame /\ ks[j].at < q /\ ks[j].kind # "branch"
        BY <1>3, <1>4, <3>1, <3>3
      <4>2. ks[j].at < f.at
        BY <4>1 DEF Frame
      <4> QED BY <4>1, <4>2
    <3> QED BY <1>5, <3>2, <3>3
  <2> QED BY <2>3 DEF Nested
<1>9. Position' = IF f.kind = "branch" THEN f.at ELSE Here'
  <2>1. gs # <<>> /\ gs[Len(gs)] = f
    BY <1>3, <1>4
  <2> QED BY <1>1, <2>1 DEF Position, Top
<1>10. B[1][1] = Nothing
  <2>1. 1 \in 1 .. Len(blocks)
    BY DEF BuildInv, BlocksOK
  <2> QED BY <2>1 DEF ShapesKept, ShapeInv
<1>11. Enough(End(B, blocks, insert), Position)'
  <2>1. CASE f.kind = "branch"
    BY <1>9, <2>1 DEF Enough, VisibleTo, LoopsTo
  <2>2. CASE f.kind # "branch"
    BY <1>9, <2>2 DEF Enough, VisibleTo, LoopsTo
  <2> QED BY <2>1, <2>2
<1> QED BY <1>1, <1>7, <1>8, <1>10, <1>11 DEF ShapeInv

LoopsGrow(ls) == ls \subseteq {Here} /\ LoopsOf(open') = LoopsOf(open) \cup ls

(* The scope after a token that begins a statement, and after one that goes on with one. *)
LEMMA WrittenKeepsScope ==
  ASSUME BuildInv, NEW A, ShapeInv(A), phase = "build",
         NEW kind \in Kinds, NEW reads \in Nat, body' = Written(kind, 0, reads),
         NEW ls, LoopsGrow(ls)
  PROVE  /\ TokensKept /\ ScopeKept(Here) /\ Here \in Nat /\ Here' = Here + 1
         /\ Visible = VisibleTo(Here) /\ LoopsOf(open) = LoopsTo(Here)
         /\ Visible' \subseteq Visible \cup {Here} /\ (kind # "let" => Visible' = Visible)
         /\ Continues(body', body)
         /\ body'[Here].kind = kind /\ body'[Here].reads = reads /\ Here \in DOMAIN body'
<1>0. ls \subseteq {Here} /\ LoopsOf(open') = LoopsOf(open) \cup ls
  BY Zenon DEF LoopsGrow
<1>1. body \in Seq(Token) /\ body' \in Seq(Token)
  BY WrittenTyped DEF BuildInv
<1>2. /\ Len(body') = Len(body) + 1 /\ Here' = Here + 1
      /\ \A i \in 1 .. Len(body) : body'[i] = body[i]
      /\ body'[Here] = [kind |-> kind, to |-> 0, reads |-> reads]
      /\ Visible' \ {Here} = Visible /\ (Here \in Visible' => kind = "let")
  BY <1>1, WrittenScope
<1>3. /\ Len(body) \in Nat /\ Here = Len(body) + 1 /\ Here \in Nat
      /\ Visible \subseteq 1 .. Len(body) /\ LoopsOf(open) \subseteq 1 .. Len(body)
  BY <1>1, VisibleFacts, LoopsTyped
<1>4. Visible = VisibleTo(Here) /\ LoopsOf(open) = LoopsTo(Here)
  <2>1. \A d \in 1 .. Len(body) : d < Here
    BY <1>3
  <2> HIDE DEF Here
  <2>2. \A d \in Visible : d < Here
    BY <1>3, <2>1, Zenon
  <2>3. \A d \in LoopsOf(open) : d < Here
    BY <1>3, <2>1, Zenon
  <2>4. Visible = VisibleTo(Here)
    BY <2>2, Zenon DEF VisibleTo
  <2>5. LoopsOf(open) = LoopsTo(Here)
    BY <2>3, Zenon DEF LoopsTo
  <2> QED BY <2>4, <2>5
<1>5. ASSUME NEW p \in Nat, p <= Here
      PROVE  VisibleTo(p)' = VisibleTo(p) /\ LoopsTo(p)' = LoopsTo(p)
  <2>1. \A d : d < p /\ d \in Nat => d # Here
    BY <1>3, <1>5
  <2>2. Here \in Nat /\ 1 .. Len(body) \subseteq Nat
    BY <1>3
  <2>3. Visible' \subseteq Nat /\ LoopsOf(open') \subseteq Nat
    BY <1>0, <1>2, <1>3, <2>2, Zenon
  <2> HIDE DEF Here
  <2>4. \A d \in Nat : d < p => (d \in Visible' <=> d \in Visible)
                          /\ (d \in LoopsOf(open') <=> d \in LoopsOf(open))
    BY <1>0, <1>2, <2>1, Zenon
  <2>5. Visible \subseteq Nat /\ LoopsOf(open) \subseteq Nat
    BY <1>3, <2>2, Zenon
  <2>6. VisibleTo(p)' = VisibleTo(p)
    BY <2>3, <2>4, <2>5 DEF VisibleTo
  <2>7. LoopsTo(p)' = LoopsTo(p)
    BY <2>3, <2>4, <2>5 DEF LoopsTo
  <2> QED BY <2>6, <2>7
<1>6. Continues(body', body) /\ TokensKept
  BY <1>1, <1>2, <1>3 DEF Continues, TokensKept
<1>7. Here \in DOMAIN body'
  BY <1>1, <1>2, <1>3
<1>8. body'[Here].kind = kind /\ body'[Here].reads = reads
  BY <1>2
<1>9. Visible' \subseteq Visible \cup {Here} /\ (kind # "let" => Visible' = Visible)
  BY <1>2
<1>10. ScopeKept(Here)
  BY <1>5, Zenon DEF ScopeKept
<1> QED BY <1>2, <1>3, <1>4, <1>6, <1>7, <1>8, <1>9, <1>10

LEMMA LinkedKeepsScope ==
  ASSUME BuildInv, NEW A, ShapeInv(A), phase = "build", open # <<>>,
         NEW kind \in {"end", "twig", "otherwise"}, NEW to \in Nat, kind # "end" => to = 0,
         body' = Linked(kind, to), LoopsOf(open') = LoopsOf(Below)
  PROVE  /\ TokensKept /\ ScopeKept(Top.at) /\ Top.at \in Nat /\ Top.at < Here
         /\ Here \in Nat /\ Here' = Here + 1
         /\ Visible' = VisibleTo(Top.at) /\ LoopsOf(open') = LoopsTo(Top.at)
         /\ Continues(body', body)
         /\ body'[Here].kind = kind /\ body'[Here].reads = 0 /\ Here \in DOMAIN body'
<1> DEFINE k == Top.at
<1>1. kind \in Kinds
  BY DEF Kinds, Conditions
<1>2. body \in Seq(Token) /\ body' \in Seq(Token)
  BY <1>1, LinkedTyped DEF BuildInv
<1>3. FrameFits(A, Top) /\ Top \in Frame /\ Outer(Below, k)
  BY OuterBelow
<1>4. k \in 1 .. Len(body) /\ body[k].kind \notin {"let", "end"} /\ (body[k].kind = "branch" => k = Len(body))
  BY <1>3 DEF FrameFits
<1>5. /\ Len(body') = Len(body) + 1 /\ Here' = Here + 1
      /\ \A i \in 1 .. Len(body) : body'[i].kind = body[i].kind /\ body'[i].reads = body[i].reads
      /\ body'[Here].kind = kind /\ body'[Here].reads = 0
      /\ Visible' = VisibleTo(k)
  BY <1>1, <1>2, <1>4, LinkedScope
<1>6. /\ Len(body) \in Nat /\ Here = Len(body) + 1 /\ Here \in Nat
      /\ Visible \subseteq 1 .. Len(body) /\ LoopsOf(open) \subseteq 1 .. Len(body)
  BY <1>2, VisibleFacts, LoopsTyped
<1>7. LoopsOf(Below) = LoopsTo(k)
  <2>1. \A l \in LoopsOf(Below) : l < k /\ l \in LoopsOf(open)
    <3>1. ASSUME NEW l \in LoopsOf(Below) PROVE l < k
      BY <1>3 DEF LoopsOf, Outer
    <3>2. LoopsOf(open) = LoopsOf(Below) \cup (IF Top.kind = "loop" THEN {Top.at} ELSE {})
      <4>1. /\ open \in Seq(Frame) /\ Len(open) = Len(Below) + 1 /\ Top \in Frame
            /\ \A i \in 1 .. Len(Below) : Below[i] = open[i]
            /\ Below \in Seq(Frame)
        BY OuterBelow DEF Outer
      <4>2. open[Len(Below) + 1] = Top
        BY <4>1 DEF Top
      <4> QED BY <4>1, <4>2, LoopsPushed
    <3> QED BY <3>1, <3>2
  <2>2. ASSUME NEW l \in LoopsOf(open), l < k PROVE l \in LoopsOf(Below)
    <3>1. PICK i \in 1 .. Len(open) : open[i].kind = "loop" /\ l = open[i].at
      BY DEF LoopsOf
    <3>2. i # Len(open)
      BY <1>4, <1>6, <2>2, <3>1 DEF Top
    <3>3. /\ Len(open) = Len(Below) + 1 /\ Len(Below) \in Nat
          /\ \A j \in 1 .. Len(Below) : Below[j] = open[j]
      BY OuterBelow
    <3>4. i \in 1 .. Len(Below)
      BY <3>2, <3>3
    <3> QED BY <3>1, <3>3, <3>4 DEF LoopsOf
  <2> QED BY <2>1, <2>2 DEF LoopsTo
<1>8. ASSUME NEW p \in Nat, p <= k
      PROVE  VisibleTo(p)' = VisibleTo(p) /\ LoopsTo(p)' = LoopsTo(p)
  <2>1. Visible \subseteq Nat /\ LoopsOf(open) \subseteq Nat
    BY <1>6
  <2>2. \A d \in Nat : d < p => d < k
    BY <1>4, <1>6, <1>8
  <2> QED BY <1>5, <1>7, <2>1, <2>2 DEF VisibleTo, LoopsTo
<1>9. Continues(body', body) /\ TokensKept
  BY <1>2, <1>5, <1>6 DEF Continues, TokensKept
<1>10. Here \in DOMAIN body'
  BY <1>2, <1>5, <1>6
<1>11. k < Here /\ k \in Nat
  BY <1>4, <1>6
<1> QED BY <1>5, <1>6, <1>7, <1>8, <1>9, <1>10, <1>11 DEF ScopeKept
-----------------------------------------------------------------------------
(* Code of one instruction. *)

LEMMA EvalFits ==
  ASSUME NEW w, NEW A, NEW at \in Nat, at \in DOMAIN w, NEW s \in Shape,
         w[at].kind # "ret" => {0, w[at].reads} \subseteq s.holds
  PROVE  /\ <<Plain("eval", at)>> \in Seq(Instruction)
         /\ Keeps(w, <<Plain("eval", at)>>, s, A)
<1> DEFINE x == Plain("eval", at)
<1>1. x \in Instruction /\ x.op = "eval" /\ x.at = at
  BY DEF Plain, Instruction, Terminators
<1> HIDE DEF x
<1>2. Fits(w, x, s, s, A)
  BY <1>1, ImpliesItself DEF Fits
<1>3. <<x>> \in Seq(Instruction) /\ \A i \in 1 .. Len(<<x>>) : <<x>>[i] = x
  BY <1>1
<1> QED BY <1>2, <1>3 DEF Keeps, x

LEMMA BrFits ==
  ASSUME NEW w, NEW A, NEW b \in Nat, NEW s, Implies(s, A[b][1])
  PROVE  <<Br(b)>> \in Seq(Instruction) /\ Keeps(w, <<Br(b)>>, s, A)
<1> DEFINE x == Br(b)
<1>1. x \in Instruction /\ x.op = "br" /\ x.yes = b
  BY DEF Br, Instruction, Terminators
<1> HIDE DEF x
<1>2. Fits(w, x, s, s, A)
  BY <1>1 DEF Fits
<1>3. <<x>> \in Seq(Instruction) /\ \A i \in 1 .. Len(<<x>>) : <<x>>[i] = x
  BY <1>1
<1> QED BY <1>2, <1>3 DEF Keeps, x

LEMMA CondBrFits ==
  ASSUME NEW w, NEW A, NEW at \in Nat, NEW b \in Nat, NEW c \in Nat, NEW s,
         Implies(s, A[b][1]), Implies(s, A[c][1])
  PROVE  <<CondBr(at, b, c)>> \in Seq(Instruction) /\ Keeps(w, <<CondBr(at, b, c)>>, s, A)
<1> DEFINE x == CondBr(at, b, c)
<1>1. x \in Instruction /\ x.op = "condbr" /\ x.yes = b /\ x.no = c
  BY DEF CondBr, Instruction, Terminators
<1> HIDE DEF x
<1>2. Fits(w, x, s, s, A)
  BY <1>1 DEF Fits
<1>3. <<x>> \in Seq(Instruction) /\ \A i \in 1 .. Len(<<x>>) : <<x>>[i] = x
  BY <1>1
<1> QED BY <1>2, <1>3 DEF Keeps, x

(* Code whose first instruction changes the shape from s to t. *)
Turns(w, code, s, t, A) ==
  /\ code # <<>> /\ Fits(w, code[1], s, t, A)
  /\ \A i \in 2 .. Len(code) : Fits(w, code[i], t, t, A)

LEMMA EmitTurns ==
  ASSUME NEW w, NEW A \in Shapes, NEW n \in Nat, NEW bs, BlocksOK(bs, n), n <= Len(bs),
         Fitting(w, A, bs),
         NEW b \in 1 .. Len(bs), NEW code \in Seq(Instruction), NEW t \in Shape,
         Turns(w, code, End(A, bs, b), t, A)
  PROVE  \E B \in Shapes :
           /\ Fitting(w, B, Emit(bs, b, code))
           /\ SameEntries(A, B) /\ \A i \in Nat \ {b} : B[i] = A[i]
           /\ \A i \in 1 .. Len(bs) : i # b => End(B, Emit(bs, b, code), i) = End(A, bs, i)
           /\ EndsWith(B, Emit(bs, b, code), b, t)
<1> DEFINE k == Len(bs[b])
           m == Len(code)
           e == [i \in Nat |-> IF i <= k + 1 THEN A[b][i] ELSE t]
<1>0. /\ code # <<>> /\ Fits(w, code[1], End(A, bs, b), t, A)
      /\ \A i \in 2 .. Len(code) : Fits(w, code[i], t, t, A)
  BY Zenon DEF Turns
<1>1. bs \in Seq(Seq(Instruction)) /\ b \in Nat
  BY DEF BlocksOK
<1>2. bs[b] \in Seq(Instruction)
  BY <1>1
<1>3. k \in Nat /\ m \in Nat /\ m >= 1
  BY <1>0, <1>2
<1>4. A[b] \in [Nat -> Shape]
  BY <1>1 DEF Shapes
<1> HIDE DEF k, m
<1>5. e \in [Nat -> Shape]
  BY <1>4
<1>6. \A i \in 1 .. k + 1 : e[i] = A[b][i]
  BY <1>3
<1>7. \A i \in Nat : i > k + 1 => e[i] = t
  BY <1>3
<1>8. e[k + 1] = End(A, bs, b)
  BY <1>3, <1>6 DEF End, k
<1> HIDE DEF e
<1>9. ASSUME NEW i \in 1 .. m PROVE Fits(w, code[i], e[k + i], e[k + i + 1], A)
  <2>1. k + i + 1 \in Nat /\ k + i + 1 > k + 1
    BY <1>3
  <2>2. e[k + i + 1] = t
    BY <1>7, <2>1
  <2>3. CASE i = 1
    <3>1. e[k + i] = End(A, bs, b)
      BY <1>8, <2>3
    <3>2. Fits(w, code[i], End(A, bs, b), t, A)
      BY <1>0, <2>3
    <3> QED BY <2>2, <3>1, <3>2, Zenon
  <2>4. CASE i # 1
    <3>1. i \in 2 .. m /\ k + i \in Nat /\ k + i > k + 1
      BY <1>3, <2>4
    <3>2. e[k + i] = t
      BY <1>7, <3>1
    <3>3. Fits(w, code[i], t, t, A)
      BY <1>0, <3>1 DEF m
    <3> QED BY <2>2, <3>2, <3>3, Zenon
  <2> QED BY <2>3, <2>4
<1>10. \A i \in Nat : i > k + m => e[i] = e[k + m + 1]
  <2>1. k + m + 1 \in Nat /\ k + m + 1 > k + 1 /\ \A i \in Nat : i > k + m => i > k + 1
    BY <1>3
  <2> QED BY <1>7, <2>1, Zenon
<1>11. e[k + m + 1] = t
  <2>1. k + m + 1 \in Nat /\ k + m + 1 > k + 1
    BY <1>3
  <2> QED BY <1>7, <2>1
<1>12. Moves(w, bs[b], code, A[b], e, A)
  BY <1>6, <1>9, <1>10, Zenon DEF Moves, k, m
<1>13. e[Len(bs[b]) + Len(code) + 1] = t
  BY <1>11 DEF k, m
<1>14. PICK B \in Shapes :
         /\ Fitting(w, B, Emit(bs, b, code))
         /\ SameEntries(A, B) /\ \A i \in Nat \ {b} : B[i] = A[i]
         /\ \A i \in 1 .. Len(bs) : i # b => End(B, Emit(bs, b, code), i) = End(A, bs, i)
         /\ EndsWith(B, Emit(bs, b, code), b, e[Len(bs[b]) + Len(code) + 1])
  BY <1>5, <1>12, EmitMoves, Zenon
<1> QED BY <1>13, <1>14

-----------------------------------------------------------------------------
(* Where a token is written. *)

LEMMA CoversLess ==
  ASSUME NEW s, NEW m, NEW visible, NEW loops, NEW fewer, NEW less,
         Covers(s, m, visible, loops), fewer \subseteq visible, less \subseteq loops
  PROVE  Covers(s, m, fewer, less)
BY DEF Covers

(* What is known suffices for what is known at p in general. *)
LEMMA EnoughKnown ==
  ASSUME NEW s, NEW p, Enough(s, p)
  PROVE  Implies(s, Known(p))
BY DEF Enough, Covers, Implies, Known

LEMMA KnownTyped ==
  ASSUME BuildInv, NEW A, ShapeInv(A), phase = "build", NEW p
  PROVE  /\ Known(p) \in Shape /\ Known(p).bound = Here
         /\ Known(p).holds = {0} \cup VisibleTo(p) /\ Known(p).marks = {0} \cup LoopsTo(p)
         /\ Covers(Known(p), Here, VisibleTo(p), LoopsTo(p))
<1>1. body \in Seq(Token)
  BY DEF BuildInv
<1>2. Len(body) \in Nat /\ Here \in Nat /\ 1 .. Len(body) \subseteq Nat /\ 0 \in Nat
  BY <1>1 DEF Here
<1>3. VisibleTo(p) \subseteq Nat /\ LoopsTo(p) \subseteq Nat
  BY <1>1, <1>2, VisibleFacts, LoopsTyped DEF VisibleTo, LoopsTo
<1>4. Known(p) \in Shape
  BY <1>2, <1>3 DEF Known, Shape
<1>5. Here <= Here
  BY <1>2
<1> QED BY <1>4, <1>5 DEF Known, Covers

LEMMA AtInsert ==
  ASSUME BuildInv, NEW A, ShapeInv(A), phase = "build"
  PROVE  /\ A \in Shapes /\ Fitting(body, A, blocks) /\ A[1][1] = Nothing
         /\ BlocksOK(blocks, Len(blocks)) /\ blocks \in Seq(Seq(Instruction))
         /\ Len(blocks) \in Nat /\ insert \in 1 .. Len(blocks) /\ insert \in 2 .. Len(blocks)
         /\ \A b \in 1 .. Len(blocks) : End(A, blocks, b) \in Shape /\ A[b][1] \in Shape
         /\ Enough(End(A, blocks, insert), Position)
<1>1. BlocksOK(blocks, Len(blocks)) /\ Len(blocks) \in Nat /\ insert \in 2 .. Len(blocks)
  BY Sizes DEF BuildInv
<1>2. A \in Shapes /\ Fitting(body, A, blocks) /\ Enough(End(A, blocks, insert), Position)
      /\ A[1][1] = Nothing
  BY DEF ShapeInv
<1>3. \A b \in 1 .. Len(blocks) : End(A, blocks, b) \in Shape /\ A[b][1] \in Shape
  BY <1>1, <1>2, EndTyped
<1>4. blocks \in Seq(Seq(Instruction)) /\ insert \in 1 .. Len(blocks)
  BY <1>1 DEF BlocksOK
<1> QED BY <1>1, <1>2, <1>3, <1>4

(* In a block, everything in scope is known. *)
LEMMA AtHere ==
  ASSUME BuildInv, NEW A, ShapeInv(A), phase = "build", InBlock
  PROVE  /\ Enough(End(A, blocks, insert), Here)
         /\ Covers(End(A, blocks, insert), Here, Visible, LoopsOf(open))
<1>1. Enough(End(A, blocks, insert), Position)
  BY AtInsert
<1>2. Position = Here
  BY DEF Position, InBlock
<1>3. /\ Len(body) \in Nat /\ Here = Len(body) + 1
      /\ Visible \subseteq 1 .. Len(body) /\ LoopsOf(open) \subseteq 1 .. Len(body)
  BY VisibleFacts, LoopsTyped DEF BuildInv
<1>4. \A d \in 1 .. Len(body) : d < Here
  BY <1>3
<1> HIDE DEF Here
<1>5. Visible \subseteq VisibleTo(Here) /\ LoopsOf(open) \subseteq LoopsTo(Here)
  BY <1>3, <1>4 DEF VisibleTo, LoopsTo
<1>6. Covers(End(A, blocks, insert), Here, VisibleTo(Here), LoopsTo(Here))
  BY <1>1, <1>2 DEF Enough
<1>7. Covers(End(A, blocks, insert), Here, Visible, LoopsOf(open))
  BY <1>5, <1>6, CoversLess, Zenon
<1> QED BY <1>1, <1>2, <1>7

LEMMA EnoughNow ==
  ASSUME NEW B, NEW s, EndsWith(B, blocks', insert', s),
         Covers(s, Here', Visible', LoopsOf(open'))
  PROVE  Enough(End(B, blocks, insert), Here)'
<1>1. /\ s.bound <= Here' /\ {0} \cup Visible' \subseteq s.holds
      /\ {0} \cup LoopsOf(open') \subseteq s.marks
  BY DEF Covers
<1>2. VisibleTo(Here)' \subseteq Visible' /\ LoopsTo(Here)' \subseteq LoopsOf(open')
  BY DEF VisibleTo, LoopsTo
<1>3. End(B, blocks', insert') = s
  BY DEF EndsWith
<1>4. Enough(s, Here)'
  BY <1>1, <1>2 DEF Enough, Covers
<1> QED BY <1>3, <1>4 DEF End

-----------------------------------------------------------------------------
(* Statements that only add code to the current block, or none. *)

LEMMA BuildSimpleFits ==
  ASSUME BuildInv, BuildInv', NEW A, ShapeInv(A), BuildSimple
  PROVE  ShapeInv(A)'
<1> DEFINE s == End(A, blocks, insert)
           code == <<Plain("eval", Here)>>
<1>1. /\ phase = "build" /\ InBlock /\ UNCHANGED <<open, insert, phase>>
      /\ blocks' = Emit(blocks, insert, code)
  BY DEF BuildSimple, InBlock
<1>2. PICK d \in Visible \cup {0} : body' = Written("do", 0, d)
  BY DEF BuildSimple
<1>3. d \in Nat
  <2>1. Visible \subseteq 1 .. Len(body)
    BY VisibleFacts DEF BuildInv
  <2> QED BY <2>1
<1>4. /\ TokensKept /\ ScopeKept(Here) /\ Here \in Nat /\ Here' = Here + 1
      /\ Visible' = Visible /\ Continues(body', body)
      /\ body'[Here].reads = d /\ Here \in DOMAIN body'
  <2>1. "do" \in Kinds /\ "do" # "let"
    BY DEF Kinds
  <2>2. LoopsGrow({})
    BY <1>1 DEF LoopsGrow
  <2> QED BY <1>1, <1>2, <1>3, <2>1, <2>2, WrittenKeepsScope, Zenon
<1>5. /\ A \in Shapes /\ Fitting(body, A, blocks) /\ BlocksOK(blocks, Len(blocks))
      /\ blocks \in Seq(Seq(Instruction)) /\ insert \in 1 .. Len(blocks) /\ s \in Shape
  BY <1>1, AtInsert
<1>6. Covers(s, Here, Visible, LoopsOf(open))
  BY <1>1, AtHere
<1>7. Fitting(body', A, blocks)
  BY <1>4, <1>5, BodyContinued
<1>8. code \in Seq(Instruction) /\ Keeps(body', code, s, A)
  <2>1. {0, d} \subseteq s.holds
    BY <1>6 DEF Covers
  <2> QED BY <1>4, <1>5, <2>1, EvalFits
<1> HIDE DEF s, code
<1>9. Fitting(body', A, blocks') /\ SameEnds(A, blocks, A, blocks')
  BY <1>1, <1>5, <1>7, <1>8, EmitFits DEF s
<1>10. ShapesKept(A, A)
  BY <1>9 DEF SameEnds, ShapesKept
<1>11. EndsWith(A, blocks', insert', s)
  BY <1>1, <1>5, <1>9 DEF SameEnds, EndsWith, s
<1>12. Covers(s, Here', Visible', LoopsOf(open'))
  <2>1. Here \in Nat /\ Here' \in Nat /\ Here <= Here'
    BY <1>4
  <2> QED BY <1>1, <1>4, <1>5, <1>6, <2>1, CoversMore
<1>13. Enough(End(A, blocks, insert), Here)'
  BY <1>11, <1>12, EnoughNow
<1>14. Outer(open', Here)
  BY <1>1, OuterOpen
<1> QED BY <1>1, <1>4, <1>5, <1>9, <1>10, <1>13, <1>14, StillFits

LEMMA Turned ==
  ASSUME BuildInv, BuildInv', NEW A, ShapeInv(A), phase = "build", InBlock,
         UNCHANGED <<open, insert, phase>>, TokensKept, Here \in Nat, ScopeKept(Here),
         NEW B \in Shapes, Fitting(body', B, blocks'), SameEntries(A, B),
         \A b \in 1 .. Len(blocks) : b # insert => End(B, blocks', b) = End(A, blocks, b),
         NEW t, EndsWith(B, blocks', insert, t), Covers(t, Here', Visible', LoopsOf(open'))
  PROVE  ShapeInv(B)'
<1>1. \A b \in 1 .. Len(blocks) : b \in Nat
  BY AtInsert
<1>2. ShapesKept(A, B)
  BY <1>1 DEF ShapesKept, SameEntries
<1>3. Enough(End(B, blocks, insert), Here)'
  <2>1. EndsWith(B, blocks', insert', t)
    OBVIOUS
  <2> QED BY <2>1, EnoughNow
<1>4. Outer(open', Here)
  BY OuterOpen
<1>5. insert' = insert \/ insert' > Len(blocks)
  OBVIOUS
<1> QED BY <1>2, <1>3, <1>4, <1>5, StillFits

(* What is on the stack behind the storage of a declaration at d. *)
Declared(s, d) ==
  [bound |-> d + 1, holds |-> s.holds \cup {d}, marks |-> {l \in s.marks : l <= d}]

LEMMA BuildDeclarationFits ==
  ASSUME BuildInv, BuildInv', NEW A, ShapeInv(A), BuildDeclaration
  PROVE  \E B : ShapeInv(B)'
<1> DEFINE s == End(A, blocks, insert)
           t == Declared(s, Here)
           x == Plain("alloca", Here)
           y == Plain("eval", Here)
           code == <<x, y>>
<1>1. /\ phase = "build" /\ InBlock /\ UNCHANGED <<open, insert, phase>>
      /\ blocks' = Emit(blocks, insert, code) /\ body' = Written("let", 0, 0)
  BY DEF BuildDeclaration, InBlock
<1>2. /\ TokensKept /\ ScopeKept(Here) /\ Here \in Nat /\ Here' = Here + 1
      /\ Visible' \subseteq Visible \cup {Here} /\ Continues(body', body)
      /\ body'[Here].reads = 0 /\ Here \in DOMAIN body'
  <2>1. "let" \in Kinds
    BY DEF Kinds
  <2>2. LoopsGrow({})
    BY <1>1 DEF LoopsGrow
  <2> QED BY <1>1, <2>1, <2>2, WrittenKeepsScope, Zenon
<1>3. /\ A \in Shapes /\ Fitting(body, A, blocks) /\ BlocksOK(blocks, Len(blocks))
      /\ Len(blocks) \in Nat /\ insert \in 1 .. Len(blocks) /\ s \in Shape
  BY <1>1, AtInsert
<1>4. Covers(s, Here, Visible, LoopsOf(open))
  BY <1>1, AtHere
<1>5. Fitting(body', A, blocks)
  BY <1>2, <1>3, BodyContinued
<1> HIDE DEF s
<1>6. /\ t \in Shape /\ t.bound = Here + 1 /\ t.holds = s.holds \cup {Here}
      /\ t.marks = {l \in s.marks : l <= Here}
  <2>1. s.holds \in SUBSET Nat /\ s.marks \in SUBSET Nat
    BY <1>3 DEF Shape
  <2>2. Here + 1 \in Nat /\ s.holds \cup {Here} \in SUBSET Nat
        /\ {l \in s.marks : l <= Here} \in SUBSET Nat
    BY <1>2, <2>1
  <2> HIDE DEF Here
  <2> QED BY <2>2 DEF Declared, Shape
<1>7. x \in Instruction /\ x.op = "alloca" /\ x.at = Here
      /\ y \in Instruction /\ y.op = "eval" /\ y.at = Here
  BY <1>2 DEF Plain, Instruction, Terminators
<1> HIDE DEF x, y, t
<1>8. code \in Seq(Instruction) /\ code # <<>> /\ Len(code) = 2 /\ code[1] = x /\ code[2] = y
  BY <1>7
<1> HIDE DEF code
<1>9. Fits(body', x, s, t, A)
  <2>1. s.bound <= Here /\ Here < t.bound
    BY <1>2, <1>4, <1>6 DEF Covers
  <2>2. t.holds \subseteq s.holds \cup {x.at} /\ t.marks \subseteq {l \in s.marks : l <= x.at}
    BY <1>6, <1>7
  <2> QED BY <1>7, <2>1, <2>2 DEF Fits
<1>10. Fits(body', y, t, t, A)
  <2>1. {0, body'[Here].reads} \subseteq t.holds
    BY <1>2, <1>4, <1>6 DEF Covers
  <2> QED BY <1>2, <1>6, <1>7, <2>1, ImpliesItself DEF Fits
<1>11. Turns(body', code, End(A, blocks, insert), t, A)
  BY <1>8, <1>9, <1>10 DEF Turns, s
<1>12. PICK B \in Shapes :
         /\ Fitting(body', B, blocks') /\ SameEntries(A, B)
         /\ \A i \in 1 .. Len(blocks) : i # insert => End(B, blocks', i) = End(A, blocks, i)
         /\ EndsWith(B, blocks', insert, t)
  <2>1. Len(blocks) <= Len(blocks)
    BY <1>3
  <2> QED BY <1>1, <1>3, <1>5, <1>6, <1>8, <1>11, <2>1, EmitTurns, Zenon
<1>13. Covers(t, Here', Visible', LoopsOf(open'))
  <2>1. t.bound <= Here' /\ {0} \cup Visible' \subseteq t.holds
    BY <1>2, <1>4, <1>6 DEF Covers
  <2>2. \A l \in {0} \cup LoopsOf(open) : l <= Here
    <3>1. Len(body) \in Nat /\ Here = Len(body) + 1 /\ LoopsOf(open) \subseteq 1 .. Len(body)
      BY <1>1, VisibleFacts, LoopsTyped DEF BuildInv
    <3> QED BY <3>1
  <2>3. {0} \cup LoopsOf(open') \subseteq t.marks
    BY <1>1, <1>4, <1>6, <2>2 DEF Covers
  <2> QED BY <2>1, <2>3 DEF Covers
<1>14. ShapeInv(B)'
  BY <1>1, <1>2, <1>12, <1>13, Turned
<1> QED BY <1>14

(* What is on the stack behind the restore of what was saved at l. *)
Restored(s, l) ==
  [bound |-> l, holds |-> {d \in s.holds : d < l}, marks |-> {k \in s.marks : k <= l}]

LEMMA RestoreFits ==
  ASSUME NEW w, NEW A, NEW s \in Shape, NEW l \in Nat, l \in s.marks
  PROVE  /\ Plain("restore", l) \in Instruction /\ Restored(s, l) \in Shape
         /\ Fits(w, Plain("restore", l), s, Restored(s, l), A)
         /\ Restored(s, l).bound = l /\ Restored(s, l).holds = {d \in s.holds : d < l}
         /\ Restored(s, l).marks = {k \in s.marks : k <= l}
<1> DEFINE x == Plain("restore", l)
           r == Restored(s, l)
<1>1. x \in Instruction /\ x.op = "restore" /\ x.at = l
  BY DEF Plain, Instruction, Terminators
<1>2. s.holds \in SUBSET Nat /\ s.marks \in SUBSET Nat
  BY DEF Shape
<1>3. {d \in s.holds : d < l} \in SUBSET Nat /\ {k \in s.marks : k <= l} \in SUBSET Nat
  BY <1>2
<1>4. /\ r \in Shape /\ r.bound = l /\ r.holds = {d \in s.holds : d < l}
      /\ r.marks = {k \in s.marks : k <= l}
  BY <1>3 DEF Restored, Shape
<1> HIDE DEF x, r
<1>5. Fits(w, x, s, r, A)
  BY <1>1, <1>4 DEF Fits
<1> QED BY <1>1, <1>4, <1>5 DEF x, r

(* Behind a return what was known before it may be supposed: nothing gets there. *)
LEMMA BuildReturnFits ==
  ASSUME BuildInv, BuildInv', NEW A, ShapeInv(A), BuildReturn
  PROVE  \E B : ShapeInv(B)'
<1> DEFINE s == End(A, blocks, insert)
           r == Restored(s, 0)
           x == Plain("restore", 0)
           y == Plain("eval", Here)
           z == Plain("ret", Here)
           code == GiveBack \o <<y, z>>
           k == Len(blocks[insert])
           e == [i \in Nat |-> IF i <= k + 1 THEN A[insert][i] ELSE IF i <= k + 3 THEN r ELSE s]
<1>1. /\ phase = "build" /\ InBlock /\ UNCHANGED <<open, insert, phase>>
      /\ blocks' = Emit(blocks, insert, code)
  BY DEF BuildReturn, InBlock
<1>2. PICK d \in Visible \cup {0} : body' = Written("ret", 0, d)
  BY DEF BuildReturn
<1>3. d \in Nat
  <2>1. Visible \subseteq 1 .. Len(body)
    BY VisibleFacts DEF BuildInv
  <2> QED BY <2>1
<1>4. /\ TokensKept /\ ScopeKept(Here) /\ Here \in Nat /\ Here' = Here + 1
      /\ Visible' = Visible /\ Continues(body', body)
      /\ body'[Here].kind = "ret" /\ Here \in DOMAIN body'
  <2>1. "ret" \in Kinds /\ "ret" # "let"
    BY DEF Kinds
  <2>2. LoopsGrow({})
    BY <1>1 DEF LoopsGrow
  <2> QED BY <1>1, <1>2, <1>3, <2>1, <2>2, WrittenKeepsScope, Zenon
<1>5. /\ A \in Shapes /\ Fitting(body, A, blocks) /\ BlocksOK(blocks, Len(blocks))
      /\ blocks \in Seq(Seq(Instruction)) /\ Len(blocks) \in Nat
      /\ insert \in 1 .. Len(blocks) /\ s \in Shape
  BY <1>1, AtInsert
<1>6. Covers(s, Here, Visible, LoopsOf(open))
  BY <1>1, AtHere
<1>7. Fitting(body', A, blocks)
  BY <1>4, <1>5, BodyContinued
<1> HIDE DEF s
<1>8. x \in Instruction /\ r \in Shape /\ Fits(body', x, s, r, A)
  <2>1. 0 \in s.marks
    BY <1>6 DEF Covers
  <2> QED BY <1>5, <2>1, RestoreFits
<1>9. /\ y \in Instruction /\ y.op = "eval" /\ y.at = Here /\ z \in Instruction /\ z.op = "ret"
  BY <1>4 DEF Plain, Instruction, Terminators
<1>10. GiveBack = <<x>>
  BY DEF GiveBack
<1> HIDE DEF x, y, z, r
<1>11. /\ code \in Seq(Instruction) /\ Len(code) = 3
       /\ code[1] = x /\ code[2] = y /\ code[3] = z
  <2> DEFINE p == <<x>>
             q == <<y, z>>
             c == p \o q
  <2>1. p \in Seq(Instruction) /\ Len(p) = 1 /\ p[1] = x
    BY <1>8
  <2>2. q \in Seq(Instruction) /\ Len(q) = 2 /\ q[1] = y /\ q[2] = z
    BY <1>9
  <2> HIDE DEF p, q
  <2>3. /\ c \in Seq(Instruction) /\ Len(c) = Len(p) + Len(q)
        /\ \A i \in 1 .. Len(p) : c[i] = p[i]
        /\ \A i \in 1 .. Len(q) : c[Len(p) + i] = q[i]
    <3>1. p \in Seq(Instruction) /\ q \in Seq(Instruction)
      BY <2>1, <2>2, Zenon
    <3> QED BY <3>1, Joining
  <2> HIDE DEF c
  <2>4. c \in Seq(Instruction) /\ Len(c) = 3 /\ c[1] = x /\ c[2] = y /\ c[3] = z
    BY <2>1, <2>2, <2>3
  <2>5. c = code
    BY <1>10 DEF c, p, q
  <2> QED BY <2>4, <2>5
<1> HIDE DEF code
<1>12. Fits(body', y, r, r, A) /\ Fits(body', z, r, s, A)
  BY <1>4, <1>8, <1>9, ImpliesItself DEF Fits
<1>13. k \in Nat /\ A[insert] \in [Nat -> Shape]
  <2>1. insert \in Nat /\ blocks[insert] \in Seq(Instruction)
    BY <1>5
  <2> QED BY <1>5, <2>1 DEF Shapes
<1>14. A[insert][k + 1] = s
  BY DEF s, End
<1> HIDE DEF k
<1>15. e \in [Nat -> Shape]
  BY <1>5, <1>8, <1>13
<1>16. /\ \A i \in 1 .. k + 1 : e[i] = A[insert][i]
       /\ e[k + 1] = s /\ e[k + 2] = r /\ e[k + 3] = r /\ e[k + 4] = s
       /\ \A i \in Nat : i > k + 3 => e[i] = s
  BY <1>13, <1>14
<1> HIDE DEF e
<1>17. ASSUME NEW i \in 1 .. Len(code) PROVE Fits(body', code[i], e[k + i], e[k + i + 1], A)
  <2>1. i = 1 \/ i = 2 \/ i = 3
    BY <1>11
  <2>2. k + 1 + 1 = k + 2 /\ k + 2 + 1 = k + 3 /\ k + 3 + 1 = k + 4
    BY <1>13
  <2>3. CASE i = 1
    BY <1>8, <1>11, <1>16, <2>2, <2>3
  <2>4. CASE i = 2
    BY <1>12, <1>11, <1>16, <2>2, <2>4
  <2>5. CASE i = 3
    BY <1>12, <1>11, <1>16, <2>2, <2>5
  <2> QED BY <2>1, <2>3, <2>4, <2>5
<1>18. e[k + Len(code) + 1] = s /\ \A i \in Nat : i > k + Len(code) => e[i] = e[k + Len(code) + 1]
  <2>1. k + Len(code) = k + 3 /\ k + Len(code) + 1 = k + 4
    BY <1>11, <1>13
  <2> QED BY <1>16, <2>1
<1>19. PICK B \in Shapes :
         /\ Fitting(body', B, blocks') /\ SameEntries(A, B)
         /\ \A i \in 1 .. Len(blocks) : i # insert => End(B, blocks', i) = End(A, blocks, i)
         /\ EndsWith(B, blocks', insert, e[Len(blocks[insert]) + Len(code) + 1])
  <2>1. Len(blocks) <= Len(blocks)
    BY <1>5
  <2>2. Moves(body', blocks[insert], code, A[insert], e, A)
    BY <1>16, <1>17, <1>18, Zenon DEF Moves, k
  <2>3. code \in Seq(Instruction)
    BY <1>11
  <2>4. \E B \in Shapes :
          /\ Fitting(body', B, Emit(blocks, insert, code)) /\ SameEntries(A, B)
          /\ \A i \in Nat \ {insert} : B[i] = A[i]
          /\ \A i \in 1 .. Len(blocks) : i # insert =>
               End(B, Emit(blocks, insert, code), i) = End(A, blocks, i)
          /\ EndsWith(B, Emit(blocks, insert, code), insert, e[Len(blocks[insert]) + Len(code) + 1])
    BY <1>5, <1>7, <1>15, <2>1, <2>2, <2>3, EmitMoves, Zenon
  <2> QED BY <1>1, <2>4, Zenon
<1>20. Covers(s, Here', Visible', LoopsOf(open'))
  <2>1. Here \in Nat /\ Here' \in Nat /\ Here <= Here'
    BY <1>4
  <2> QED BY <1>1, <1>4, <1>5, <1>6, <2>1, CoversMore
<1>21. ShapeInv(B)'
  <2>1. EndsWith(B, blocks', insert, s)
    BY <1>18, <1>19 DEF k
  <2> QED BY <1>1, <1>4, <1>19, <1>20, <2>1, Turned
<1> QED BY <1>21

LEMMA FinishFunctionFits ==
  ASSUME BuildInv, BuildInv', NEW A, ShapeInv(A), FinishFunction
  PROVE  \E B : ShapeInv(B)'
<1> DEFINE s == End(A, blocks, insert)
           r == Restored(s, 0)
           x == Plain("restore", 0)
           z == Plain("ret", Here)
           code == GiveBack \o <<z>>
<1>1. /\ phase = "build" /\ open = <<>> /\ phase' = "built" /\ body' = body
      /\ blocks' = EmitIfOpen(blocks, insert, code)
  BY DEF FinishFunction
<1>2. /\ A \in Shapes /\ Fitting(body, A, blocks) /\ BlocksOK(blocks, Len(blocks))
      /\ Len(blocks) \in Nat /\ insert \in 1 .. Len(blocks) /\ s \in Shape
      /\ A[1][1] = Nothing
  BY <1>1, AtInsert
<1>3. CASE Terminated(blocks[insert])
  <2>1. blocks' = blocks
    BY <1>1, <1>3 DEF EmitIfOpen
  <2>2. ShapeInv(A)'
    BY <1>1, <1>2, <2>1 DEF ShapeInv
  <2> QED BY <2>2
<1>4. CASE ~Terminated(blocks[insert])
  <2>1. 0 \in s.marks
    <3>1. InBlock
      BY <1>1 DEF InBlock
    <3>2. Covers(s, Here, Visible, LoopsOf(open))
      BY <1>1, <3>1, AtHere
    <3> QED BY <3>2 DEF Covers
  <2>2. x \in Instruction /\ r \in Shape /\ Fits(body, x, s, r, A)
    BY <1>2, <2>1, RestoreFits
  <2>3. z \in Instruction /\ z.op = "ret"
    BY Sizes DEF Plain, Instruction, Terminators
  <2>4. GiveBack = <<x>>
    BY DEF GiveBack
  <2> HIDE DEF x, z, r, s
  <2>5. code \in Seq(Instruction) /\ code # <<>> /\ Len(code) = 2 /\ code[1] = x /\ code[2] = z
    <3> DEFINE p == <<x, z>>
    <3>1. code = p
      BY <2>2, <2>3, <2>4, Pair
    <3>2. p \in Seq(Instruction) /\ p # <<>> /\ Len(p) = 2 /\ p[1] = x /\ p[2] = z
      BY <2>2, <2>3
    <3> HIDE DEF p, code
    <3> QED BY <3>1, <3>2
  <2> HIDE DEF code
  <2>6. Fits(body, z, r, r, A)
    BY <2>3 DEF Fits
  <2>7. Turns(body, code, End(A, blocks, insert), r, A)
    BY <2>2, <2>5, <2>6 DEF Turns, s
  <2>8. PICK B \in Shapes : Fitting(body, B, Emit(blocks, insert, code)) /\ SameEntries(A, B)
    <3>1. Len(blocks) <= Len(blocks)
      BY <1>2
    <3> QED BY <1>2, <2>2, <2>5, <2>7, <3>1, EmitTurns, ZenonT(40)
  <2>9. blocks' = Emit(blocks, insert, code)
    BY <1>1, <1>4 DEF EmitIfOpen
  <2>10. B[1][1] = Nothing
    BY <1>2, <2>8 DEF SameEntries
  <2>11. ShapeInv(B)'
    BY <1>1, <2>8, <2>9, <2>10 DEF ShapeInv
  <2> QED BY <2>11
<1> QED BY <1>3, <1>4
-----------------------------------------------------------------------------
(* Statements are opened and closed. *)

LEMMA Growing ==
  ASSUME open \in Seq(Frame), NEW f \in Frame, f.at = Here, open' = Append(open, f)
  PROVE  LoopsGrow(IF f.kind = "loop" THEN {Here} ELSE {})
<1>1. PICK gs : gs = open'
  OBVIOUS
<1>2. /\ gs \in Seq(Frame) /\ Len(gs) = Len(open) + 1
      /\ \A i \in 1 .. Len(open) : gs[i] = open[i]
      /\ gs[Len(open) + 1] = f
  BY <1>1, AppendProperties
<1>3. LoopsOf(gs) = LoopsOf(open) \cup (IF f.kind = "loop" THEN {f.at} ELSE {})
  BY <1>2, LoopsPushed
<1> QED BY <1>1, <1>3 DEF LoopsGrow

LEMMA BracesFit ==
  ASSUME BuildInv, BuildInv', NEW A, ShapeInv(A), phase = "build", InBlock,
         UNCHANGED <<blocks, insert, phase>>, NEW kind \in {"block", "branch"},
         body' = Written(kind, 0, 0), open' = Append(open, Opened(kind, 0, 0))
  PROVE  ShapeInv(A)'
<1> DEFINE s == End(A, blocks, insert)
<1>0. PICK f : f = Opened(kind, 0, 0)
  OBVIOUS
<1>1. /\ A \in Shapes /\ Fitting(body, A, blocks) /\ BlocksOK(blocks, Len(blocks))
      /\ Len(blocks) \in Nat /\ insert \in 1 .. Len(blocks) /\ s \in Shape /\ Here \in Nat
  BY AtInsert, Sizes
<1>2. Covers(s, Here, Visible, LoopsOf(open))
  BY AtHere
<1>3. f \in Frame /\ f.kind = kind /\ f.at = Here /\ f.dones = {}
  <2>1. kind \in {"if", "loop", "block", "branch", "twig", "otherwise"} /\ 0 \in Nat
    BY <1>1
  <2> QED BY <1>0, <1>1, <2>1 DEF Opened, Frame
<1> HIDE DEF s
<1>4. Outer(open, Here) /\ open \in Seq(Frame)
  BY OuterOpen DEF Outer
<1>5. LoopsGrow({})
  <2>1. open' = Append(open, f)
    BY <1>0
  <2> QED BY <1>3, <1>4, <2>1, Growing
<1>6. /\ TokensKept /\ ScopeKept(Here) /\ Here' = Here + 1
      /\ Visible' = Visible /\ Continues(body', body)
      /\ body'[Here].kind = kind /\ Here \in DOMAIN body'
  <2>1. kind \in Kinds /\ kind # "let"
    BY DEF Kinds
  <2>2. 0 \in Nat
    OBVIOUS
  <2> QED BY <1>5, <2>1, <2>2, WrittenKeepsScope, Zenon
<1>7. Fitting(body', A, blocks')
  BY <1>1, <1>6, BodyContinued
<1>8. ShapesKept(A, A)
  BY DEF ShapesKept
<1>9. Covers(s, Here', Visible', LoopsOf(open'))
  <2>1. Here \in Nat /\ Here' \in Nat /\ Here <= Here'
    BY <1>1, <1>6
  <2>2. LoopsOf(open') = LoopsOf(open)
    BY <1>5 DEF LoopsGrow
  <2> QED BY <1>1, <1>2, <1>6, <2>1, <2>2, CoversMore
<1>10. Enough(End(A, blocks, insert), Here)' /\ Enough(End(A, blocks, insert), f.at)'
  <2>1. EndsWith(A, blocks', insert', s)
    BY DEF EndsWith, s
  <2>2. Enough(End(A, blocks, insert), Here)'
    BY <1>9, <2>1, EnoughNow
  <2>3. VisibleTo(f.at)' \subseteq Visible' /\ LoopsTo(f.at)' \subseteq LoopsOf(open')
    BY DEF VisibleTo, LoopsTo
  <2>4. Covers(s, Here', VisibleTo(f.at)', LoopsTo(f.at)')
    BY <1>9, <2>3, CoversLess
  <2>5. End(A, blocks', insert') = s
    BY DEF s
  <2>6. Enough(End(A, blocks, insert), f.at)'
    BY <2>4, <2>5 DEF Enough
  <2> QED BY <2>2, <2>6
<1>11. FrameFits(A, f)'
  <2>1. Here \in 1 .. Len(body') /\ Here = Len(body')
    <3>1. body' \in Seq(Token)
      BY DEF BuildInv
    <3>2. Here' = Len(body') + 1 /\ Len(body') \in Nat
      BY <3>1 DEF Here
    <3> QED BY <1>1, <1>6, <3>2, Sizes
  <2>2. f.at \in 1 .. Len(body') /\ f.at = Len(body') /\ body'[f.at].kind = kind
    BY <1>3, <1>6, <2>1
  <2>3. f.kind \notin Guarding /\ f.kind # "loop" /\ kind \notin {"let", "end"}
    BY <1>3 DEF Guarding
  <2> QED BY <1>3, <2>2, <2>3 DEF FrameFits
<1>12. ~Awaits(f, insert')
  BY <1>3 DEF Awaits, Guarding
<1>13. Here <= f.at
  BY <1>1, <1>3
<1>14. open' = Append(open, f)
  BY <1>0
<1> QED BY <1>1, <1>3, <1>4, <1>6, <1>7, <1>8, <1>10, <1>11, <1>12, <1>13, <1>14, StillFitsBelow

LEMMA CloseBlockFits ==
  ASSUME BuildInv, BuildInv', NEW A, ShapeInv(A), CloseBlock
  PROVE  ShapeInv(A)'
<1> DEFINE s == End(A, blocks, insert)
<1>1. /\ phase = "build" /\ InBlock /\ open # <<>> /\ UNCHANGED <<blocks, insert, phase>>
      /\ body' = Linked("end", 0) /\ open' = Below
  BY DEF CloseBlock, InBlockOf, InBlock
<1>2. /\ A \in Shapes /\ Fitting(body, A, blocks) /\ BlocksOK(blocks, Len(blocks))
      /\ Len(blocks) \in Nat /\ insert \in 1 .. Len(blocks) /\ s \in Shape /\ Here \in Nat
  BY <1>1, AtInsert, Sizes
<1>3. Covers(s, Here, Visible, LoopsOf(open))
  BY <1>1, AtHere
<1>4. Outer(open', Top.at)
  BY <1>1, OuterBelow
<1>5. /\ TokensKept /\ ScopeKept(Top.at) /\ Top.at \in Nat /\ Here' = Here + 1
      /\ Visible' = VisibleTo(Top.at) /\ LoopsOf(open') = LoopsTo(Top.at)
      /\ Continues(body', body)
  <2>1. "end" \in {"end", "twig", "otherwise"} /\ 0 \in Nat
    OBVIOUS
  <2> QED BY <1>1, <2>1, LinkedKeepsScope, Zenon
<1> HIDE DEF s
<1>6. Fitting(body', A, blocks')
  BY <1>1, <1>2, <1>5, BodyContinued
<1>7. ShapesKept(A, A)
  BY <1>1 DEF ShapesKept
<1>8. Covers(s, Here', Visible', LoopsOf(open'))
  <2>1. Here \in Nat /\ Here' \in Nat /\ Here <= Here'
    BY <1>2, <1>5
  <2>2. Visible' \subseteq Visible /\ LoopsOf(open') \subseteq LoopsOf(open)
    BY <1>5 DEF VisibleTo, LoopsTo
  <2>3. Covers(s, Here, Visible', LoopsOf(open'))
    BY <1>3, <2>2, CoversLess
  <2> QED BY <1>2, <2>1, <2>3, CoversMore
<1>9. Enough(End(A, blocks, insert), Here)'
  <2>1. EndsWith(A, blocks', insert', s)
    BY <1>1 DEF EndsWith, s
  <2> QED BY <1>8, <2>1, EnoughNow
<1> QED BY <1>1, <1>2, <1>4, <1>5, <1>6, <1>7, <1>9, StillFits
-----------------------------------------------------------------------------
(* Statements with blocks of their own. *)

LEMMA SameEndsOn ==
  ASSUME NEW A, NEW B, NEW C, NEW bs, NEW cs, NEW ds,
         Len(bs) \in Nat, Len(cs) \in Nat, Len(bs) <= Len(cs),
         SameEnds(A, bs, B, cs), SameEnds(B, cs, C, ds)
  PROVE  SameEnds(A, bs, C, ds)
<1>1. \A b \in 1 .. Len(bs) : b \in 1 .. Len(cs)
  OBVIOUS
<1> QED BY <1>1, Zenon DEF SameEnds

(* The shapes before a step go on with those for two more blocks. *)
Extends(A, B, n, s, t) ==
  /\ \A b \in 1 .. n : B[b][1] = A[b][1]
  /\ B[n + 1][1] = s /\ B[n + 2][1] = t

LEMMA Preparing ==
  ASSUME NEW w, NEW A \in Shapes, NEW bs, BlocksOK(bs, Len(bs)), Fitting(w, A, bs),
         NEW n, n = Len(bs), NEW s \in Shape, NEW t \in Shape
  PROVE  \E B \in Shapes : /\ Fitting(w, B, bs) /\ SameEnds(A, bs, B, bs)
                           /\ Extends(A, B, n, s, t)
                           /\ Always(B[n + 1], s) /\ Always(B[n + 2], t)
<1> DEFINE P == Prepared(A, Len(bs), s, t)
<1>1. /\ P \in Shapes /\ Fitting(w, P, bs)
      /\ \A b \in 1 .. Len(bs) : P[b] = A[b]
      /\ Always(P[Len(bs) + 1], s) /\ Always(P[Len(bs) + 2], t)
  BY PreparedFacts, Zenon
<1> HIDE DEF P
<1>2. SameEnds(A, bs, P, bs)
  BY <1>1, Zenon DEF SameEnds, End
<1>3. Extends(A, P, n, s, t)
  BY <1>1 DEF Extends, Always
<1> QED BY <1>1, <1>2, <1>3

LEMMA GuardFits ==
  ASSUME NEW w, NEW A \in Shapes, BlocksOK(blocks, Len(blocks)), Fitting(w, A, blocks),
         NEW n, n = Len(blocks), insert \in 1 .. n,
         Here \in Nat, Here \in DOMAIN w, w[Here].reads = 0,
         NEW p \in Shape, NEW q \in Shape, Implies(End(A, blocks, insert), p), 0 \in p.holds,
         NEW bs,
         bs = New(Emit(New(Emit(blocks, insert, <<Br(n + 1)>>)), n + 1, <<Plain("eval", Here)>>))
  PROVE  \E B \in Shapes : /\ Fitting(w, B, bs) /\ SameEnds(A, blocks, B, bs)
                           /\ Extends(A, B, n, p, q)
                           /\ EndsWith(B, bs, n + 1, p) /\ EndsWith(B, bs, n + 2, q)
<1> DEFINE c1 == <<Br(n + 1)>>
           c2 == <<Plain("eval", Here)>>
           b1 == Emit(blocks, insert, c1)
           b2 == New(b1)
           b3 == Emit(b2, n + 1, c2)
<1>1. n \in Nat /\ n + 1 \in Nat /\ blocks \in Seq(Seq(Instruction)) /\ Len(blocks) \in Nat
  BY DEF BlocksOK
<1>2. PICK B \in Shapes :
        /\ Fitting(w, B, blocks) /\ SameEnds(A, blocks, B, blocks) /\ Extends(A, B, n, p, q)
        /\ Always(B[n + 1], p) /\ Always(B[n + 2], q)
  BY Preparing
<1>3. bs = New(b3)
  OBVIOUS
<1>4. c1 \in Seq(Instruction) /\ Keeps(w, c1, End(B, blocks, insert), B)
  <2>1. End(B, blocks, insert) = End(A, blocks, insert)
    BY <1>2 DEF SameEnds
  <2>2. Implies(End(B, blocks, insert), B[n + 1][1])
    BY <1>2, <2>1 DEF Extends
  <2> QED BY <1>1, <2>2, BrFits
<1>5. c2 \in Seq(Instruction) /\ Keeps(w, c2, p, B)
  BY EvalFits
<1> HIDE DEF c1, c2
<1>6. /\ b1 \in Seq(Seq(Instruction)) /\ Len(b1) = n
      /\ Fitting(w, B, b1) /\ SameEnds(B, blocks, B, b1)
  <2>1. insert \in 1 .. Len(blocks)
    OBVIOUS
  <2>2. Fitting(w, B, b1) /\ SameEnds(B, blocks, B, b1)
    BY <1>1, <1>2, <1>4, <2>1, EmitFits, Zenon
  <2>3. b1 \in Seq(Seq(Instruction)) /\ Len(b1) = n
    BY <1>1, <1>4, EmitFacts
  <2> QED BY <2>2, <2>3
<1> HIDE DEF b1
<1>7. /\ b2 \in Seq(Seq(Instruction)) /\ Len(b2) = n + 1
      /\ Fitting(w, B, b2) /\ SameEnds(B, b1, B, b2) /\ EndsWith(B, b2, n + 1, p)
  <2>1. Always(B[Len(b1) + 1], p)
    BY <1>2, <1>6
  <2>2. Fitting(w, B, b2) /\ SameEnds(B, b1, B, b2) /\ EndsWith(B, b2, Len(b1) + 1, p)
    BY <1>6, <2>1, NewFits, Zenon
  <2> QED BY <1>6, <2>2, NewFacts
<1> HIDE DEF b2
<1>8. /\ b3 \in Seq(Seq(Instruction)) /\ Len(b3) = n + 1
      /\ Fitting(w, B, b3) /\ SameEnds(B, b2, B, b3)
  <2>1. n + 1 \in 1 .. Len(b2)
    BY <1>1, <1>7
  <2>2. Keeps(w, c2, End(B, b2, n + 1), B)
    BY <1>5, <1>7, Zenon DEF EndsWith
  <2>3. Fitting(w, B, b3) /\ SameEnds(B, b2, B, b3)
    BY <1>5, <1>7, <2>1, <2>2, EmitFits, Zenon
  <2> QED BY <1>5, <1>7, <2>1, <2>3, EmitFacts
<1> HIDE DEF b3
<1>9. Fitting(w, B, bs) /\ SameEnds(B, b3, B, bs) /\ EndsWith(B, bs, n + 2, q)
  <2>1. Always(B[Len(b3) + 1], q) /\ Len(b3) + 1 = n + 2
    BY <1>1, <1>2, <1>8
  <2>2. Fitting(w, B, bs) /\ SameEnds(B, b3, B, bs) /\ EndsWith(B, bs, Len(b3) + 1, q)
    BY <1>3, <1>8, <2>1, NewFits, Zenon
  <2> QED BY <2>1, <2>2
<1>10. SameEnds(A, blocks, B, bs)
  <2>1. /\ Len(blocks) <= Len(b1) /\ Len(blocks) <= Len(b2) /\ Len(blocks) <= Len(b3)
        /\ Len(b1) \in Nat /\ Len(b2) \in Nat /\ Len(b3) \in Nat
    BY <1>1, <1>6, <1>7, <1>8
  <2>2. Len(blocks) <= Len(blocks)
    BY <1>1
  <2>3. SameEnds(A, blocks, B, b1)
    BY <1>1, <1>2, <1>6, <2>1, <2>2, SameEndsOn, Zenon
  <2>4. SameEnds(A, blocks, B, b2)
    BY <1>1, <1>7, <2>1, <2>3, SameEndsOn, Zenon
  <2>5. SameEnds(A, blocks, B, b3)
    BY <1>1, <1>8, <2>1, <2>4, SameEndsOn, Zenon
  <2>6. \A b \in 1 .. Len(blocks) : b \in 1 .. Len(b3)
    BY <1>1, <2>1
  <2>7. ASSUME NEW b \in 1 .. Len(blocks) PROVE End(B, bs, b) = End(A, blocks, b)
    <3>1. End(B, bs, b) = End(B, b3, b)
      BY <1>9, <2>6, Zenon DEF SameEnds
    <3>2. End(B, b3, b) = End(A, blocks, b)
      BY <2>5, Zenon DEF SameEnds
    <3> QED BY <3>1, <3>2
  <2> QED BY <2>7 DEF SameEnds
<1>11. EndsWith(B, bs, n + 1, p)
  <2>1. n + 1 \in 1 .. Len(b2) /\ n + 1 \in 1 .. Len(b3)
    BY <1>1, <1>7, <1>8
  <2> QED BY <1>7, <1>8, <1>9, <2>1 DEF SameEnds, EndsWith
<1> QED BY <1>2, <1>9, <1>10, <1>11

(* The statement that awaits the guarding block is pushed. *)
LEMMA GuardedFits ==
  ASSUME BuildInv, BuildInv', NEW A, ShapeInv(A), phase = "build", InBlock,
         NEW f \in Frame, f.kind \in {"if", "loop"}, f.at = Here, f.dones = {},
         f.eval = Len(blocks) + 1, f.start = Len(blocks) + 2, insert' = Len(blocks) + 2,
         open' = Append(open, f), body' = Written(f.kind, 0, 0),
         NEW B \in Shapes, ShapesKept(A, B), Fitting(body', B, blocks'),
         NEW p \in Shape, EndsWith(B, blocks', f.eval, p), Covers(p, Here, Visible, LoopsOf(open)),
         Implies(p, B[f.start][1]), f.kind = "loop" => B[f.eval][1] = Known(Here),
         NEW t, EndsWith(B, blocks', insert', t), Covers(t, Here', Visible', LoopsOf(open'))
  PROVE  ShapeInv(B)'
<1>1. /\ Outer(open, Here) /\ open \in Seq(Frame) /\ Here \in Nat /\ Len(blocks) \in Nat
      /\ Len(blocks) >= 2
  BY OuterOpen, Sizes DEF Outer
<1>2. LoopsGrow(IF f.kind = "loop" THEN {Here} ELSE {})
  BY <1>1, Growing
<1>3. /\ TokensKept /\ ScopeKept(Here) /\ Here' = Here + 1
      /\ Visible = VisibleTo(Here) /\ LoopsOf(open) = LoopsTo(Here)
      /\ Visible' = Visible /\ body'[Here].kind = f.kind /\ Here \in DOMAIN body'
  <2>1. f.kind \in Kinds /\ f.kind # "let" /\ 0 \in Nat
    BY DEF Kinds, Conditions
  <2>2. PICK kind \in Kinds : kind = f.kind
    BY <2>1
  <2>3. body' = Written(kind, 0, 0)
    BY <2>2
  <2>4. /\ TokensKept /\ ScopeKept(Here) /\ Here' = Here + 1
        /\ Visible = VisibleTo(Here) /\ LoopsOf(open) = LoopsTo(Here)
        /\ (kind # "let" => Visible' = Visible)
        /\ body'[Here].kind = kind /\ Here \in DOMAIN body'
    BY <1>2, <2>1, <2>3, WrittenKeepsScope, Zenon
  <2> QED BY <2>1, <2>2, <2>4
<1>4. f.at \in 1 .. Len(body') /\ body'[f.at].kind \in {"if", "loop"}
  <2>1. body' \in Seq(Token)
    BY DEF BuildInv
  <2>2. DOMAIN body' = 1 .. Len(body')
    BY <2>1
  <2> QED BY <1>3, <2>2
<1>5. VisibleTo(f.at)' = Visible /\ LoopsTo(f.at)' = LoopsOf(open)
  <2>1. f.at \in Nat /\ f.at <= Here
    BY <1>1
  <2>2. VisibleTo(f.at)' = VisibleTo(f.at) /\ LoopsTo(f.at)' = LoopsTo(f.at)
    BY <1>1, <1>3, <2>1, Zenon DEF ScopeKept
  <2>3. VisibleTo(f.at) = VisibleTo(Here) /\ LoopsTo(f.at) = LoopsTo(Here)
    BY Zenon DEF VisibleTo, LoopsTo
  <2> QED BY <1>3, <2>2, <2>3
<1>6. Enough(End(B, blocks, f.eval), f.at)'
  <2>1. Covers(p, Here', Visible, LoopsOf(open))
    <3>1. Here \in Nat /\ Here' \in Nat /\ Here <= Here'
      BY <1>1, <1>3
    <3> QED BY <3>1, CoversMore
  <2>2. Covers(p, Here', VisibleTo(f.at)', LoopsTo(f.at)')
    BY <1>5, <2>1
  <2>3. End(B, blocks', f.eval) = p
    BY Zenon DEF EndsWith
  <2> QED BY <2>2, <2>3 DEF Enough
<1>7. Implies(End(B, blocks, f.eval), B[f.start][1])'
  BY Zenon DEF EndsWith, End
<1>8. ASSUME f.kind = "loop"
      PROVE  /\ f.at <= B[f.eval][1].bound
             /\ B[f.eval][1].holds \subseteq {0} \cup VisibleTo(f.at)'
             /\ B[f.eval][1].marks \subseteq {0} \cup LoopsTo(f.at)'
  <2>1. Known(Here).bound = Here /\ Known(Here).holds = {0} \cup VisibleTo(Here)
        /\ Known(Here).marks = {0} \cup LoopsTo(Here)
    BY KnownTyped
  <2>2. Here <= Here
    BY <1>1
  <2> QED BY <1>3, <1>5, <1>8, <2>1, <2>2
<1>9. FrameFits(B, f)'
  BY <1>4, <1>6, <1>7, <1>8 DEF FrameFits
<1>10. ~Awaits(f, insert')
  BY <1>1 DEF Awaits
<1>11. Enough(End(B, blocks, insert), Here)'
  BY EnoughNow
<1>12. insert' > Len(blocks) /\ Here <= f.at /\ f.kind # "branch"
  BY <1>1
<1> QED BY <1>1, <1>3, <1>9, <1>10, <1>11, <1>12, StillFitsBelow

LEMMA OpenConditionalFits ==
  ASSUME BuildInv, BuildInv', NEW A, ShapeInv(A), OpenConditional
  PROVE  \E B : ShapeInv(B)'
<1> DEFINE n == Len(blocks)
           s == End(A, blocks, insert)
<1>0. PICK f : f = Opened("if", n + 1, n + 2)
  OBVIOUS
<1>1. /\ phase = "build" /\ InBlock /\ body' = Written("if", 0, 0)
      /\ blocks' = New(Emit(New(Emit(blocks, insert, <<Br(n + 1)>>)), n + 1, <<Plain("eval", Here)>>))
      /\ insert' = n + 2 /\ open' = Append(open, f)
  BY <1>0 DEF OpenConditional, InBlock
<1>2. /\ A \in Shapes /\ Fitting(body, A, blocks) /\ BlocksOK(blocks, Len(blocks))
      /\ n \in Nat /\ insert \in 1 .. n /\ s \in Shape /\ Here \in Nat
  BY <1>1, AtInsert, Sizes
<1>3. f \in Frame /\ f.kind = "if" /\ f.at = Here /\ f.dones = {} /\ f.eval = n + 1 /\ f.start = n + 2
  BY <1>0, <1>2 DEF Opened, Frame
<1>4. Covers(s, Here, Visible, LoopsOf(open))
  BY <1>1, AtHere
<1>5. Outer(open, Here) /\ open \in Seq(Frame)
  BY <1>1, OuterOpen DEF Outer
<1>6. LoopsGrow({})
  BY <1>1, <1>3, <1>5, Growing
<1>7. /\ Here' = Here + 1 /\ Visible' = Visible /\ Continues(body', body)
      /\ body'[Here].reads = 0 /\ Here \in DOMAIN body'
  <2>1. "if" \in Kinds /\ "if" # "let" /\ 0 \in Nat
    BY DEF Kinds, Conditions
  <2> QED BY <1>1, <1>6, <2>1, WrittenKeepsScope, Zenon
<1>8. Fitting(body', A, blocks)
  BY <1>2, <1>7, BodyContinued
<1>9. PICK B \in Shapes :
        /\ Fitting(body', B, blocks') /\ SameEnds(A, blocks, B, blocks') /\ Extends(A, B, n, s, s)
        /\ EndsWith(B, blocks', n + 1, s) /\ EndsWith(B, blocks', n + 2, s)
  <2>1. Implies(s, s) /\ 0 \in s.holds
    BY <1>2, <1>4, ImpliesItself DEF Covers
  <2> QED BY <1>1, <1>2, <1>7, <1>8, <2>1, GuardFits
<1> HIDE DEF s
<1>10. ShapesKept(A, B)
  BY <1>9 DEF ShapesKept, SameEnds, Extends
<1>11. Covers(s, Here', Visible', LoopsOf(open'))
  <2>1. Here \in Nat /\ Here' \in Nat /\ Here <= Here'
    BY <1>2, <1>7
  <2>2. LoopsOf(open') = LoopsOf(open)
    BY <1>6 DEF LoopsGrow
  <2> QED BY <1>2, <1>4, <1>7, <2>1, <2>2, CoversMore
<1>12. Implies(s, B[f.start][1])
  BY <1>2, <1>3, <1>9, ImpliesItself DEF Extends
<1>13. f.kind \in {"if", "loop"} /\ f.kind # "loop" /\ body' = Written(f.kind, 0, 0)
  BY <1>1, <1>3
<1>14. EndsWith(B, blocks', f.eval, s) /\ EndsWith(B, blocks', insert', s)
  BY <1>1, <1>3, <1>9
<1>15. ShapeInv(B)'
  BY <1>1, <1>2, <1>3, <1>4, <1>9, <1>10, <1>11, <1>12, <1>13, <1>14, GuardedFits
<1> QED BY <1>15

(* A round of a loop begins with what is known at the loop, and saves the stack. *)
Saved(s, l) == [s EXCEPT !.marks = @ \cup {l}]

LEMMA SaveFits ==
  ASSUME NEW w, NEW A, NEW s \in Shape, NEW l \in 0 .. MaxTokens, s.bound <= l
  PROVE  /\ <<Plain("save", l)>> \in Seq(Instruction) /\ Saved(s, l) \in Shape
         /\ Turns(w, <<Plain("save", l)>>, s, Saved(s, l), A)
         /\ Saved(s, l).bound = s.bound /\ Saved(s, l).holds = s.holds
         /\ Saved(s, l).marks = s.marks \cup {l}
<1> DEFINE x == Plain("save", l)
           t == Saved(s, l)
           c == <<x>>
<1>1. x \in Instruction /\ x.op = "save" /\ x.at = l
  BY MaxTokensAssumption DEF Plain, Instruction, Terminators
<1>2. l \in Nat /\ s.bound \in Nat /\ s.marks \in SUBSET Nat
      /\ s = [bound |-> s.bound, holds |-> s.holds, marks |-> s.marks]
  BY MaxTokensAssumption DEF Shape
<1>3. t = [bound |-> s.bound, holds |-> s.holds, marks |-> s.marks \cup {l}]
  BY <1>2 DEF Saved
<1>4. t \in Shape /\ t.bound = s.bound /\ t.holds = s.holds /\ t.marks = s.marks \cup {l}
  BY <1>2, <1>3 DEF Shape
<1> HIDE DEF x, t
<1>5. Fits(w, x, s, t, A)
  <2>1. s.bound <= t.bound
    BY <1>2, <1>4
  <2> QED BY <1>1, <1>4, <2>1 DEF Fits
<1>6. c \in Seq(Instruction) /\ c # <<>> /\ Len(c) = 1 /\ c[1] = x
  BY <1>1
<1> HIDE DEF c
<1>7. Turns(w, c, s, t, A)
  <2>1. \A i \in 2 .. Len(c) : FALSE
    BY <1>6
  <2> QED BY <1>5, <1>6, <2>1, Zenon DEF Turns
<1> QED BY <1>4, <1>6, <1>7 DEF c, t, x

LEMMA OpenLoopFits ==
  ASSUME BuildInv, BuildInv', NEW A, ShapeInv(A), OpenLoop
  PROVE  \E B : ShapeInv(B)'
<1> DEFINE n == Len(blocks)
           s == End(A, blocks, insert)
           p == Known(Here)
           t == Saved(p, Here)
           save == <<Plain("save", Here)>>
<1>0. PICK f : f = Opened("loop", n + 1, n + 2)
  OBVIOUS
<1> DEFINE bs == New(Emit(New(Emit(blocks, insert, <<Br(n + 1)>>)), n + 1, <<Plain("eval", Here)>>))
<1>1. /\ phase = "build" /\ InBlock /\ Room /\ body' = Written("loop", 0, 0)
      /\ blocks' = Emit(bs, n + 2, save)
      /\ insert' = n + 2 /\ open' = Append(open, f)
  BY <1>0 DEF OpenLoop, InBlock
<1>2. /\ A \in Shapes /\ Fitting(body, A, blocks) /\ BlocksOK(blocks, Len(blocks))
      /\ n \in Nat /\ insert \in 1 .. n /\ s \in Shape /\ Here \in Nat
  BY <1>1, AtInsert, Sizes
<1>3. f \in Frame /\ f.kind = "loop" /\ f.at = Here /\ f.dones = {} /\ f.eval = n + 1 /\ f.start = n + 2
  BY <1>0, <1>2 DEF Opened, Frame
<1>4. Enough(s, Here)
  BY <1>1, AtHere
<1>5. Outer(open, Here) /\ open \in Seq(Frame)
  BY <1>1, OuterOpen DEF Outer
<1>6. LoopsGrow({Here})
  BY <1>1, <1>3, <1>5, Growing
<1>7. /\ Here' = Here + 1 /\ Visible' = Visible /\ Continues(body', body)
      /\ Visible = VisibleTo(Here) /\ LoopsOf(open) = LoopsTo(Here)
      /\ body'[Here].reads = 0 /\ Here \in DOMAIN body'
  <2>1. "loop" \in Kinds /\ "loop" # "let" /\ 0 \in Nat
    BY DEF Kinds, Conditions
  <2> QED BY <1>1, <1>6, <2>1, WrittenKeepsScope, Zenon
<1>8. Fitting(body', A, blocks)
  BY <1>2, <1>7, BodyContinued
<1>9. /\ p \in Shape /\ p.bound = Here /\ p.holds = {0} \cup VisibleTo(Here)
      /\ p.marks = {0} \cup LoopsTo(Here) /\ Covers(p, Here, VisibleTo(Here), LoopsTo(Here))
      /\ Implies(s, p)
  <2>1. Implies(s, p)
    BY <1>4, EnoughKnown
  <2> QED BY <1>1, <2>1, KnownTyped
<1> HIDE DEF s, p
<1>10. PICK B \in Shapes :
         /\ Fitting(body', B, bs) /\ SameEnds(A, blocks, B, bs) /\ Extends(A, B, n, p, p)
         /\ EndsWith(B, bs, n + 1, p) /\ EndsWith(B, bs, n + 2, p)
  <2>1. 0 \in p.holds
    BY <1>9
  <2>2. Implies(End(A, blocks, insert), p)
    BY <1>9 DEF s
  <2> QED BY <1>2, <1>7, <1>8, <1>9, <2>1, <2>2, GuardFits
<1>11. /\ save \in Seq(Instruction) /\ t \in Shape /\ Turns(body', save, p, t, B)
       /\ t.bound = Here /\ t.holds = p.holds /\ t.marks = p.marks \cup {Here}
  <2>1. Here \in 0 .. MaxTokens /\ p.bound <= Here
    <3>1. Len(body) \in Nat /\ Len(open) \in Nat /\ Here = Len(body) + 1
      BY <1>5 DEF BuildInv, Here
    <3> QED BY <1>1, <1>9, <3>1, MaxTokensAssumption DEF Room
  <2> QED BY <1>9, <2>1, SaveFits
<1> HIDE DEF save, t
<1>12. /\ BlocksOK(bs, n + 2) /\ Len(bs) = n + 2 /\ n + 2 \in 1 .. Len(bs) /\ n + 2 \in Nat
       /\ n + 2 <= Len(bs)
  <2>1. BlocksOK(bs, n + 2) /\ Len(bs) = n + 2
    BY <1>1, Guarded
  <2> HIDE DEF bs
  <2> QED BY <1>2, <2>1
<1> HIDE DEF bs
<1>13. PICK C \in Shapes :
         /\ Fitting(body', C, blocks') /\ SameEntries(B, C)
         /\ \A i \in 1 .. Len(bs) : i # n + 2 => End(C, blocks', i) = End(B, bs, i)
         /\ EndsWith(C, blocks', n + 2, t)
  <2>1. Turns(body', save, End(B, bs, n + 2), t, B)
    BY <1>10, <1>11 DEF EndsWith
  <2>2. \E C \in Shapes :
         /\ Fitting(body', C, Emit(bs, n + 2, save)) /\ SameEntries(B, C)
         /\ \A i \in Nat \ {n + 2} : C[i] = B[i]
         /\ \A i \in 1 .. Len(bs) : i # n + 2 => End(C, Emit(bs, n + 2, save), i) = End(B, bs, i)
         /\ EndsWith(C, Emit(bs, n + 2, save), n + 2, t)
    BY <1>10, <1>11, <1>12, <2>1, EmitTurns, Zenon
  <2> QED BY <1>1, <2>2, Zenon
<1>14. ShapesKept(A, C)
  <2>1. \A b \in 1 .. n : b \in Nat /\ b \in 1 .. Len(bs) /\ b # n + 2
    BY <1>2, <1>12
  <2> QED BY <1>10, <1>13, <2>1 DEF ShapesKept, SameEnds, Extends, SameEntries
<1>15. C[n + 1][1] = p /\ C[n + 2][1] = p
  BY <1>2, <1>10, <1>13 DEF Extends, SameEntries
<1>16. EndsWith(C, blocks', n + 1, p)
  <2>1. n + 1 \in 1 .. Len(bs) /\ n + 1 # n + 2
    BY <1>2, <1>12
  <2> QED BY <1>10, <1>13, <2>1 DEF EndsWith
<1>17. Covers(t, Here', Visible', LoopsOf(open'))
  <2>1. t.bound <= Here'
    BY <1>2, <1>7, <1>11
  <2>2. LoopsOf(open') = LoopsOf(open) \cup {Here}
    BY <1>6 DEF LoopsGrow
  <2> QED BY <1>7, <1>9, <1>11, <2>1, <2>2 DEF Covers
<1>18. /\ f.kind \in {"if", "loop"} /\ body' = Written(f.kind, 0, 0)
       /\ C[f.eval][1] = Known(Here) /\ Implies(p, C[f.start][1])
       /\ EndsWith(C, blocks', f.eval, p) /\ EndsWith(C, blocks', insert', t)
       /\ Covers(p, Here, Visible, LoopsOf(open))
  <2>1. C[f.eval][1] = Known(Here) /\ Implies(p, C[f.start][1])
    BY <1>3, <1>9, <1>15, ImpliesItself DEF p
  <2> QED BY <1>1, <1>3, <1>7, <1>9, <1>13, <1>16, <2>1
<1>19. ShapeInv(C)'
  BY <1>1, <1>2, <1>3, <1>9, <1>13, <1>14, <1>17, <1>18, GuardedFits
<1> QED BY <1>19

(* A statement ends in a new block, where what is in scope around it is known. *)
LEMMA ClosedFits ==
  ASSUME BuildInv, BuildInv', NEW A, ShapeInv(A), phase = "build", open # <<>>,
         NEW to \in Nat, body' = Linked("end", to), open' = Below,
         NEW B \in Shapes, ShapesKept(A, B), Fitting(body', B, blocks'),
         insert' > Len(blocks), EndsWith(B, blocks', insert', Known(Top.at))
  PROVE  ShapeInv(B)'
<1> DEFINE p == Known(Top.at)
<1>1. Outer(open', Top.at)
  BY OuterBelow
<1>2. /\ TokensKept /\ ScopeKept(Top.at) /\ Top.at \in Nat /\ Here' = Here + 1 /\ Here \in Nat
      /\ Visible' = VisibleTo(Top.at) /\ LoopsOf(open') = LoopsTo(Top.at)
  <2>1. "end" \in {"end", "twig", "otherwise"} /\ LoopsOf(open') = LoopsOf(Below)
    OBVIOUS
  <2> QED BY <2>1, LinkedKeepsScope, Zenon
<1>3. p \in Shape /\ Covers(p, Here, VisibleTo(Top.at), LoopsTo(Top.at))
  BY KnownTyped
<1> HIDE DEF p
<1>4. Covers(p, Here', Visible', LoopsOf(open'))
  <2>1. Here \in Nat /\ Here' \in Nat /\ Here <= Here'
    BY <1>2
  <2>2. Covers(p, Here', VisibleTo(Top.at), LoopsTo(Top.at))
    BY <1>3, <2>1, CoversMore
  <2> QED BY <1>2, <2>2
<1>5. Enough(End(B, blocks, insert), Here)'
  <2>1. EndsWith(B, blocks', insert', p)
    BY DEF p
  <2> QED BY <1>4, <2>1, EnoughNow
<1> QED BY <1>1, <1>2, <1>5, StillFits

(* The statement on top: its condition leads to its block, or behind it. *)
LEMMA GuardLeads ==
  ASSUME BuildInv, NEW A, ShapeInv(A), phase = "build", open # <<>>, Top.kind \in Guarding
  PROVE  /\ Top.at \in Nat /\ Top.eval \in 1 .. Len(blocks) /\ Top.start \in 1 .. Len(blocks)
         /\ Top.eval \in Nat /\ Top.start \in Nat /\ Top.eval # insert
         /\ Implies(End(A, blocks, Top.eval), A[Top.start][1])
         /\ Implies(End(A, blocks, Top.eval), Known(Top.at))
<1>1. FrameOK(Top, Len(blocks)) /\ FrameFits(A, Top) /\ ~Awaits(Top, insert)
  BY OuterBelow
<1>2. Len(blocks) \in Nat
  BY Sizes
<1>3. Top.at \in Nat /\ Top.eval \in 2 .. Len(blocks) /\ Top.start \in 2 .. Len(blocks)
  BY <1>1, GuardingTop
<1>4. Enough(End(A, blocks, Top.eval), Top.at) /\ Implies(End(A, blocks, Top.eval), A[Top.start][1])
  BY <1>1 DEF FrameFits
<1>5. Implies(End(A, blocks, Top.eval), Known(Top.at))
  BY <1>4, EnoughKnown
<1>6. Top.eval # insert
  BY <1>1 DEF Awaits
<1> QED BY <1>2, <1>3, <1>4, <1>5, <1>6

LEMMA HereKnown ==
  ASSUME BuildInv, NEW A, ShapeInv(A), phase = "build", NEW p, p \in {Position, Top.at}, open # <<>>
  PROVE  Implies(End(A, blocks, insert), Known(p))
<1>1. Enough(End(A, blocks, insert), Position)
  BY AtInsert
<1>2. Enough(End(A, blocks, insert), p)
  <2>1. CASE p = Position
    BY <1>1, <2>1
  <2>2. CASE p = Top.at /\ Position = Here
    <3>1. Top.at \in 1 .. Len(body) /\ Len(body) \in Nat
      BY OuterBelow DEF FrameFits, BuildInv
    <3>2. Top.at < Here /\ Here \in Nat /\ Top.at \in Nat
      BY <3>1 DEF Here
    <3>3. VisibleTo(Top.at) \subseteq VisibleTo(Here) /\ LoopsTo(Top.at) \subseteq LoopsTo(Here)
      <4>1. Visible \subseteq Nat /\ LoopsOf(open) \subseteq Nat
        BY <3>1, VisibleFacts, LoopsTyped DEF BuildInv
      <4>2. \A d \in Nat : d < Top.at => d < Here
        BY <3>2
      <4> HIDE DEF Here
      <4> QED BY <4>1, <4>2 DEF VisibleTo, LoopsTo
    <3> QED BY <1>1, <2>2, <3>3, CoversLess, Zenon DEF Enough
  <2> QED BY <2>1, <2>2 DEF Position
<1> QED BY <1>2, EnoughKnown

LEMMA CloseConditionalFits ==
  ASSUME BuildInv, BuildInv', NEW A, ShapeInv(A), CloseConditional
  PROVE  \E B : ShapeInv(B)'
<1> DEFINE n == Len(blocks)
           s == End(A, blocks, insert)
           p == Known(Top.at)
           c1 == <<Br(n + 1)>>
           c2 == <<CondBr(Top.at, Top.start, n + 1)>>
           b1 == New(blocks)
           b2 == EmitIfOpen(b1, insert, c1)
<1>1. /\ phase = "build" /\ InBlock /\ open # <<>> /\ Top.kind \in Guarding
      /\ body' = Linked("end", 0) /\ blocks' = Emit(b2, Top.eval, c2)
      /\ insert' = n + 1 /\ open' = Below
  BY DEF CloseConditional, InBlockOf, InBlock, Guarding
<1>2. /\ A \in Shapes /\ Fitting(body, A, blocks) /\ BlocksOK(blocks, n)
      /\ blocks \in Seq(Seq(Instruction)) /\ n \in Nat /\ insert \in 1 .. n
  BY <1>1, AtInsert
<1>3. /\ Top.at \in Nat /\ Top.eval \in 1 .. n /\ Top.start \in 1 .. n /\ Top.start \in Nat
      /\ Top.eval # insert
      /\ Implies(End(A, blocks, Top.eval), A[Top.start][1])
      /\ Implies(End(A, blocks, Top.eval), p)
  BY <1>1, GuardLeads
<1>4. p \in Shape /\ Implies(s, p)
  BY <1>1, KnownTyped, HereKnown
<1>5. Continues(body', body)
  <2>1. "end" \in {"end", "twig", "otherwise"} /\ 0 \in Nat /\ LoopsOf(open') = LoopsOf(Below)
    BY <1>1
  <2> QED BY <1>1, <2>1, LinkedKeepsScope, Zenon
<1>6. Fitting(body', A, blocks)
  BY <1>2, <1>5, BodyContinued
<1>7. PICK B \in Shapes :
        /\ Fitting(body', B, blocks) /\ SameEnds(A, blocks, B, blocks) /\ Extends(A, B, n, p, p)
        /\ Always(B[n + 1], p)
  BY <1>2, <1>4, <1>6, Preparing
<1> HIDE DEF s, p
<1>8. /\ b1 \in Seq(Seq(Instruction)) /\ Len(b1) = n + 1
      /\ Fitting(body', B, b1) /\ SameEnds(B, blocks, B, b1) /\ EndsWith(B, b1, n + 1, p)
  <2>1. Fitting(body', B, b1) /\ SameEnds(B, blocks, B, b1) /\ EndsWith(B, b1, n + 1, p)
    BY <1>2, <1>7, NewFits, Zenon
  <2> QED BY <1>2, <2>1, NewFacts
<1>9. n + 1 \in Nat /\ \A b \in 1 .. n : b \in 1 .. n + 1 /\ b # n + 1
  BY <1>2
<1>10. \A b \in 1 .. n : End(B, b1, b) = End(A, blocks, b)
  BY <1>7, <1>8, Zenon DEF SameEnds
<1> HIDE DEF b1
<1>11. c1 \in Seq(Instruction) /\ Keeps(body', c1, End(B, b1, insert), B)
  <2>1. Implies(End(B, b1, insert), B[n + 1][1])
    BY <1>2, <1>4, <1>7, <1>10 DEF s, Extends
  <2> QED BY <1>9, <2>1, BrFits
<1> HIDE DEF c1
<1>12. /\ b2 \in Seq(Seq(Instruction)) /\ Len(b2) = n + 1
       /\ Fitting(body', B, b2) /\ SameEnds(B, b1, B, b2)
  <2>1. insert \in 1 .. Len(b1)
    BY <1>2, <1>8, <1>9
  <2>2. Fitting(body', B, b2) /\ SameEnds(B, b1, B, b2)
    BY <1>8, <1>11, <2>1, EmitIfOpenFits, Zenon
  <2>3. b2 \in Seq(Seq(Instruction)) /\ Len(b2) = n + 1
    BY <1>8, <1>11, <2>1, EmitFacts DEF EmitIfOpen
  <2> QED BY <2>2, <2>3
<1> HIDE DEF b2
<1>13. \A b \in 1 .. n : End(B, b2, b) = End(A, blocks, b)
  BY <1>8, <1>9, <1>10, <1>12, Zenon DEF SameEnds
<1>14. c2 \in Seq(Instruction) /\ Keeps(body', c2, End(B, b2, Top.eval), B)
  <2>1. End(B, b2, Top.eval) = End(A, blocks, Top.eval)
    BY <1>3, <1>13
  <2>2. B[Top.start][1] = A[Top.start][1] /\ B[n + 1][1] = p
    BY <1>3, <1>7 DEF Extends
  <2>3. Implies(End(B, b2, Top.eval), B[Top.start][1]) /\ Implies(End(B, b2, Top.eval), B[n + 1][1])
    BY <1>3, <2>1, <2>2
  <2> QED BY <1>3, <1>9, <2>3, CondBrFits
<1> HIDE DEF c2
<1>15. Fitting(body', B, blocks') /\ SameEnds(B, b2, B, blocks')
  <2>1. Top.eval \in 1 .. Len(b2)
    BY <1>3, <1>9, <1>12
  <2>2. Fitting(body', B, Emit(b2, Top.eval, c2)) /\ SameEnds(B, b2, B, Emit(b2, Top.eval, c2))
    BY <1>12, <1>14, <2>1, EmitFits, Zenon
  <2> QED BY <1>1, <2>2, Zenon
<1>16. ShapesKept(A, B)
  BY <1>7, <1>9, <1>12, <1>13, <1>15 DEF ShapesKept, SameEnds, Extends
<1>17. EndsWith(B, blocks', insert', Known(Top.at))
  <2>1. n + 1 \in 1 .. Len(b1) /\ n + 1 \in 1 .. Len(b2)
    BY <1>2, <1>8, <1>12
  <2> QED BY <1>1, <1>8, <1>12, <1>15, <2>1 DEF SameEnds, EndsWith, p
<1>18. insert' > Len(blocks)
  BY <1>1, <1>2
<1>19. 0 \in Nat
  OBVIOUS
<1>20. ShapeInv(B)'
  BY <1>1, <1>15, <1>16, <1>17, <1>18, <1>19, ClosedFits
<1> QED BY <1>20

(* The statement on top goes on as f. *)
LEMMA Replaced ==
  ASSUME BuildInv, NEW A, ShapeInv(A), phase = "build", open # <<>>, Top.kind # "loop",
         NEW f \in Frame, f.kind # "loop", open' = Append(Below, f)
  PROVE  LoopsOf(open') = LoopsOf(open) /\ LoopsOf(open') = LoopsOf(Below)
<1>1. PICK gs : gs = open'
  OBVIOUS
<1>2. /\ Below \in Seq(Frame) /\ open \in Seq(Frame) /\ Len(open) = Len(Below) + 1
      /\ Top \in Frame /\ \A i \in 1 .. Len(Below) : Below[i] = open[i]
  BY OuterBelow DEF Outer
<1>3. /\ gs \in Seq(Frame) /\ Len(gs) = Len(Below) + 1
      /\ \A i \in 1 .. Len(Below) : gs[i] = Below[i]
      /\ gs[Len(Below) + 1] = f
  BY <1>1, <1>2, AppendProperties
<1>4. open[Len(Below) + 1] = Top
  BY <1>2 DEF Top
<1>5. LoopsOf(open) = LoopsOf(Below) \cup {}
  BY <1>2, <1>4, LoopsPushed
<1>6. LoopsOf(gs) = LoopsOf(Below) \cup {}
  BY <1>2, <1>3, LoopsPushed
<1> QED BY <1>1, <1>5, <1>6

LEMMA CloseTwigFits ==
  ASSUME BuildInv, BuildInv', NEW A, ShapeInv(A), CloseTwig
  PROVE  \E B : ShapeInv(B)'
<1> DEFINE n == Len(blocks)
           p == Known(Top.at)
           c == <<CondBr(Top.at, Top.start, n + 1)>>
           b1 == New(blocks)
<1>0. PICK f : f = [Top EXCEPT !.kind = "branch", !.dones = @ \cup {insert}]
  OBVIOUS
<1>1. /\ phase = "build" /\ InBlock /\ open # <<>> /\ Top.kind = "twig" /\ Top.kind \in Guarding
      /\ body' = body /\ blocks' = Emit(b1, Top.eval, c)
      /\ insert' = n + 1 /\ open' = Append(Below, f)
  BY <1>0 DEF CloseTwig, InBlockOf, InBlock, Guarding
<1>2. /\ A \in Shapes /\ Fitting(body, A, blocks) /\ BlocksOK(blocks, n)
      /\ blocks \in Seq(Seq(Instruction)) /\ n \in Nat /\ insert \in 1 .. n
      /\ Here \in Nat
  BY <1>1, AtInsert, Sizes
<1>3. /\ Top.at \in Nat /\ Top.eval \in 1 .. n /\ Top.start \in 1 .. n /\ Top.start \in Nat
      /\ Implies(End(A, blocks, Top.eval), A[Top.start][1])
      /\ Implies(End(A, blocks, Top.eval), p)
  BY <1>1, GuardLeads
<1>4. /\ Outer(Below, Top.at) /\ FrameOK(Top, n) /\ FrameFits(A, Top) /\ Top \in Frame
  BY <1>1, OuterBelow
<1>5. /\ f \in Frame /\ f.kind = "branch" /\ f.at = Top.at /\ f.dones = Top.dones \cup {insert}
      /\ f.dones \subseteq 1 .. n
  <2>1. insert \in Nat /\ Top.dones \subseteq 2 .. n
    BY <1>2, <1>4 DEF FrameOK
  <2>2. /\ Top.at \in Nat /\ Top.eval \in Nat /\ Top.start \in Nat /\ Top.dones \cup {insert} \subseteq Nat
        /\ Top = [kind |-> Top.kind, at |-> Top.at, eval |-> Top.eval, start |-> Top.start,
                  dones |-> Top.dones]
    BY <1>4, <2>1 DEF Frame
  <2>3. f = [kind |-> "branch", at |-> Top.at, eval |-> Top.eval, start |-> Top.start,
             dones |-> Top.dones \cup {insert}]
    BY <1>0, <2>2
  <2> HIDE DEF n
  <2>4. f \in Frame /\ f.kind = "branch" /\ f.at = Top.at /\ f.dones = Top.dones \cup {insert}
    BY <2>2, <2>3 DEF Frame
  <2>5. 2 .. n \subseteq 1 .. n
    BY <1>2
  <2> QED BY <1>2, <2>1, <2>4, <2>5
<1>6. p \in Shape /\ Covers(p, Here, VisibleTo(Top.at), LoopsTo(Top.at))
  BY <1>1, KnownTyped
<1>7. PICK B \in Shapes :
        /\ Fitting(body', B, blocks) /\ SameEnds(A, blocks, B, blocks) /\ Extends(A, B, n, p, p)
        /\ Always(B[n + 1], p)
  BY <1>1, <1>2, <1>6, Preparing
<1> HIDE DEF p
<1>8. /\ b1 \in Seq(Seq(Instruction)) /\ Len(b1) = n + 1
      /\ Fitting(body', B, b1) /\ SameEnds(B, blocks, B, b1) /\ EndsWith(B, b1, n + 1, p)
  <2>1. Fitting(body', B, b1) /\ SameEnds(B, blocks, B, b1) /\ EndsWith(B, b1, n + 1, p)
    BY <1>2, <1>7, NewFits, Zenon
  <2> QED BY <1>2, <2>1, NewFacts
<1>9. n + 1 \in Nat /\ \A b \in 1 .. n : b \in 1 .. n + 1 /\ b # n + 1
  BY <1>2
<1>10. \A b \in 1 .. n : End(B, b1, b) = End(A, blocks, b)
  BY <1>7, <1>8, Zenon DEF SameEnds
<1> HIDE DEF b1
<1>11. c \in Seq(Instruction) /\ Keeps(body', c, End(B, b1, Top.eval), B)
  <2>1. End(B, b1, Top.eval) = End(A, blocks, Top.eval)
    BY <1>3, <1>10
  <2>2. B[Top.start][1] = A[Top.start][1] /\ B[n + 1][1] = p
    BY <1>3, <1>7 DEF Extends
  <2>3. Implies(End(B, b1, Top.eval), B[Top.start][1]) /\ Implies(End(B, b1, Top.eval), B[n + 1][1])
    BY <1>3, <2>1, <2>2
  <2> QED BY <1>3, <1>9, <2>3, CondBrFits
<1> HIDE DEF c
<1>12. Fitting(body', B, blocks') /\ SameEnds(B, b1, B, blocks')
  <2>1. Top.eval \in 1 .. Len(b1)
    BY <1>3, <1>8, <1>9
  <2>2. Fitting(body', B, Emit(b1, Top.eval, c)) /\ SameEnds(B, b1, B, Emit(b1, Top.eval, c))
    BY <1>8, <1>11, <2>1, EmitFits, Zenon
  <2> QED BY <1>1, <2>2, Zenon
<1>13. \A b \in 1 .. n : End(B, blocks', b) = End(A, blocks, b)
  BY <1>8, <1>9, <1>10, <1>12, Zenon DEF SameEnds
<1>14. ShapesKept(A, B)
  BY <1>7, <1>13 DEF ShapesKept, Extends
<1>15. EndsWith(B, blocks', insert', p)
  <2>1. n + 1 \in 1 .. Len(b1)
    BY <1>2, <1>8
  <2> QED BY <1>1, <1>8, <1>12, <2>1 DEF SameEnds, EndsWith
<1>16. LoopsOf(open') = LoopsOf(open)
  BY <1>1, <1>5, Replaced
<1>17. Here' = Here /\ Visible' = Visible
  BY <1>1 DEF Here, Visible
<1>18. TokensKept /\ ScopeKept(Top.at)
  <2>1. Len(body) \in Nat
    BY DEF BuildInv
  <2>2. TokensKept
    BY <1>1, <2>1 DEF TokensKept
  <2>3. ScopeKept(Top.at)
    BY <1>16, <1>17 DEF ScopeKept, VisibleTo, LoopsTo
  <2> QED BY <2>2, <2>3
<1>19. ASSUME NEW e, Enough(e, Top.at) PROVE Enough(e, f.at)'
  <2>1. VisibleTo(f.at)' = VisibleTo(Top.at) /\ LoopsTo(f.at)' = LoopsTo(Top.at)
    BY <1>5, <1>16, <1>17 DEF VisibleTo, LoopsTo
  <2> QED BY <1>17, <1>19, <2>1 DEF Enough
<1>20. FrameFits(B, f)'
  <2>1. /\ f.at \in 1 .. Len(body') /\ body'[f.at].kind \notin {"let", "end"}
        /\ body'[f.at].kind # "branch"
    BY <1>1, <1>4, <1>5 DEF FrameFits
  <2>2. ASSUME NEW b \in f.dones PROVE Enough(End(B, blocks, b), f.at)'
    <3>1. Enough(End(A, blocks, b), Top.at)
      <4>1. CASE b \in Top.dones
        BY <1>4, <4>1 DEF FrameFits
      <4>2. CASE b = insert
        <5>1. Implies(End(A, blocks, insert), Known(Top.at))
          BY <1>1, HereKnown
        <5>2. End(A, blocks, insert) \in Shape
          BY <1>1, <1>2, AtInsert
        <5>3. /\ Known(Top.at).bound = Here /\ Known(Top.at).holds = {0} \cup VisibleTo(Top.at)
              /\ Known(Top.at).marks = {0} \cup LoopsTo(Top.at)
          BY <1>1, KnownTyped
        <5> QED BY <4>2, <5>1, <5>3 DEF Implies, Enough, Covers
      <4> QED BY <1>5, <4>1, <4>2
    <3>2. End(B, blocks', b) = End(A, blocks, b)
      BY <1>5, <1>13
    <3>3. PICK e : e = End(A, blocks, b)
      OBVIOUS
    <3>4. Enough(e, f.at)'
      BY <1>19, <3>1, <3>3
    <3> QED BY <3>2, <3>3, <3>4 DEF End
  <2>3. f.kind \notin Guarding /\ f.kind # "loop"
    BY <1>5 DEF Guarding
  <2> QED BY <2>1, <2>2, <2>3 DEF FrameFits
<1>21. Enough(End(B, blocks, insert), f.at)'
  <2>1. Enough(p, Top.at)
    BY <1>6 DEF Enough
  <2>2. PICK e : e = p
    OBVIOUS
  <2>3. Enough(e, f.at)'
    BY <1>19, <2>1, <2>2
  <2>4. End(B, blocks', insert') = e
    BY <1>15, <2>2 DEF EndsWith
  <2> QED BY <2>3, <2>4 DEF End
<1>22. ~Awaits(f, insert')
  BY <1>1, <1>2, <1>5 DEF Awaits, Guarding
<1>23. insert' > Len(blocks) /\ Top.at <= f.at
  BY <1>1, <1>2, <1>3, <1>5
<1>24. ShapeInv(B)'
  BY <1>1, <1>3, <1>4, <1>5, <1>12, <1>14, <1>18, <1>20, <1>21, <1>22, <1>23, StillFitsBelow
<1> QED BY <1>24

(* A twig or an "otherwise" begins in a new block, with what is known in front of it. *)
LEMMA NextFits ==
  ASSUME BuildInv, BuildInv', NEW A, ShapeInv(A), Between,
         NEW kind \in {"twig", "otherwise"}, body' = Linked(kind, 0),
         NEW f \in Frame, f.kind = kind, f.at = Here, f.dones = Top.dones,
         kind = "twig" => f.eval = insert /\ f.start = Len(blocks) + 1,
         open' = Append(Below, f), insert' = Len(blocks) + 1,
         NEW s, EndsWith(A, blocks, insert, s),
         NEW B \in Shapes, Fitting(body', B, blocks), SameEnds(A, blocks, B, blocks),
         Extends(A, B, Len(blocks), s, s), Always(B[Len(blocks) + 1], s),
         NEW code \in Seq(Instruction), Keeps(body', code, s, B),
         blocks' = Emit(New(blocks), insert, code)
  PROVE  ShapeInv(B)'
<1> DEFINE n == Len(blocks)
           b1 == New(blocks)
<1>1. phase = "build" /\ open # <<>> /\ Top.kind = "branch"
  BY DEF Between
<1>2. /\ BlocksOK(blocks, n) /\ blocks \in Seq(Seq(Instruction)) /\ n \in Nat
      /\ insert \in 1 .. n /\ Here \in Nat /\ s \in Shape
  BY <1>1, AtInsert, Sizes DEF EndsWith
<1>3. /\ Outer(Below, Top.at) /\ FrameOK(Top, n) /\ FrameFits(A, Top) /\ ~Awaits(Top, insert)
  BY <1>1, OuterBelow
<1>4. Covers(s, Here, VisibleTo(Top.at), LoopsTo(Top.at))
  <2>1. Enough(End(A, blocks, insert), Position)
    BY <1>1, AtInsert
  <2> QED BY <1>1, <2>1 DEF Position, Enough, EndsWith
<1>5. LoopsOf(open') = LoopsOf(Below)
  BY <1>1, Replaced
<1>6. /\ TokensKept /\ ScopeKept(Top.at) /\ Top.at \in Nat /\ Top.at < Here /\ Here' = Here + 1
      /\ Visible' = VisibleTo(Top.at) /\ LoopsOf(open') = LoopsTo(Top.at)
      /\ body'[Here].kind = kind /\ Here \in DOMAIN body'
  <2>1. kind \in {"end", "twig", "otherwise"} /\ 0 \in Nat /\ (kind # "end" => 0 = 0)
    OBVIOUS
  <2> QED BY <1>1, <1>5, <2>1, LinkedKeepsScope, Zenon
<1>7. /\ b1 \in Seq(Seq(Instruction)) /\ Len(b1) = n + 1
      /\ Fitting(body', B, b1) /\ SameEnds(B, blocks, B, b1) /\ EndsWith(B, b1, n + 1, s)
  <2>1. Fitting(body', B, b1) /\ SameEnds(B, blocks, B, b1) /\ EndsWith(B, b1, n + 1, s)
    BY <1>2, NewFits, Zenon
  <2> QED BY <1>2, <2>1, NewFacts
<1>8. n + 1 \in Nat /\ \A b \in 1 .. n : b \in 1 .. n + 1 /\ b # n + 1
  BY <1>2
<1>9. \A b \in 1 .. n : End(B, b1, b) = End(A, blocks, b)
  BY <1>7, Zenon DEF SameEnds
<1> HIDE DEF b1
<1>10. Fitting(body', B, blocks') /\ SameEnds(B, b1, B, blocks')
  <2>1. insert \in 1 .. Len(b1)
    BY <1>2, <1>7, <1>8
  <2>2. Keeps(body', code, End(B, b1, insert), B)
    BY <1>2, <1>9 DEF EndsWith
  <2>3. Fitting(body', B, Emit(b1, insert, code)) /\ SameEnds(B, b1, B, Emit(b1, insert, code))
    BY <1>7, <2>1, <2>2, EmitFits, Zenon
  <2> QED BY <2>3 DEF b1
<1>11. \A b \in 1 .. n : End(B, blocks', b) = End(A, blocks, b)
  BY <1>7, <1>8, <1>9, <1>10, Zenon DEF SameEnds
<1>12. ShapesKept(A, B)
  BY <1>11 DEF ShapesKept, Extends
<1>13. EndsWith(B, blocks', insert', s)
  <2>1. n + 1 \in 1 .. Len(b1)
    BY <1>2, <1>7
  <2> QED BY <1>7, <1>10, <2>1 DEF SameEnds, EndsWith
<1>14. ASSUME NEW e \in Shape, Covers(e, Here, VisibleTo(Top.at), LoopsTo(Top.at))
       PROVE  Covers(e, Here', Visible', LoopsOf(open')) /\ Enough(e, f.at)'
  <2>1. Here \in Nat /\ Here' \in Nat /\ Here <= Here'
    BY <1>2, <1>6
  <2>2. Covers(e, Here', VisibleTo(Top.at), LoopsTo(Top.at))
    BY <1>14, <2>1, CoversMore
  <2>3. Covers(e, Here', Visible', LoopsOf(open'))
    BY <1>6, <2>2
  <2>4. VisibleTo(f.at)' \subseteq Visible' /\ LoopsTo(f.at)' \subseteq LoopsOf(open')
    BY DEF VisibleTo, LoopsTo
  <2>5. Covers(e, Here', VisibleTo(f.at)', LoopsTo(f.at)')
    BY <2>3, <2>4, CoversLess
  <2> QED BY <2>3, <2>5 DEF Enough
<1>15. Enough(End(B, blocks, insert), Here)'
  BY <1>2, <1>4, <1>13, <1>14, EnoughNow
<1>16. FrameFits(B, f)'
  <2>1. /\ f.at \in 1 .. Len(body') /\ body'[f.at].kind \notin {"let", "end", "branch"}
    <3>1. body' \in Seq(Token)
      BY DEF BuildInv
    <3>2. DOMAIN body' = 1 .. Len(body')
      BY <3>1
    <3> QED BY <1>6, <3>2
  <2>2. ASSUME NEW b \in f.dones PROVE Enough(End(B, blocks, b), f.at)'
    <3>1. b \in 1 .. n
      <4>1. 2 .. n \subseteq 1 .. n
        BY <1>2
      <4> QED BY <1>3, <4>1 DEF FrameOK
    <3>2. Covers(End(A, blocks, b), Here, VisibleTo(Top.at), LoopsTo(Top.at))
      BY <1>3 DEF FrameFits, Enough
    <3>3. PICK e : e = End(A, blocks, b)
      OBVIOUS
    <3>4. e \in Shape
      BY <1>1, <3>1, <3>3, AtInsert
    <3>5. Enough(e, f.at)'
      BY <1>14, <3>2, <3>3, <3>4
    <3>6. End(B, blocks', b) = e
      BY <1>11, <3>1, <3>3
    <3> QED BY <3>5, <3>6 DEF End
  <2>3. ASSUME f.kind = "twig"
        PROVE  /\ Enough(End(B, blocks, f.eval), f.at)'
               /\ Implies(End(B, blocks', f.eval), B[f.start][1])
    <3>1. End(B, blocks', f.eval) = s
      BY <1>2, <1>11, <2>3 DEF EndsWith
    <3>2. B[f.start][1] = s
      BY <2>3 DEF Extends
    <3>3. Enough(s, f.at)'
      BY <1>2, <1>4, <1>14
    <3>4. Enough(End(B, blocks, f.eval), f.at)'
      BY <3>1, <3>3 DEF End
    <3> QED BY <1>2, <3>1, <3>2, <3>4, ImpliesItself
  <2>4. (f.kind \in Guarding => f.kind = "twig") /\ f.kind # "loop"
    BY DEF Guarding
  <2>5. f.kind \in Guarding => Implies(End(B, blocks, f.eval), B[f.start][1])'
    BY <2>3, <2>4 DEF End
  <2> QED BY <2>1, <2>2, <2>3, <2>4, <2>5 DEF FrameFits
<1>17. ~Awaits(f, insert')
  <2>1. n + 1 \notin Top.dones
    BY <1>2, <1>3 DEF FrameOK
  <2> QED BY <1>2, <2>1 DEF Awaits, Guarding
<1>18. insert' > Len(blocks) /\ Top.at <= f.at /\ f.kind # "branch"
  BY <1>2, <1>6
<1> QED BY <1>1, <1>3, <1>6, <1>10, <1>12, <1>15, <1>16, <1>17, <1>18, StillFitsBelow

LEMMA OpenTwigFits ==
  ASSUME BuildInv, BuildInv', NEW A, ShapeInv(A), OpenTwig
  PROVE  \E B : ShapeInv(B)'
<1> DEFINE n == Len(blocks)
           code == <<Plain("eval", Here)>>
<1>0. PICK f : f = [Opened("twig", insert, n + 1) EXCEPT !.dones = Top.dones]
  OBVIOUS
<1>1. /\ Between /\ phase = "build" /\ open # <<>> /\ body' = Linked("twig", 0)
      /\ blocks' = Emit(New(blocks), insert, code) /\ insert' = n + 1 /\ open' = Append(Below, f)
      /\ Top.kind = "branch"
  BY <1>0 DEF OpenTwig, Between
<1>2. PICK s : s = End(A, blocks, insert)
  OBVIOUS
<1>3. /\ A \in Shapes /\ Fitting(body, A, blocks) /\ BlocksOK(blocks, n) /\ n \in Nat
      /\ insert \in 1 .. n /\ Here \in Nat /\ s \in Shape
  BY <1>1, <1>2, AtInsert, Sizes
<1>4. Top \in Frame
  BY <1>1, OuterBelow
<1>5. /\ f \in Frame /\ f.kind = "twig" /\ f.at = Here /\ f.dones = Top.dones
      /\ f.eval = insert /\ f.start = n + 1
  <2>1. insert \in Nat /\ n + 1 \in Nat /\ Top.dones \in SUBSET Nat
    BY <1>3, <1>4 DEF Frame
  <2> HIDE DEF n
  <2>2. f = [kind |-> "twig", at |-> Here, eval |-> insert, start |-> n + 1, dones |-> Top.dones]
    BY <1>0 DEF Opened
  <2> QED BY <1>3, <2>1, <2>2 DEF Frame
<1>6. LoopsOf(open') = LoopsOf(Below)
  BY <1>1, <1>5, Replaced
<1>7. Continues(body', body) /\ body'[Here].reads = 0 /\ Here \in DOMAIN body'
  <2>1. "twig" \in {"end", "twig", "otherwise"} /\ 0 \in Nat
    OBVIOUS
  <2> QED BY <1>1, <1>6, <2>1, LinkedKeepsScope, Zenon
<1>8. Fitting(body', A, blocks)
  BY <1>3, <1>7, BodyContinued
<1>9. PICK B \in Shapes :
        /\ Fitting(body', B, blocks) /\ SameEnds(A, blocks, B, blocks) /\ Extends(A, B, n, s, s)
        /\ Always(B[n + 1], s)
  BY <1>3, <1>8, Preparing
<1>10. code \in Seq(Instruction) /\ Keeps(body', code, s, B)
  <2>1. 0 \in s.holds
    BY <1>1, <1>2, AtInsert DEF Enough, Covers
  <2> QED BY <1>3, <1>7, <2>1, EvalFits
<1>11. EndsWith(A, blocks, insert, s)
  BY <1>2 DEF EndsWith
<1> HIDE DEF code
<1>12. /\ "twig" \in {"twig", "otherwise"}
       /\ "twig" = "twig" => f.eval = insert /\ f.start = Len(blocks) + 1
  BY <1>5
<1>13. ShapeInv(B)'
  BY <1>1, <1>5, <1>9, <1>10, <1>11, <1>12, NextFits
<1> QED BY <1>13

LEMMA OpenOtherwiseFits ==
  ASSUME BuildInv, BuildInv', NEW A, ShapeInv(A), OpenOtherwise
  PROVE  \E B : ShapeInv(B)'
<1> DEFINE n == Len(blocks)
           code == <<Br(n + 1)>>
<1>0. PICK f : f = [Opened("otherwise", 0, 0) EXCEPT !.dones = Top.dones]
  OBVIOUS
<1>1. /\ Between /\ phase = "build" /\ open # <<>> /\ body' = Linked("otherwise", 0)
      /\ blocks' = Emit(New(blocks), insert, code) /\ insert' = n + 1 /\ open' = Append(Below, f)
      /\ Top.kind = "branch"
  BY <1>0 DEF OpenOtherwise, Between
<1>2. PICK s : s = End(A, blocks, insert)
  OBVIOUS
<1>3. /\ A \in Shapes /\ Fitting(body, A, blocks) /\ BlocksOK(blocks, n) /\ n \in Nat
      /\ insert \in 1 .. n /\ Here \in Nat /\ s \in Shape
  BY <1>1, <1>2, AtInsert, Sizes
<1>4. Top \in Frame
  BY <1>1, OuterBelow
<1>5. f \in Frame /\ f.kind = "otherwise" /\ f.at = Here /\ f.dones = Top.dones
  <2>1. Top.dones \in SUBSET Nat
    BY <1>4 DEF Frame
  <2>2. f = [kind |-> "otherwise", at |-> Here, eval |-> 0, start |-> 0, dones |-> Top.dones]
    BY <1>0 DEF Opened
  <2> QED BY <1>3, <2>1, <2>2 DEF Frame
<1>6. LoopsOf(open') = LoopsOf(Below)
  BY <1>1, <1>5, Replaced
<1>7. Continues(body', body)
  <2>1. "otherwise" \in {"end", "twig", "otherwise"} /\ 0 \in Nat
    OBVIOUS
  <2> QED BY <1>1, <1>6, <2>1, LinkedKeepsScope, Zenon
<1>8. Fitting(body', A, blocks)
  BY <1>3, <1>7, BodyContinued
<1>9. PICK B \in Shapes :
        /\ Fitting(body', B, blocks) /\ SameEnds(A, blocks, B, blocks) /\ Extends(A, B, n, s, s)
        /\ Always(B[n + 1], s)
  BY <1>3, <1>8, Preparing
<1>10. code \in Seq(Instruction) /\ Keeps(body', code, s, B)
  <2>1. n + 1 \in Nat /\ Implies(s, B[n + 1][1])
    BY <1>3, <1>9, ImpliesItself DEF Extends
  <2> QED BY <2>1, BrFits
<1>11. EndsWith(A, blocks, insert, s)
  BY <1>2 DEF EndsWith
<1> HIDE DEF code
<1>12. /\ "otherwise" \in {"twig", "otherwise"} /\ "otherwise" # "twig"
  OBVIOUS
<1>13. ShapeInv(B)'
  BY <1>1, <1>5, <1>9, <1>10, <1>11, <1>12, NextFits
<1> QED BY <1>13

(* The blocks in which the twigs ended know what is in scope around their branch. *)
LEMMA DonesKnown ==
  ASSUME BuildInv, NEW A, ShapeInv(A), phase = "build", open # <<>>
  PROVE  /\ Top.dones \subseteq 1 .. Len(blocks)
         /\ \A b \in Top.dones \cup {insert} : Implies(End(A, blocks, b), Known(Top.at))
<1>1. FrameOK(Top, Len(blocks)) /\ FrameFits(A, Top)
  BY OuterBelow
<1>2. Len(blocks) \in Nat
  BY Sizes
<1>3. Top.dones \subseteq 1 .. Len(blocks)
  <2>1. 2 .. Len(blocks) \subseteq 1 .. Len(blocks)
    BY <1>2
  <2> QED BY <1>1, <2>1 DEF FrameOK
<1>4. \A b \in Top.dones : Enough(End(A, blocks, b), Top.at)
  BY <1>1 DEF FrameFits
<1>5. \A b \in Top.dones : Implies(End(A, blocks, b), Known(Top.at))
  BY <1>4, EnoughKnown
<1>6. Implies(End(A, blocks, insert), Known(Top.at))
  BY HereKnown
<1> QED BY <1>3, <1>5, <1>6

LEMMA CloseBranchFits ==
  ASSUME BuildInv, BuildInv', NEW A, ShapeInv(A), CloseBranch
  PROVE  \E B : ShapeInv(B)'
<1> DEFINE n == Len(blocks)
           p == Known(Top.at)
<1>1. /\ phase = "build" /\ open # <<>>
      /\ body' = Linked("end", 0) /\ blocks' = Joined(blocks, Top.dones, insert)
      /\ insert' = n + 1 /\ open' = Below
  BY DEF CloseBranch, Between
<1>2. /\ A \in Shapes /\ Fitting(body, A, blocks) /\ BlocksOK(blocks, n)
      /\ n \in Nat /\ insert \in 1 .. n
  BY <1>1, AtInsert
<1>3. p \in Shape /\ \A b \in Top.dones \cup {insert} : Implies(End(A, blocks, b), p)
  BY <1>1, KnownTyped, DonesKnown
<1>4. Continues(body', body)
  <2>1. "end" \in {"end", "twig", "otherwise"} /\ 0 \in Nat /\ LoopsOf(open') = LoopsOf(Below)
    BY <1>1
  <2> QED BY <1>1, <2>1, LinkedKeepsScope, Zenon
<1>5. Fitting(body', A, blocks)
  BY <1>2, <1>4, BodyContinued
<1>6. PICK B \in Shapes :
        /\ Fitting(body', B, blocks) /\ SameEnds(A, blocks, B, blocks) /\ Extends(A, B, n, p, p)
        /\ Always(B[n + 1], p)
  BY <1>2, <1>3, <1>5, Preparing
<1> HIDE DEF p
<1>7. \A b \in 1 .. n : b \in Top.dones \cup {insert} => Implies(End(B, blocks, b), p)
  BY <1>3, <1>6 DEF SameEnds
<1>8. /\ Fitting(body', B, blocks') /\ SameEnds(B, blocks, B, blocks')
      /\ EndsWith(B, blocks', n + 1, p)
  <2>1. /\ Fitting(body', B, Joined(blocks, Top.dones, insert))
        /\ SameEnds(B, blocks, B, Joined(blocks, Top.dones, insert))
        /\ EndsWith(B, Joined(blocks, Top.dones, insert), n + 1, p)
    BY <1>2, <1>3, <1>6, <1>7, JoinedFits, Zenon
  <2> QED BY <1>1, <2>1, Zenon
<1>9. ShapesKept(A, B)
  BY <1>6, <1>8 DEF ShapesKept, SameEnds, Extends
<1>10. insert' > Len(blocks) /\ 0 \in Nat
  BY <1>1, <1>2
<1>11. EndsWith(B, blocks', insert', Known(Top.at))
  BY <1>1, <1>8 DEF p
<1>12. ShapeInv(B)'
  BY <1>1, <1>8, <1>9, <1>10, <1>11, ClosedFits
<1> QED BY <1>12

LEMMA CloseOtherwiseFits ==
  ASSUME BuildInv, BuildInv', NEW A, ShapeInv(A), CloseOtherwise
  PROVE  \E B : ShapeInv(B)'
<1> DEFINE n == Len(blocks)
           p == Known(Top.at)
           b1 == New(blocks)
           dones == Top.dones \cup {insert}
<1>1. /\ phase = "build" /\ open # <<>>
      /\ body' = Linked("end", 0) /\ blocks' = Joined(b1, dones, n + 1)
      /\ insert' = n + 2 /\ open' = Below
  BY DEF CloseOtherwise, InBlockOf
<1>2. /\ A \in Shapes /\ Fitting(body, A, blocks) /\ BlocksOK(blocks, n)
      /\ blocks \in Seq(Seq(Instruction)) /\ n \in Nat /\ insert \in 1 .. n
  BY <1>1, AtInsert
<1>3. /\ p \in Shape /\ dones \subseteq 1 .. n
      /\ \A b \in dones : Implies(End(A, blocks, b), p)
  BY <1>1, <1>2, KnownTyped, DonesKnown
<1>4. Continues(body', body)
  <2>1. "end" \in {"end", "twig", "otherwise"} /\ 0 \in Nat /\ LoopsOf(open') = LoopsOf(Below)
    BY <1>1
  <2> QED BY <1>1, <2>1, LinkedKeepsScope, Zenon
<1>5. Fitting(body', A, blocks)
  BY <1>2, <1>4, BodyContinued
<1>6. PICK B \in Shapes :
        /\ Fitting(body', B, blocks) /\ SameEnds(A, blocks, B, blocks) /\ Extends(A, B, n, p, p)
        /\ Always(B[n + 1], p) /\ Always(B[n + 2], p)
  BY <1>2, <1>3, <1>5, Preparing
<1> HIDE DEF p, dones
<1>7. /\ Fitting(body', B, b1) /\ SameEnds(B, blocks, B, b1) /\ EndsWith(B, b1, n + 1, p)
  BY <1>2, <1>6, NewFits, Zenon
<1>8. BlocksOK(b1, n + 2) /\ Len(b1) = n + 1
  <2>1. n + 2 \in Nat /\ n <= n + 2
    BY <1>2
  <2>2. BlocksOK(blocks, n + 2)
    BY <1>2, <2>1, BlocksWidened
  <2> QED BY <2>1, <2>2, NewKeeps
<1> HIDE DEF b1
<1>9. n + 2 \in Nat /\ n + 1 + 1 = n + 2 /\ \A b \in 1 .. n : b \in 1 .. n + 1 /\ b # n + 1
  BY <1>2
<1>10. \A b \in 1 .. n : End(B, b1, b) = End(A, blocks, b)
  BY <1>6, <1>7, Zenon DEF SameEnds
<1>11. \A b \in 1 .. Len(b1) : b \in dones \cup {n + 1} => Implies(End(B, b1, b), p)
  BY <1>3, <1>7, <1>10, ImpliesItself DEF EndsWith
<1>12. /\ Fitting(body', B, blocks') /\ SameEnds(B, b1, B, blocks')
       /\ EndsWith(B, blocks', n + 2, p)
  <2>1. Always(B[Len(b1) + 1], p) /\ Len(b1) + 1 = n + 2
    BY <1>6, <1>8, <1>9
  <2>2. /\ Fitting(body', B, Joined(b1, dones, n + 1))
        /\ SameEnds(B, b1, B, Joined(b1, dones, n + 1))
        /\ EndsWith(B, Joined(b1, dones, n + 1), Len(b1) + 1, p)
    BY <1>3, <1>6, <1>7, <1>8, <1>9, <1>11, <2>1, JoinedFits, Zenon
  <2> QED BY <1>1, <2>1, <2>2, Zenon
<1>13. ShapesKept(A, B)
  BY <1>6, <1>8, <1>9, <1>10, <1>12 DEF ShapesKept, SameEnds, Extends
<1>14. insert' > Len(blocks) /\ 0 \in Nat
  BY <1>1, <1>2
<1>15. EndsWith(B, blocks', insert', Known(Top.at))
  BY <1>1, <1>12 DEF p
<1>16. ShapeInv(B)'
  BY <1>1, <1>12, <1>13, <1>14, <1>15, ClosedFits
<1> QED BY <1>16

(* Behind the restore of a round, what the loop's condition was first evaluated with is known. *)
LEMMA RoundFits ==
  ASSUME BuildInv, NEW A, ShapeInv(A), phase = "build", InBlockOf("loop"),
         NEW s, s = End(A, blocks, insert), NEW w
  PROVE  /\ RestoreRound \in Seq(Instruction) /\ Restored(s, Top.at) \in Shape
         /\ Turns(w, RestoreRound, s, Restored(s, Top.at), A)
         /\ Implies(Restored(s, Top.at), A[Top.eval][1])
<1> DEFINE l == Top.at
           r == Restored(s, l)
           x == Plain("restore", l)
           e == A[Top.eval][1]
<1>1. open # <<>> /\ Top.kind = "loop" /\ InBlock
  BY DEF InBlockOf, InBlock
<1>2. s \in Shape /\ Covers(s, Here, Visible, LoopsOf(open))
  BY <1>1, AtInsert, AtHere
<1>3. FrameFits(A, Top) /\ open \in Seq(Frame) /\ Len(open) \in Nat /\ Len(open) = Len(Below) + 1
      /\ Len(Below) \in Nat
  BY <1>1, OuterBelow
<1>4. l \in 1 .. Len(body) /\ l \in Nat /\ Len(body) \in Nat /\ 0 < l
  BY <1>3 DEF FrameFits, BuildInv
<1>5. l \in LoopsOf(open)
  <2>1. Len(open) \in 1 .. Len(open) /\ Top = open[Len(open)]
    BY <1>3 DEF Top
  <2> QED BY <1>1, <2>1 DEF LoopsOf
<1>6. l \in s.marks /\ 0 \in s.marks /\ 0 \in s.holds /\ Visible \subseteq s.holds
      /\ LoopsOf(open) \subseteq s.marks
  BY <1>2, <1>5 DEF Covers
<1>7. /\ x \in Instruction /\ r \in Shape /\ Fits(w, x, s, r, A) /\ r.bound = l
      /\ r.holds = {d \in s.holds : d < l} /\ r.marks = {k \in s.marks : k <= l}
  BY <1>2, <1>4, <1>6, RestoreFits
<1>8. /\ l <= e.bound /\ e.holds \subseteq {0} \cup VisibleTo(l)
      /\ e.marks \subseteq {0} \cup LoopsTo(l)
  BY <1>1, <1>3 DEF FrameFits
<1>9. {0} \cup VisibleTo(l) \subseteq r.holds
  BY <1>4, <1>6, <1>7 DEF VisibleTo
<1>10. {0} \cup LoopsTo(l) \subseteq r.marks
  <2>1. LoopsOf(open) \subseteq Nat
    BY LoopsTyped
  <2>2. \A k \in Nat : k < l => k <= l
    BY <1>4
  <2>3. 0 \in r.marks
    BY <1>4, <1>6, <1>7
  <2>4. LoopsTo(l) \subseteq r.marks
    BY <1>6, <1>7, <2>1, <2>2 DEF LoopsTo
  <2> QED BY <2>3, <2>4
<1>11. Implies(r, e)
  BY <1>7, <1>8, <1>9, <1>10 DEF Implies
<1>12. RestoreRound \in Seq(Instruction) /\ Turns(w, RestoreRound, s, r, A)
  <2> HIDE DEF x, r
  <2>1. RestoreRound = <<x>>
    BY DEF RestoreRound, x
  <2>2. /\ <<x>> \in Seq(Instruction) /\ <<x>> # <<>> /\ <<x>>[1] = x
        /\ \A i \in 2 .. Len(<<x>>) : FALSE
    BY <1>7
  <2> QED BY <1>7, <2>1, <2>2, Zenon DEF Turns
<1> QED BY <1>7, <1>11, <1>12

LEMMA CloseLoopFits ==
  ASSUME BuildInv, BuildInv', NEW A, ShapeInv(A), CloseLoop
  PROVE  \E B : ShapeInv(B)'
<1> DEFINE n == Len(blocks)
           s == End(A, blocks, insert)
           p == Known(Top.at)
           e == A[Top.eval][1]
           r == Restored(s, Top.at)
           c1 == RestoreRound
           c2 == <<Br(n + 1)>>
           c3 == <<Br(Top.eval)>>
           c4 == <<CondBr(Top.at, Top.start, n + 2)>>
           b1 == Emit(blocks, insert, c1)
           b2 == New(b1)
           b3 == EmitIfOpen(b2, insert, c2)
           b4 == Emit(b3, n + 1, c3)
           b5 == New(b4)
<1>1. /\ phase = "build" /\ InBlockOf("loop") /\ open # <<>> /\ Top.kind \in Guarding
      /\ body' = Linked("end", Top.at) /\ blocks' = Emit(b5, Top.eval, c4)
      /\ insert' = n + 2 /\ open' = Below
  BY DEF CloseLoop, InBlockOf, Guarding
<1>2. /\ A \in Shapes /\ Fitting(body, A, blocks) /\ BlocksOK(blocks, n)
      /\ blocks \in Seq(Seq(Instruction)) /\ n \in Nat /\ insert \in 1 .. n
      /\ \A b \in 1 .. n : A[b][1] \in Shape
  BY <1>1, AtInsert
<1>3. /\ Top.at \in Nat /\ Top.eval \in 1 .. n /\ Top.start \in 1 .. n /\ Top.start \in Nat
      /\ Top.eval \in Nat /\ Top.eval # insert
      /\ Implies(End(A, blocks, Top.eval), A[Top.start][1])
      /\ Implies(End(A, blocks, Top.eval), p)
  BY <1>1, GuardLeads
<1>4. p \in Shape /\ e \in Shape
  BY <1>1, <1>2, <1>3, KnownTyped
<1>5. Continues(body', body)
  <2>1. "end" \in {"end", "twig", "otherwise"} /\ LoopsOf(open') = LoopsOf(Below)
    BY <1>1
  <2> QED BY <1>1, <1>3, <2>1, LinkedKeepsScope, Zenon
<1>6. Fitting(body', A, blocks)
  BY <1>2, <1>5, BodyContinued
<1>7. c1 \in Seq(Instruction) /\ r \in Shape /\ Turns(body', c1, s, r, A) /\ Implies(r, e)
  BY <1>1, RoundFits
<1> HIDE DEF p, e, r, c1
<1>8. PICK A1 \in Shapes :
        /\ Fitting(body', A1, b1) /\ SameEntries(A, A1)
        /\ \A i \in 1 .. n : i # insert => End(A1, b1, i) = End(A, blocks, i)
        /\ EndsWith(A1, b1, insert, r)
  <2>1. n <= Len(blocks)
    BY <1>2
  <2>2. Turns(body', c1, End(A, blocks, insert), r, A)
    BY <1>7 DEF s
  <2> HIDE DEF s
  <2> QED BY <1>2, <1>6, <1>7, <2>1, <2>2, EmitTurns, Zenon
<1>9. BlocksOK(b1, Len(b1)) /\ Len(b1) = n /\ b1 \in Seq(Seq(Instruction))
  <2>1. CodeOK(c1, n)
    <3>1. Top.at \in Nat
      BY <1>3
    <3> QED BY <1>2, <3>1, PlainCode DEF c1, RestoreRound
  <2>2. BlocksOK(b1, n) /\ Len(b1) = n
    <3>1. insert \in 2 .. Len(blocks)
      BY <1>1, AtInsert
    <3> QED BY <1>2, <2>1, <3>1, EmitKeeps
  <2> QED BY <2>2 DEF BlocksOK
<1> HIDE DEF s, b1
<1>10. PICK B \in Shapes :
         /\ Fitting(body', B, b1) /\ SameEnds(A1, b1, B, b1) /\ Extends(A1, B, n, e, p)
         /\ Always(B[n + 1], e) /\ Always(B[n + 2], p)
  BY <1>4, <1>8, <1>9, Preparing
<1>11. /\ B[n + 1][1] = e /\ B[n + 2][1] = p
       /\ \A b \in 1 .. n : B[b][1] = A[b][1]
  BY <1>2, <1>8, <1>10 DEF Extends, SameEntries
<1>12. /\ End(B, b1, insert) = r
       /\ \A b \in 1 .. n : b # insert => End(B, b1, b) = End(A, blocks, b)
  BY <1>2, <1>8, <1>9, <1>10 DEF SameEnds, EndsWith
<1>13. /\ n + 1 \in Nat /\ n + 2 \in Nat /\ n + 1 + 1 = n + 2
       /\ n + 1 \in 1 .. n + 1 /\ n + 1 \in 1 .. n + 2 /\ n + 2 \in 1 .. n + 2 /\ n + 1 # n + 2
       /\ \A b \in 1 .. n : b \in 1 .. n + 1 /\ b \in 1 .. n + 2 /\ b # n + 1
  BY <1>2
<1>14. /\ b2 \in Seq(Seq(Instruction)) /\ Len(b2) = n + 1
       /\ Fitting(body', B, b2) /\ SameEnds(B, b1, B, b2) /\ EndsWith(B, b2, n + 1, e)
  <2>1. Fitting(body', B, b2) /\ SameEnds(B, b1, B, b2) /\ EndsWith(B, b2, n + 1, e)
    BY <1>9, <1>10, NewFits, Zenon
  <2> QED BY <1>9, <2>1, NewFacts
<1>15. /\ End(B, b2, n + 1) = e /\ End(B, b2, insert) = r
       /\ \A b \in 1 .. n : b # insert => End(B, b2, b) = End(A, blocks, b)
  BY <1>2, <1>9, <1>12, <1>14 DEF SameEnds, EndsWith
<1> HIDE DEF b2
<1>16. c2 \in Seq(Instruction) /\ Keeps(body', c2, End(B, b2, insert), B)
  <2>1. Implies(End(B, b2, insert), B[n + 1][1])
    BY <1>7, <1>11, <1>15
  <2> QED BY <1>13, <2>1, BrFits
<1> HIDE DEF c2
<1>17. /\ b3 \in Seq(Seq(Instruction)) /\ Len(b3) = n + 1
       /\ Fitting(body', B, b3) /\ SameEnds(B, b2, B, b3)
  <2>1. insert \in 1 .. Len(b2)
    BY <1>2, <1>13, <1>14
  <2>2. Fitting(body', B, b3) /\ SameEnds(B, b2, B, b3)
    BY <1>14, <1>16, <2>1, EmitIfOpenFits, Zenon
  <2>3. b3 \in Seq(Seq(Instruction)) /\ Len(b3) = n + 1
    BY <1>14, <1>16, <2>1, EmitFacts DEF EmitIfOpen
  <2> QED BY <2>2, <2>3
<1> HIDE DEF b3
<1>18. /\ End(B, b3, n + 1) = e
       /\ \A b \in 1 .. n : b # insert => End(B, b3, b) = End(A, blocks, b)
  BY <1>13, <1>14, <1>15, <1>17, Zenon DEF SameEnds
<1>19. c3 \in Seq(Instruction) /\ Keeps(body', c3, End(B, b3, n + 1), B)
  <2>1. Implies(End(B, b3, n + 1), B[Top.eval][1])
    BY <1>3, <1>4, <1>11, <1>18, ImpliesItself DEF e
  <2> QED BY <1>3, <2>1, BrFits
<1> HIDE DEF c3
<1>20. /\ b4 \in Seq(Seq(Instruction)) /\ Len(b4) = n + 1
       /\ Fitting(body', B, b4) /\ SameEnds(B, b3, B, b4)
  <2>1. n + 1 \in 1 .. Len(b3)
    BY <1>13, <1>17
  <2>2. Fitting(body', B, b4) /\ SameEnds(B, b3, B, b4)
    BY <1>17, <1>19, <2>1, EmitFits, Zenon
  <2>3. b4 \in Seq(Seq(Instruction)) /\ Len(b4) = n + 1
    BY <1>17, <1>19, <2>1, EmitFacts
  <2> QED BY <2>2, <2>3
<1> HIDE DEF b4
<1>21. /\ b5 \in Seq(Seq(Instruction)) /\ Len(b5) = n + 2
       /\ Fitting(body', B, b5) /\ SameEnds(B, b4, B, b5) /\ EndsWith(B, b5, n + 2, p)
  <2>1. Always(B[Len(b4) + 1], p) /\ Len(b4) + 1 = n + 2
    BY <1>10, <1>13, <1>20
  <2>2. Fitting(body', B, b5) /\ SameEnds(B, b4, B, b5) /\ EndsWith(B, b5, Len(b4) + 1, p)
    BY <1>20, <2>1, NewFits, Zenon
  <2> QED BY <1>20, <2>1, <2>2, NewFacts
<1>22. \A b \in 1 .. n : b # insert => End(B, b5, b) = End(A, blocks, b)
  BY <1>13, <1>17, <1>18, <1>20, <1>21, Zenon DEF SameEnds
<1> HIDE DEF b5
<1>23. c4 \in Seq(Instruction) /\ Keeps(body', c4, End(B, b5, Top.eval), B)
  <2>1. End(B, b5, Top.eval) = End(A, blocks, Top.eval)
    BY <1>3, <1>22
  <2>2. Implies(End(B, b5, Top.eval), B[Top.start][1]) /\ Implies(End(B, b5, Top.eval), B[n + 2][1])
    BY <1>3, <1>11, <2>1
  <2> QED BY <1>3, <1>13, <2>2, CondBrFits
<1> HIDE DEF c4
<1>24. Fitting(body', B, blocks') /\ SameEnds(B, b5, B, blocks')
  <2>1. Top.eval \in 1 .. Len(b5)
    BY <1>3, <1>13, <1>21
  <2>2. Fitting(body', B, Emit(b5, Top.eval, c4)) /\ SameEnds(B, b5, B, Emit(b5, Top.eval, c4))
    BY <1>21, <1>23, <2>1, EmitFits, Zenon
  <2> QED BY <1>1, <2>2, Zenon
<1>25. ShapesKept(A, B)
  BY <1>11, <1>13, <1>21, <1>22, <1>24 DEF ShapesKept, SameEnds
<1>26. EndsWith(B, blocks', insert', Known(Top.at))
  BY <1>1, <1>13, <1>21, <1>24 DEF SameEnds, EndsWith, p
<1>27. insert' > Len(blocks)
  BY <1>1, <1>2
<1>28. ShapeInv(B)'
  BY <1>1, <1>3, <1>24, <1>25, <1>26, <1>27, ClosedFits
<1> QED BY <1>28

-----------------------------------------------------------------------------
(* The function before its first token, and all steps of the builder. *)

Saving == [bound |-> 0, holds |-> {}, marks |-> {0}]
Framed == [bound |-> 1, holds |-> {0}, marks |-> {0}]

LEMMA EntryFits ==
  ASSUME NEW w, NEW A, A[2][1] = Framed, NEW a,
         a[1] = Nothing, a[2] = Saving, \A i \in Nat : i > 2 => a[i] = Framed
  PROVE  CodeFits(w, Entry, a, A)
<1> DEFINE x == Plain("save", 0)
           y == Plain("alloca", 0)
           z == Br(2)
<1>1. x.op = "save" /\ x.at = 0 /\ y.op = "alloca" /\ y.at = 0 /\ z.op = "br" /\ z.yes = 2
  BY DEF Plain, Br
<1>2. a[3] = Framed /\ a[4] = Framed
  OBVIOUS
<1> HIDE DEF x, y, z
<1>3. Fits(w, x, Nothing, Saving, A)
  <2>1. 0 \in 0 .. MaxTokens
    BY MaxTokensAssumption
  <2> QED BY <1>1, <2>1 DEF Fits, Nothing, Saving
<1>4. Fits(w, y, Saving, Framed, A)
  BY <1>1 DEF Fits, Saving, Framed
<1>5. Fits(w, z, Framed, Framed, A)
  BY <1>1 DEF Fits, Framed, Implies
<1>6. Len(Entry) = 3 /\ Entry[1] = x /\ Entry[2] = y /\ Entry[3] = z
  BY DEF Entry, x, y, z
<1>7. \A i \in 1 .. 3 : Fits(w, Entry[i], a[i], a[i + 1], A)
  <2>1. \A i \in 1 .. 3 : i = 1 \/ i = 2 \/ i = 3
    OBVIOUS
  <2>2. 1 + 1 = 2 /\ 2 + 1 = 3 /\ 3 + 1 = 4
    OBVIOUS
  <2> QED BY <1>2, <1>3, <1>4, <1>5, <1>6, <2>1, <2>2
<1>8. \A i \in Nat : i > 3 => a[i] = a[3 + 1]
  BY <1>2
<1> QED BY <1>6, <1>7, <1>8, Zenon DEF CodeFits

LEMMA InitFits ==
  ASSUME Init
  PROVE  \E A : ShapeInv(A)
<1> DEFINE first == [i \in Nat |-> IF i = 1 THEN Nothing ELSE IF i = 2 THEN Saving ELSE Framed]
           rest == [i \in Nat |-> Framed]
           A == [b \in Nat |-> IF b = 1 THEN first ELSE rest]
           none == <<>>
           bs == <<Entry, none>>
<1>1. body = <<>> /\ open = <<>> /\ blocks = bs /\ insert = 2 /\ phase = "build"
  BY DEF Init, Entry
<1>2. Nothing \in Shape /\ Saving \in Shape /\ Framed \in Shape
  BY DEF Nothing, Saving, Framed, Shape
<1>3. /\ first \in [Nat -> Shape] /\ first[1] = Nothing /\ first[2] = Saving
      /\ \A i \in Nat : i > 2 => first[i] = Framed
  BY <1>2
<1>4. rest \in [Nat -> Shape] /\ \A i \in Nat : rest[i] = Framed
  BY <1>2
<1> HIDE DEF first, rest
<1>5. A \in Shapes /\ A[1] = first /\ A[2] = rest
  <2> DEFINE F == [Nat -> Shape]
  <2>1. first \in F /\ rest \in F
    BY <1>3, <1>4
  <2> HIDE DEF F
  <2>2. A \in [Nat -> F] /\ A[1] = first /\ A[2] = rest
    BY <2>1
  <2> QED BY <2>2 DEF Shapes, F
<1>6. Len(bs) = 2 /\ bs[1] = Entry /\ bs[2] = none /\ Len(none) = 0
  OBVIOUS
<1> HIDE DEF A, bs, none
<1>7. A[2][1] = Framed
  BY <1>4, <1>5
<1>8. CodeFits(body, Entry, A[1], A)
  BY <1>3, <1>5, <1>7, EntryFits
<1>9. CodeFits(body, none, A[2], A)
  BY <1>4, <1>5, <1>6 DEF CodeFits
<1>10. Fitting(body, A, blocks)
  <2>1. \A b \in 1 .. 2 : b = 1 \/ b = 2
    OBVIOUS
  <2> QED BY <1>1, <1>6, <1>8, <1>9, <2>1 DEF Fitting
<1>11. End(A, blocks, insert) = Framed
  BY <1>1, <1>4, <1>5, <1>6 DEF End
<1>12. Enough(Framed, Position)
  <2>1. Here = 1 /\ Visible = {} /\ LoopsOf(open) = {}
    BY <1>1 DEF Here, Visible, LoopsOf
  <2>2. VisibleTo(Position) = {} /\ LoopsTo(Position) = {}
    BY <2>1 DEF VisibleTo, LoopsTo
  <2> QED BY <2>1, <2>2 DEF Enough, Covers, Framed
<1>13. \A k \in 1 .. Len(open) : FALSE
  BY <1>1
<1>14. ShapeInv(A)
  BY <1>3, <1>5, <1>10, <1>11, <1>12, <1>13 DEF ShapeInv, Nested
<1> QED BY <1>14

(* What does not build leaves the shapes as they are. *)
LEMMA NotBuildingFits ==
  ASSUME NEW A, ShapeInv(A), UNCHANGED <<body, blocks>>, phase' # "build"
  PROVE  ShapeInv(A)'
BY DEF ShapeInv

LEMMA BuildFits ==
  ASSUME BuildInv, BuildInv', NEW A, ShapeInv(A), Build
  PROVE  \E B : ShapeInv(B)'
<1>1. CASE BuildBareReturn
  <2>1. UNCHANGED <<body, blocks>> /\ phase' # "build"
    BY <1>1 DEF BuildBareReturn, built
  <2> QED BY <2>1, NotBuildingFits
<1>2. CASE OpenBlock
  <2>1. /\ phase = "build" /\ InBlock /\ UNCHANGED <<blocks, insert, phase>>
        /\ body' = Written("block", 0, 0) /\ open' = Append(open, Opened("block", 0, 0))
    BY <1>2 DEF OpenBlock, InBlock
  <2>2. "block" \in {"block", "branch"}
    OBVIOUS
  <2> QED BY <2>1, <2>2, BracesFit
<1>3. CASE OpenBranch
  <2>1. /\ phase = "build" /\ InBlock /\ UNCHANGED <<blocks, insert, phase>>
        /\ body' = Written("branch", 0, 0) /\ open' = Append(open, Opened("branch", 0, 0))
    BY <1>3 DEF OpenBranch, InBlock
  <2>2. "branch" \in {"block", "branch"}
    OBVIOUS
  <2> QED BY <2>1, <2>2, BracesFit
<1> QED BY <1>1, <1>2, <1>3, BuildSimpleFits, BuildDeclarationFits, BuildReturnFits,
           CloseBlockFits, OpenConditionalFits, CloseConditionalFits, OpenTwigFits, CloseTwigFits,
           OpenOtherwiseFits, CloseOtherwiseFits, CloseBranchFits, OpenLoopFits, CloseLoopFits,
           FinishFunctionFits, Zenon
        DEF Build

-----------------------------------------------------------------------------
(* The stack of a call: older storage is below younger storage. *)

Rising(st) ==
  /\ st \in Seq(Nat)
  /\ \A i, j \in 1 .. Len(st) : i < j => st[i] < st[j]

(* The stack st and the saved sizes sv are as the shape s says. *)
Bounded(s, st) == \A j \in 1 .. Len(st) : st[j] < s.bound
Held(s, st) == \A d \in s.holds : \E j \in 1 .. Len(st) : st[j] = d
Divides(l, n, st) == n <= Len(st) /\ \A j \in 1 .. Len(st) : j <= n <=> st[j] < l
Marked(s, st, sv) == \A l \in s.marks : l \in 0 .. MaxTokens /\ Divides(l, sv[l], st)

Holds(s, st, sv) == Bounded(s, st) /\ Held(s, st) /\ Marked(s, st, sv)

LEMMA HoldsImplied ==
  ASSUME NEW s \in Shape, NEW t \in Shape, Implies(s, t), NEW st, st \in Seq(Nat), NEW sv,
         Holds(s, st, sv)
  PROVE  Holds(t, st, sv)
<1>1. Bounded(t, st)
  <2>1. s.bound \in Nat /\ t.bound \in Nat /\ s.bound <= t.bound
    BY DEF Shape, Implies
  <2>2. \A j \in 1 .. Len(st) : st[j] \in Nat /\ st[j] < s.bound
    BY DEF Holds, Bounded
  <2> QED BY <2>1, <2>2 DEF Bounded
<1>2. Held(t, st) /\ Marked(t, st, sv)
  BY DEF Holds, Held, Marked, Implies
<1> QED BY <1>1, <1>2 DEF Holds

LEMMA AllocaHolds ==
  ASSUME NEW w, NEW A, NEW s \in Shape, NEW t \in Shape, NEW x \in Instruction, x.op = "alloca",
         Fits(w, x, s, t, A), NEW st, Rising(st), NEW sv \in [0 .. MaxTokens -> Nat],
         Holds(s, st, sv)
  PROVE  Rising(Append(st, x.at)) /\ Holds(t, Append(st, x.at), sv)
<1> DEFINE new == Append(st, x.at)
           n == Len(st)
<1>1. st \in Seq(Nat) /\ x.at \in Nat /\ n \in Nat
  BY DEF Rising, Instruction
<1>2. new \in Seq(Nat) /\ Len(new) = n + 1 /\ (\A j \in 1 .. n : new[j] = st[j]) /\ new[n + 1] = x.at
  BY <1>1, AppendProperties
<1>3. /\ s.bound <= x.at /\ x.at < t.bound /\ t.holds \subseteq s.holds \cup {x.at}
      /\ t.marks \subseteq {l \in s.marks : l <= x.at}
      /\ s.bound \in Nat /\ t.bound \in Nat /\ s.marks \subseteq Nat
  BY DEF Fits, Shape
<1>4. \A j \in 1 .. n : st[j] \in Nat /\ st[j] < x.at
  <2>1. \A j \in 1 .. n : st[j] \in Nat /\ st[j] < s.bound
    BY <1>1 DEF Holds, Bounded
  <2> QED BY <1>1, <1>3, <2>1
<1> HIDE DEF new
<1>5. Rising(new)
  <2>1. ASSUME NEW i \in 1 .. n + 1, NEW j \in 1 .. n + 1, i < j PROVE new[i] < new[j]
    <3>1. i \in 1 .. n
      BY <1>1, <2>1
    <3>2. CASE j \in 1 .. n
      <4>1. st[i] < st[j]
        BY <2>1, <3>1, <3>2 DEF Rising
      <4> QED BY <1>2, <3>1, <3>2, <4>1
    <3>3. CASE j = n + 1
      BY <1>2, <1>4, <3>1, <3>3
    <3> QED BY <1>1, <3>2, <3>3
  <2> QED BY <1>2, <2>1 DEF Rising
<1>6. Bounded(t, new)
  <2>1. ASSUME NEW j \in 1 .. n + 1 PROVE new[j] < t.bound
    <3>1. CASE j \in 1 .. n
      <4>1. new[j] \in Nat /\ new[j] < x.at
        BY <1>2, <1>4, <3>1
      <4> QED BY <1>1, <1>3, <4>1
    <3>2. CASE j = n + 1
      BY <1>2, <1>3, <3>2
    <3> QED BY <1>1, <3>1, <3>2
  <2> QED BY <1>2, <2>1 DEF Bounded
<1>7. Held(t, new)
  <2>1. ASSUME NEW d \in t.holds PROVE \E j \in 1 .. n + 1 : new[j] = d
    <3>1. CASE d = x.at
      <4>1. n + 1 \in 1 .. n + 1
        BY <1>1
      <4> QED BY <1>2, <3>1, <4>1
    <3>2. CASE d \in s.holds
      <4>1. PICK j \in 1 .. n : st[j] = d
        BY <3>2 DEF Holds, Held
      <4>2. j \in 1 .. n + 1 /\ new[j] = d
        BY <1>1, <1>2, <4>1
      <4> QED BY <4>2
    <3> QED BY <1>3, <2>1, <3>1, <3>2
  <2> QED BY <1>2, <2>1 DEF Held
<1>8. Marked(t, new, sv)
  <2>1. ASSUME NEW l \in t.marks PROVE l \in 0 .. MaxTokens /\ Divides(l, sv[l], new)
    <3>1. l \in s.marks /\ l <= x.at /\ l \in Nat
      BY <1>3, <2>1
    <3>2. l \in 0 .. MaxTokens /\ sv[l] <= n /\ \A j \in 1 .. n : j <= sv[l] <=> st[j] < l
      BY <3>1 DEF Holds, Marked, Divides
    <3>3. PICK k \in Nat : k = sv[l]
      BY <3>2
    <3>4. k <= n + 1
      BY <1>1, <3>2, <3>3
    <3>5. ASSUME NEW j \in 1 .. n + 1 PROVE j <= k <=> new[j] < l
      <4>1. CASE j \in 1 .. n
        BY <1>2, <3>2, <3>3, <4>1
      <4>2. CASE j = n + 1
        BY <1>1, <1>2, <3>1, <3>2, <3>3, <4>2
      <4> QED BY <1>1, <4>1, <4>2
    <3> QED BY <1>2, <3>2, <3>3, <3>4, <3>5 DEF Divides
  <2> QED BY <2>1 DEF Marked
<1> QED BY <1>5, <1>6, <1>7, <1>8 DEF Holds, new

LEMMA SaveHolds ==
  ASSUME NEW w, NEW A, NEW s \in Shape, NEW t \in Shape, NEW x \in Instruction, x.op = "save",
         Fits(w, x, s, t, A), NEW st, Rising(st), NEW sv \in [0 .. MaxTokens -> Nat],
         Holds(s, st, sv)
  PROVE  /\ [sv EXCEPT ![x.at] = Len(st)] \in [0 .. MaxTokens -> Nat]
         /\ Holds(t, st, [sv EXCEPT ![x.at] = Len(st)])
<1> DEFINE new == [sv EXCEPT ![x.at] = Len(st)]
           n == Len(st)
<1>1. st \in Seq(Nat) /\ n \in Nat
  BY DEF Rising
<1>2. /\ x.at \in 0 .. MaxTokens /\ s.bound <= x.at /\ s.bound <= t.bound
      /\ t.holds \subseteq s.holds /\ t.marks \subseteq s.marks \cup {x.at}
      /\ s.bound \in Nat /\ t.bound \in Nat /\ x.at \in Nat
  BY DEF Fits, Shape, Instruction
<1>3. /\ new \in [0 .. MaxTokens -> Nat] /\ new[x.at] = n
      /\ \A l \in 0 .. MaxTokens : l # x.at => new[l] = sv[l]
  BY <1>1, <1>2
<1> HIDE DEF new
<1>4. \A j \in 1 .. n : st[j] \in Nat /\ st[j] < s.bound
  BY <1>1 DEF Holds, Bounded
<1>5. Bounded(t, st)
  BY <1>2, <1>4 DEF Bounded
<1>6. Held(t, st)
  BY <1>2 DEF Holds, Held
<1>7. Divides(x.at, n, st)
  BY <1>1, <1>2, <1>4 DEF Divides
<1>8. Marked(t, st, new)
  <2>1. ASSUME NEW l \in t.marks PROVE l \in 0 .. MaxTokens /\ Divides(l, new[l], st)
    <3>1. CASE l = x.at
      BY <1>2, <1>3, <1>7, <3>1
    <3>2. CASE l # x.at
      <4>1. l \in s.marks
        BY <1>2, <2>1, <3>2
      <4>2. l \in 0 .. MaxTokens /\ Divides(l, sv[l], st)
        BY <4>1 DEF Holds, Marked
      <4> QED BY <1>3, <3>2, <4>2
    <3> QED BY <3>1, <3>2
  <2> QED BY <2>1 DEF Marked
<1> QED BY <1>3, <1>5, <1>6, <1>8 DEF Holds, new

LEMMA RestoreHolds ==
  ASSUME NEW w, NEW A, NEW s \in Shape, NEW t \in Shape, NEW x \in Instruction, x.op = "restore",
         Fits(w, x, s, t, A), NEW st, Rising(st), NEW sv \in [0 .. MaxTokens -> Nat],
         Holds(s, st, sv)
  PROVE  Rising(SubSeq(st, 1, sv[x.at])) /\ Holds(t, SubSeq(st, 1, sv[x.at]), sv)
<1> DEFINE new == SubSeq(st, 1, sv[x.at])
<1>1. st \in Seq(Nat) /\ Len(st) \in Nat /\ x.at \in Nat
  BY DEF Rising, Instruction
<1>2. /\ x.at \in s.marks /\ x.at <= t.bound
      /\ t.holds \subseteq {d \in s.holds : d < x.at}
      /\ t.marks \subseteq {l \in s.marks : l <= x.at}
      /\ s.marks \subseteq Nat /\ t.bound \in Nat
  BY DEF Fits, Shape
<1>3. x.at \in 0 .. MaxTokens /\ Divides(x.at, sv[x.at], st)
  BY <1>2 DEF Holds, Marked
<1>4. PICK n \in Nat : n = sv[x.at]
  BY <1>3
<1>5. n <= Len(st) /\ \A j \in 1 .. Len(st) : j <= n <=> st[j] < x.at
  BY <1>3, <1>4 DEF Divides
<1>6. new \in Seq(Nat) /\ Len(new) = n /\ \A j \in 1 .. n : new[j] = st[j]
  <2>1. n \in 0 .. Len(st)
    BY <1>1, <1>5
  <2> QED BY <1>1, <1>4, <2>1, UpTo
<1> HIDE DEF new
<1>7. \A j \in 1 .. n : j \in 1 .. Len(st) /\ st[j] \in Nat /\ st[j] < x.at
  <2>1. \A j \in 1 .. n : j \in 1 .. Len(st) /\ j <= n
    BY <1>1, <1>5
  <2> QED BY <1>1, <1>5, <2>1
<1>8. Rising(new)
  BY <1>6, <1>7 DEF Rising
<1>9. Bounded(t, new)
  <2>1. ASSUME NEW j \in 1 .. n PROVE new[j] < t.bound
    <3>1. new[j] \in Nat /\ new[j] < x.at
      BY <1>6, <1>7
    <3> QED BY <1>1, <1>2, <3>1
  <2> QED BY <1>6, <2>1 DEF Bounded
<1>10. Held(t, new)
  <2>1. ASSUME NEW d \in t.holds PROVE \E j \in 1 .. n : new[j] = d
    <3>1. d \in s.holds /\ d < x.at
      BY <1>2, <2>1
    <3>2. PICK j \in 1 .. Len(st) : st[j] = d
      BY <3>1 DEF Holds, Held
    <3>3. j <= n
      BY <1>5, <3>1, <3>2
    <3>4. j \in 1 .. n
      BY <1>1, <3>3
    <3> QED BY <1>6, <3>2, <3>4
  <2> QED BY <1>6, <2>1 DEF Held
<1>11. Marked(t, new, sv)
  <2>1. ASSUME NEW l \in t.marks PROVE l \in 0 .. MaxTokens /\ Divides(l, sv[l], new)
    <3>1. l \in s.marks /\ l <= x.at /\ l \in Nat
      BY <1>2, <2>1
    <3>2. l \in 0 .. MaxTokens /\ sv[l] <= Len(st) /\ \A j \in 1 .. Len(st) : j <= sv[l] <=> st[j] < l
      BY <3>1 DEF Holds, Marked, Divides
    <3>3. PICK k \in Nat : k = sv[l]
      BY <3>2
    <3>4. k <= n
      <4>1. SUFFICES ASSUME ~(k <= n) PROVE FALSE
        OBVIOUS
      <4>2. n + 1 \in 1 .. Len(st) /\ n + 1 <= k /\ ~(n + 1 <= n)
        BY <1>1, <3>2, <3>3, <4>1
      <4>3. st[n + 1] < l /\ st[n + 1] \in Nat
        BY <1>1, <3>2, <3>3, <4>2
      <4>4. st[n + 1] < x.at
        BY <1>1, <3>1, <4>3
      <4> QED BY <1>5, <4>2, <4>4
    <3>5. \A j \in 1 .. n : j <= k <=> new[j] < l
      BY <1>6, <1>7, <3>2, <3>3
    <3> QED BY <1>6, <3>2, <3>3, <3>4, <3>5 DEF Divides
  <2> QED BY <2>1 DEF Marked
<1> QED BY <1>8, <1>9, <1>10, <1>11 DEF Holds, new

-----------------------------------------------------------------------------
(* A call is where the shapes say it is. *)

StackInv(A) ==
  /\ Rising(stack)
  /\ saved \in [0 .. MaxTokens -> Nat]
  /\ phase = "run" => Holds(A[pc.block][pc.index], stack, saved)

LEMMA InitStack ==
  ASSUME Init, NEW A
  PROVE  StackInv(A)
BY MaxTokensAssumption DEF Init, StackInv, Rising

LEMMA BuildingStack ==
  ASSUME NEW A, NEW B, StackInv(A), Build
  PROVE  StackInv(B)'
<1>1. phase = "build" /\ phase' \in {"build", "built", "crashed"} /\ UNCHANGED <<stack, saved>>
  <2>1. CASE FinishFunction \/ BuildBareReturn
    BY <2>1 DEF FinishFunction, BuildBareReturn, called, InBlock
  <2>2. CASE BuildSimple \/ BuildDeclaration \/ BuildReturn \/ OpenBlock \/ CloseBlock
    BY <2>2 DEF BuildSimple, BuildDeclaration, BuildReturn, OpenBlock, CloseBlock,
                InBlock, InBlockOf, called
  <2>3. CASE OpenConditional \/ CloseConditional \/ OpenLoop \/ CloseLoop
    BY <2>3 DEF OpenConditional, CloseConditional, OpenLoop, CloseLoop, InBlock, InBlockOf, called
  <2>4. CASE \/ OpenBranch \/ OpenTwig \/ CloseTwig
             \/ OpenOtherwise \/ CloseOtherwise \/ CloseBranch
    BY <2>4 DEF OpenBranch, OpenTwig, CloseTwig, OpenOtherwise, CloseOtherwise, CloseBranch,
                InBlock, InBlockOf, Between, called
  <2> QED BY <2>1, <2>2, <2>3, <2>4, Zenon DEF Build
<1> QED BY <1>1 DEF StackInv

LEMMA CallStack ==
  ASSUME BuildInv, RunInv, NEW A, ShapeInv(A), StackInv(A), CallFunction
  PROVE  StackInv(A)'
<1>1. /\ phase = "built" /\ phase' = "run" /\ UNCHANGED <<pc, stack, saved>>
  BY DEF CallFunction
<1>2. pc.block = 1 /\ pc.index = 1 /\ stack = <<>>
  BY <1>1 DEF RunInv
<1>3. A[1][1] = Nothing
  BY DEF ShapeInv
<1>4. Holds(Nothing, stack, saved)
  <2>1. \A j \in 1 .. Len(stack) : FALSE
    BY <1>2
  <2> QED BY <2>1 DEF Holds, Bounded, Held, Marked, Nothing
<1> QED BY <1>1, <1>2, <1>3, <1>4 DEF StackInv

(* The shape where a call is, and those behind its instruction. *)
LEMMA AtShape ==
  ASSUME BuildInv, RunInv, NEW A, ShapeInv(A), StackInv(A), phase = "run",
         NEW b, b = pc.block, NEW i, i = pc.index
  PROVE  /\ A[b][i] \in Shape /\ A[b][i + 1] \in Shape
         /\ Instr \in Instruction /\ Fits(body, Instr, A[b][i], A[b][i + 1], A)
         /\ Holds(A[b][i], stack, saved) /\ Rising(stack) /\ saved \in [0 .. MaxTokens -> Nat]
         /\ Instr.op \in {"br", "condbr"} =>
              Instr.yes \in 2 .. Len(blocks) /\ A[Instr.yes][1] \in Shape
         /\ Instr.op = "condbr" =>
              Instr.no \in 2 .. Len(blocks) /\ A[Instr.no][1] \in Shape
<1>1. PICK x : x = blocks[b][i]
  OBVIOUS
<1>2. /\ b \in 1 .. Len(blocks) /\ i \in 1 .. Len(blocks[b]) /\ Len(blocks) \in Nat
      /\ blocks[b] \in Seq(Instruction) /\ x \in Instruction /\ Instr = x
      /\ x.op \in {"br", "condbr"} => x.yes \in 2 .. Len(blocks)
      /\ x.op = "condbr" => x.no \in 2 .. Len(blocks)
  BY <1>1, AtInstruction
<1>3. A \in [Nat -> [Nat -> Shape]] /\ CodeFits(body, blocks[b], A[b], A)
  BY <1>2 DEF ShapeInv, Fitting, Shapes
<1>4. b \in Nat /\ i \in Nat /\ i + 1 \in Nat /\ 1 \in Nat
  BY <1>2
<1>5. A[b][i] \in Shape /\ A[b][i + 1] \in Shape
  BY <1>3, <1>4
<1>6. Fits(body, x, A[b][i], A[b][i + 1], A)
  BY <1>1, <1>2, <1>3, Zenon DEF CodeFits
<1>7. \A c \in 2 .. Len(blocks) : A[c][1] \in Shape
  BY <1>3, <1>2
<1>8. Holds(A[b][i], stack, saved) /\ Rising(stack) /\ saved \in [0 .. MaxTokens -> Nat]
  BY DEF StackInv
<1> QED BY <1>2, <1>5, <1>6, <1>7, <1>8

LEMMA RunStack ==
  ASSUME BuildInv, RunInv, NEW A, ShapeInv(A), StackInv(A), Run
  PROVE  StackInv(A)'
<1>1. phase = "run"
  BY DEF Run, Evaluate, Allocate, SaveStack, RestoreStack, Branch, BranchIf, Return, Running
<1>2. PICK b, i, x : b = pc.block /\ i = pc.index /\ x = Instr
  OBVIOUS
<1> DEFINE s == A[b][i]
           t == A[b][i + 1]
<1>3. /\ s \in Shape /\ t \in Shape /\ x \in Instruction /\ Fits(body, x, s, t, A)
      /\ Holds(s, stack, saved) /\ Rising(stack) /\ saved \in [0 .. MaxTokens -> Nat]
      /\ x.op \in {"br", "condbr"} => x.yes \in 2 .. Len(blocks) /\ A[x.yes][1] \in Shape
      /\ x.op = "condbr" => x.no \in 2 .. Len(blocks) /\ A[x.no][1] \in Shape
  BY <1>1, <1>2, AtShape
<1>4. stack \in Seq(Nat)
  BY <1>3 DEF Rising
<1>5. Step => pc'.block = b /\ pc'.index = i + 1
  BY <1>2 DEF Step, RunInv
<1>6. \A c : Jump(c) => pc'.block = c /\ pc'.index = 1
  BY DEF Jump
<1> HIDE DEF s, t
<1>7. ASSUME Step, phase' = "run", Rising(stack'), saved' \in [0 .. MaxTokens -> Nat],
             Holds(t, stack', saved')
      PROVE  StackInv(A)'
  BY <1>5, <1>7 DEF StackInv, t
<1>8. ASSUME NEW c, Jump(c), phase' = "run", UNCHANGED <<stack, saved>>,
             Holds(A[c][1], stack, saved)
      PROVE  StackInv(A)'
  BY <1>3, <1>6, <1>8 DEF StackInv
<1>9. CASE Evaluate
  <2>1. x.op = "eval" /\ phase' = "run" /\ Step /\ UNCHANGED <<stack, saved>>
    BY <1>1, <1>2, <1>9 DEF Evaluate, Running
  <2>2. Implies(s, t)
    BY <1>3, <2>1 DEF Fits
  <2>3. Holds(t, stack, saved)
    BY <1>3, <1>4, <2>2, HoldsImplied
  <2> QED BY <1>3, <1>7, <2>1, <2>3
<1>10. CASE Allocate
  <2>1. x.op = "alloca" /\ phase' = "run" /\ Step /\ saved' = saved /\ stack' = Append(stack, x.at)
    BY <1>1, <1>2, <1>10 DEF Allocate, Running
  <2>2. Rising(stack') /\ Holds(t, stack', saved)
    BY <1>3, <2>1, AllocaHolds
  <2> QED BY <1>3, <1>7, <2>1, <2>2
<1>11. CASE SaveStack
  <2>1. /\ x.op = "save" /\ phase' = "run" /\ Step /\ stack' = stack
        /\ saved' = [saved EXCEPT ![x.at] = Len(stack)]
    BY <1>1, <1>2, <1>11 DEF SaveStack, Running
  <2>2. saved' \in [0 .. MaxTokens -> Nat] /\ Holds(t, stack, saved')
    BY <1>3, <2>1, SaveHolds
  <2> QED BY <1>3, <1>7, <2>1, <2>2
<1>12. CASE RestoreStack
  <2>1. /\ x.op = "restore" /\ phase' = "run" /\ Step /\ saved' = saved
        /\ stack' = SubSeq(stack, 1, saved[x.at])
    BY <1>1, <1>2, <1>12 DEF RestoreStack, Running
  <2>2. Rising(stack') /\ Holds(t, stack', saved)
    BY <1>3, <2>1, RestoreHolds
  <2> QED BY <1>3, <1>7, <2>1, <2>2
<1>13. CASE Branch
  <2>1. x.op = "br" /\ phase' = "run" /\ Jump(x.yes) /\ UNCHANGED <<stack, saved>>
    BY <1>1, <1>2, <1>13 DEF Branch, Running
  <2>2. Implies(s, A[x.yes][1])
    BY <1>3, <2>1 DEF Fits
  <2>3. Holds(A[x.yes][1], stack, saved)
    BY <1>3, <1>4, <2>1, <2>2, HoldsImplied
  <2> QED BY <1>8, <2>1, <2>3
<1>14. CASE BranchIf
  <2>1. /\ x.op = "condbr" /\ phase' = "run" /\ UNCHANGED <<stack, saved>>
        /\ Jump(IF last.yes THEN x.yes ELSE x.no)
    BY <1>1, <1>2, <1>14 DEF BranchIf, Running
  <2>2. Implies(s, A[x.yes][1]) /\ Implies(s, A[x.no][1])
    BY <1>3, <2>1 DEF Fits
  <2>3. Holds(A[x.yes][1], stack, saved) /\ Holds(A[x.no][1], stack, saved)
    BY <1>3, <1>4, <2>1, <2>2, HoldsImplied
  <2>4. PICK c : c = IF last.yes THEN x.yes ELSE x.no
    OBVIOUS
  <2>5. Holds(A[c][1], stack, saved) /\ Jump(c)
    BY <2>1, <2>3, <2>4
  <2> QED BY <1>8, <2>1, <2>5
<1>15. CASE Return
  BY <1>15 DEF Return, StackInv
<1> QED BY <1>9, <1>10, <1>11, <1>12, <1>13, <1>14, <1>15, Zenon DEF Run

LEMMA CallingFits ==
  ASSUME NEW A, ShapeInv(A), CallFunction \/ Run
  PROVE  ShapeInv(A)'
<1>1. UNCHANGED <<body, blocks>>
  BY DEF CallFunction, Run, Evaluate, Allocate, SaveStack, RestoreStack, Branch, BranchIf, Return,
         built
<1>2. phase' # "build"
  BY DEF CallFunction, Run, Evaluate, Allocate, SaveStack, RestoreStack, Branch, BranchIf, Return,
         Running
<1> QED BY <1>1, <1>2, NotBuildingFits

LEMMA StutterFits ==
  ASSUME NEW A, ShapeInv(A), StackInv(A), UNCHANGED vars
  PROVE  ShapeInv(A)' /\ StackInv(A)'
<1>1. UNCHANGED <<body, open, blocks, insert, phase, running, last, pc, stack, saved>>
  BY DEF vars, built, called
<1>2. ShapeInv(A)'
  <2>1. Visible' = Visible /\ Here' = Here /\ LoopsOf(open)' = LoopsOf(open) /\ Position' = Position
    BY <1>1 DEF Visible, Here, Position, Top
  <2>2. /\ \A b : End(A, blocks, b)' = End(A, blocks, b)
        /\ \A q : VisibleTo(q)' = VisibleTo(q) /\ LoopsTo(q)' = LoopsTo(q)
    BY <1>1, <2>1 DEF End, VisibleTo, LoopsTo
  <2>3. \A t, q : Enough(t, q)' <=> Enough(t, q)
    BY <2>1, <2>2 DEF Enough
  <2>4. \A f : FrameFits(A, f)' <=> FrameFits(A, f)
    BY <1>1, <2>1, <2>2, <2>3 DEF FrameFits
  <2> QED BY <1>1, <2>1, <2>2, <2>3, <2>4 DEF ShapeInv
<1>3. StackInv(A)'
  BY <1>1 DEF StackInv
<1> QED BY <1>2, <1>3

(* There are shapes that the blocks fit, and a call's stack is as they say. *)
Shaped == \E A : ShapeInv(A) /\ StackInv(A)

LEMMA InitShaped ==
  ASSUME Init
  PROVE  Shaped
BY InitFits, InitStack DEF Shaped

LEMMA ShapedKeeps ==
  ASSUME BuildInv, RunInv, Shaped, [Next]_vars
  PROVE  Shaped'
<1>1. PICK A : ShapeInv(A) /\ StackInv(A)
  BY DEF Shaped
<1>2. BuildInv'
  BY BuildKeeps
<1>3. CASE Build
  <2>1. PICK B : ShapeInv(B)'
    BY <1>1, <1>2, <1>3, BuildFits
  <2>2. StackInv(B)'
    BY <1>1, <1>3, BuildingStack
  <2> QED BY <2>1, <2>2 DEF Shaped
<1>4. CASE CallFunction
  <2>1. ShapeInv(A)' /\ StackInv(A)'
    BY <1>1, <1>4, CallingFits, CallStack
  <2> QED BY <2>1 DEF Shaped
<1>5. CASE Run
  <2>1. ShapeInv(A)' /\ StackInv(A)'
    BY <1>1, <1>5, CallingFits, RunStack
  <2> QED BY <2>1 DEF Shaped
<1>6. CASE UNCHANGED vars
  <2>1. ShapeInv(A)' /\ StackInv(A)'
    BY <1>1, <1>6, StutterFits
  <2> QED BY <2>1 DEF Shaped
<1> QED BY <1>3, <1>4, <1>5, <1>6 DEF Next

LEMMA SpecShaped == Spec => [](BuildInv /\ RunInv /\ Shaped)
<1>1. Init => BuildInv /\ RunInv /\ Shaped
  BY InitBuilds, InitRuns, InitShaped
<1>2. BuildInv /\ RunInv /\ Shaped /\ [Next]_vars => BuildInv' /\ RunInv' /\ Shaped'
  BY BuildKeeps, RunInvKeeps, ShapedKeeps
<1> QED BY <1>1, <1>2, PTL DEF Spec

(* Whatever is nested in what, and however often the loops run: what a statement or a        *)
(* condition reads is on the stack when the call comes to it.                                *)
THEOREM StorageIsLive == Spec => []ReadsLiveStorage
<1>1. BuildInv /\ RunInv /\ Shaped => ReadsLiveStorage
  <2>1. SUFFICES ASSUME BuildInv, RunInv, Shaped, phase = "run", Instr.op = "eval",
                        body[Instr.at].kind # "ret"
                 PROVE  {0, body[Instr.at].reads} \subseteq {stack[i] : i \in DOMAIN stack}
    BY DEF ReadsLiveStorage
  <2>2. PICK A : ShapeInv(A) /\ StackInv(A)
    BY <2>1 DEF Shaped
  <2>3. PICK b, i : b = pc.block /\ i = pc.index
    OBVIOUS
  <2>4. /\ Fits(body, Instr, A[b][i], A[b][i + 1], A) /\ Holds(A[b][i], stack, saved)
        /\ Rising(stack)
    BY <2>1, <2>2, <2>3, AtShape
  <2>5. {0, body[Instr.at].reads} \subseteq A[b][i].holds
    BY <2>1, <2>4 DEF Fits
  <2>6. \A d \in A[b][i].holds : \E j \in 1 .. Len(stack) : stack[j] = d
    BY <2>4 DEF Holds, Held
  <2>7. DOMAIN stack = 1 .. Len(stack)
    BY <2>4 DEF Rising
  <2> QED BY <2>5, <2>6, <2>7
<1> QED BY <1>1, SpecShaped, PTL

(* However often a loop runs, no declaration has its storage on the stack twice. *)
THEOREM OneStoreEach == Spec => []OneStorePerDeclaration
<1>1. Shaped => OneStorePerDeclaration
  <2>1. SUFFICES ASSUME Shaped, NEW i \in DOMAIN stack, NEW j \in DOMAIN stack,
                        stack[i] = stack[j]
                 PROVE  i = j
    BY DEF OneStorePerDeclaration
  <2>2. Rising(stack)
    BY <2>1 DEF Shaped, StackInv
  <2>3. i \in 1 .. Len(stack) /\ j \in 1 .. Len(stack) /\ stack[i] \in Nat
    BY <2>1, <2>2 DEF Rising
  <2>4. ~(i < j) /\ ~(j < i)
    BY <2>1, <2>2, <2>3 DEF Rising
  <2> QED BY <2>3, <2>4
<1> QED BY <1>1, SpecShaped, PTL
-----------------------------------------------------------------------------
(* Types. *)

Typed ==
  /\ phase \in {"build", "built", "crashed", "run", "returned"}
  /\ running \in BOOLEAN
  /\ last \in Event

LEMMA PerformedTyped ==
  ASSUME NEW e \in Event, NEW at \in Nat, NEW yes \in BOOLEAN
  PROVE  Performed(e, at, yes) \in Event
<1>1. 1 - e.turn \in 0 .. 1
  BY DEF Event
<1> QED BY <1>1 DEF Performed, Event

LEMMA TypedKeeps ==
  ASSUME BuildInv, RunInv, Typed, [Next]_vars
  PROVE  Typed'
<1>1. CASE Build
  <2>1. phase' \in {"build", "built", "crashed"} /\ UNCHANGED <<running, last>>
    <3>1. CASE FinishFunction \/ BuildBareReturn
      BY <3>1 DEF FinishFunction, BuildBareReturn, called, InBlock
    <3>2. CASE BuildSimple \/ BuildDeclaration \/ BuildReturn \/ OpenBlock \/ CloseBlock
      BY <3>2 DEF BuildSimple, BuildDeclaration, BuildReturn, OpenBlock, CloseBlock,
                  InBlock, InBlockOf, called
    <3>3. CASE OpenConditional \/ CloseConditional \/ OpenLoop \/ CloseLoop
      BY <3>3 DEF OpenConditional, CloseConditional, OpenLoop, CloseLoop, InBlock, InBlockOf, called
    <3>4. CASE \/ OpenBranch \/ OpenTwig \/ CloseTwig
               \/ OpenOtherwise \/ CloseOtherwise \/ CloseBranch
      BY <3>4 DEF OpenBranch, OpenTwig, CloseTwig, OpenOtherwise, CloseOtherwise, CloseBranch,
                  InBlock, InBlockOf, Between, called
    <3> QED BY <1>1, <3>1, <3>2, <3>3, <3>4, Zenon DEF Build
  <2> QED BY <2>1 DEF Typed
<1>2. CASE CallFunction
  BY <1>2 DEF CallFunction, Typed
<1>3. CASE Run
  <2>1. phase = "run"
    BY <1>3 DEF Run, Evaluate, Allocate, SaveStack, RestoreStack, Branch, BranchIf, Return, Running
  <2>2. Instr.at \in Nat
    <3>1. PICK b, i, x : b = pc.block /\ i = pc.index /\ x = blocks[b][i]
      OBVIOUS
    <3>2. Instr \in Instruction
      BY <2>1, <3>1, AtInstruction
    <3> QED BY <3>2 DEF Instruction
  <2>3. CASE Evaluate
    <3>1. PICK yes \in BOOLEAN : last' = last \/ last' = Performed(last, Instr.at, yes)
      BY <2>3 DEF Evaluate, Outcomes
    <3>2. last' \in Event
      BY <2>2, <3>1, PerformedTyped DEF Typed
    <3> QED BY <2>3, <3>2 DEF Evaluate, Typed
  <2>4. CASE Return
    <3>1. last' \in Event
      BY <2>2, <2>4, PerformedTyped DEF Return, Typed
    <3> QED BY <2>4, <3>1 DEF Return, Typed
  <2>5. CASE Allocate \/ SaveStack \/ RestoreStack \/ Branch \/ BranchIf
    BY <2>5 DEF Allocate, SaveStack, RestoreStack, Branch, BranchIf, Typed
  <2> QED BY <1>3, <2>3, <2>4, <2>5 DEF Run
<1>4. CASE UNCHANGED vars
  BY <1>4 DEF vars, called, Typed
<1> QED BY <1>1, <1>2, <1>3, <1>4 DEF Next

(* Every reference from one block to another is to a block of the function. *)
LEMMA JumpsTyped ==
  ASSUME BuildInv
  PROVE  \A b \in DOMAIN blocks : \A i \in DOMAIN blocks[b] :
           {blocks[b][i].yes, blocks[b][i].no} \subseteq 0 .. Len(blocks)
<1>1. /\ blocks \in Seq(Seq(Instruction)) /\ Len(blocks) \in Nat /\ Len(blocks) >= 2
      /\ blocks[1] = Entry /\ \A b \in 2 .. Len(blocks) : CodeOK(blocks[b], Len(blocks))
  BY Sizes DEF BuildInv, BlocksOK
<1>2. DOMAIN blocks = 1 .. Len(blocks)
  BY <1>1
<1>3. TAKE b \in DOMAIN blocks
<1>4. CASE b = 1
  <2>1. blocks[b] = Entry /\ DOMAIN Entry = 1 .. 3
    BY <1>1, <1>4 DEF Entry
  <2>2. \A i \in 1 .. 3 : Entry[i] \in {Plain("save", 0), Plain("alloca", 0), Br(2)}
    BY DEF Entry
  <2>3. \A x \in {Plain("save", 0), Plain("alloca", 0), Br(2)} : {x.yes, x.no} \subseteq 0 .. Len(blocks)
    BY <1>1 DEF Plain, Br
  <2> QED BY <2>1, <2>2, <2>3
<1>5. CASE b # 1
  <2>1. b \in 2 .. Len(blocks)
    BY <1>1, <1>2, <1>5
  <2>2. CodeOK(blocks[b], Len(blocks))
    BY <1>1, <2>1
  <2>3. DOMAIN blocks[b] = 1 .. Len(blocks[b])
    BY <2>2 DEF CodeOK
  <2> QED BY <2>2, <2>3 DEF CodeOK, InstrOK
<1> QED BY <1>4, <1>5

(* The builder and the call keep their state within its types. *)
THEOREM ControlFlowTyped == Spec => []TypeOK
<1>1. Init => Typed
  <2>1. Start \in Event
    BY DEF Start, Event
  <2> QED BY <2>1 DEF Init, Typed
<1>2. BuildInv /\ RunInv /\ Typed /\ [Next]_vars => Typed'
  BY TypedKeeps
<1>3. BuildInv /\ RunInv /\ Shaped /\ Typed => TypeOK
  <2>1. SUFFICES ASSUME BuildInv, RunInv, Shaped, Typed PROVE TypeOK
    OBVIOUS
  <2>2. /\ body \in Seq(Token) /\ open \in Seq(Frame) /\ blocks \in Seq(Seq(Instruction))
        /\ insert \in 2 .. Len(blocks) /\ Len(blocks) \in Nat
    BY <2>1 DEF BuildInv, OpenOK, BlocksOK
  <2>3. insert \in DOMAIN blocks /\ pc \in [block : DOMAIN blocks, index : Nat]
    BY <2>1, <2>2 DEF RunInv
  <2>4. stack \in Seq(Nat) /\ saved \in [0 .. MaxTokens -> Nat]
    BY <2>1 DEF Shaped, StackInv, Rising
  <2>5. \A b \in DOMAIN blocks : \A i \in DOMAIN blocks[b] :
          {blocks[b][i].yes, blocks[b][i].no} \subseteq 0 .. Len(blocks)
    BY <2>1, JumpsTyped
  <2> QED BY <2>1, <2>2, <2>3, <2>4, <2>5, Zenon DEF TypeOK, Typed
<1> QED BY <1>1, <1>2, <1>3, SpecShaped, PTL DEF Spec
-----------------------------------------------------------------------------
(* Terminators that are not the last instruction of their block. *)

Inner(c) == \E i \in 1 .. Len(c) - 1 : c[i].op \in Terminators

NoInner(bs) == \A b \in 1 .. Len(bs) : ~Inner(bs[b])

(* Code that is emitted in one piece. *)
Piece(c) == c \in Seq(Instruction) /\ Len(c) >= 1 /\ ~Inner(c)

LEMMA PieceJoined ==
  ASSUME NEW c \in Seq(Instruction), NEW d, Piece(d)
  PROVE  /\ Inner(c \o d) <=> Inner(c) \/ Terminated(c)
         /\ Terminated(c \o d) <=> Terminated(d)
<1> DEFINE e == c \o d
<1>1. d \in Seq(Instruction) /\ Len(d) >= 1 /\ ~Inner(d)
  BY DEF Piece
<1>2. Len(c) \in Nat /\ Len(d) \in Nat
  BY <1>1
<1>3. /\ Len(e) = Len(c) + Len(d)
      /\ \A i \in 1 .. Len(c) : e[i] = c[i]
      /\ \A i \in 1 .. Len(d) : e[Len(c) + i] = d[i]
      /\ e \in Seq(Instruction)
  BY <1>1, Joining
<1> HIDE DEF e
<1>4. ASSUME Inner(c) PROVE Inner(e)
  <2>1. PICK i \in 1 .. Len(c) - 1 : c[i].op \in Terminators
    BY <1>4 DEF Inner
  <2>2. i \in 1 .. Len(c) /\ i \in 1 .. Len(e) - 1
    BY <1>1, <1>2, <1>3
  <2>3. e[i] = c[i]
    BY <1>3, <2>2
  <2> QED BY <2>1, <2>2, <2>3 DEF Inner
<1>5. ASSUME Terminated(c) PROVE Inner(e)
  <2>1. Len(c) >= 1 /\ c[Len(c)].op \in Terminators
    BY <1>2, <1>5 DEF Terminated
  <2>2. Len(c) \in 1 .. Len(c) /\ Len(c) \in 1 .. Len(e) - 1
    BY <1>1, <1>2, <1>3, <2>1
  <2>3. e[Len(c)] = c[Len(c)]
    BY <1>3, <2>2
  <2> QED BY <2>1, <2>2, <2>3 DEF Inner
<1>6. ASSUME Inner(e) PROVE Inner(c) \/ Terminated(c)
  <2>1. PICK i \in 1 .. Len(e) - 1 : e[i].op \in Terminators
    BY <1>6 DEF Inner
  <2>2. CASE i <= Len(c) - 1
    <3>1. i \in 1 .. Len(c) /\ i \in 1 .. Len(c) - 1
      BY <1>2, <2>2
    <3>2. e[i] = c[i]
      BY <1>3, <3>1
    <3> QED BY <2>1, <3>1, <3>2 DEF Inner
  <2>3. CASE i = Len(c)
    <3>1. i \in 1 .. Len(c) /\ c # <<>>
      BY <1>2, <2>3
    <3>2. e[i] = c[i]
      BY <1>3, <3>1
    <3> QED BY <2>1, <2>3, <3>1, <3>2 DEF Terminated
  <2>4. CASE i > Len(c)
    <3>1. i - Len(c) \in 1 .. Len(d) - 1 /\ i - Len(c) \in 1 .. Len(d)
          /\ Len(c) + (i - Len(c)) = i
      BY <1>2, <1>3, <2>4
    <3>2. e[i] = d[i - Len(c)]
      BY <1>3, <3>1
    <3> QED BY <1>1, <2>1, <3>1, <3>2 DEF Inner
  <2> QED BY <1>2, <2>2, <2>3, <2>4
<1>7. Terminated(e) <=> Terminated(d)
  <2>1. Len(d) \in 1 .. Len(d) /\ Len(e) = Len(c) + Len(d)
    BY <1>1, <1>2, <1>3
  <2>2. e[Len(e)] = d[Len(d)]
    BY <1>3, <2>1
  <2>3. e # <<>> /\ d # <<>>
    BY <1>1, <1>2, <1>3
  <2> QED BY <2>2, <2>3 DEF Terminated
<1>8. Inner(e) <=> Inner(c) \/ Terminated(c)
  BY <1>4, <1>5, <1>6
<1> QED BY <1>7, <1>8 DEF e

LEMMA EmitClean ==
  ASSUME NEW bs \in Seq(Seq(Instruction)), NEW b \in 1 .. Len(bs), NEW code, Piece(code)
  PROVE  /\ NoInner(Emit(bs, b, code)) <=> NoInner(bs) /\ ~Terminated(bs[b])
         /\ Terminated(Emit(bs, b, code)[b]) <=> Terminated(code)
         /\ \A i \in 1 .. Len(bs) : i # b => Emit(bs, b, code)[i] = bs[i]
         /\ Emit(bs, b, code) \in Seq(Seq(Instruction)) /\ Len(Emit(bs, b, code)) = Len(bs)
<1> DEFINE cs == Emit(bs, b, code)
<1>1. code \in Seq(Instruction) /\ bs[b] \in Seq(Instruction)
  BY DEF Piece
<1>2. /\ cs \in Seq(Seq(Instruction)) /\ Len(cs) = Len(bs)
      /\ \A i \in 1 .. Len(bs) : i # b => cs[i] = bs[i]
      /\ cs[b] = bs[b] \o code
  BY <1>1, EmitFacts
<1> HIDE DEF cs
<1>3. /\ Inner(cs[b]) <=> Inner(bs[b]) \/ Terminated(bs[b])
      /\ Terminated(cs[b]) <=> Terminated(code)
  BY <1>1, <1>2, PieceJoined
<1>4. NoInner(cs) <=> NoInner(bs) /\ ~Terminated(bs[b])
  BY <1>2, <1>3, Zenon DEF NoInner
<1> QED BY <1>2, <1>3, <1>4 DEF cs

LEMMA NewClean ==
  ASSUME NEW bs \in Seq(Seq(Instruction))
  PROVE  /\ NoInner(New(bs)) <=> NoInner(bs)
         /\ ~Terminated(New(bs)[Len(bs) + 1])
         /\ \A b \in 1 .. Len(bs) : New(bs)[b] = bs[b]
         /\ New(bs) \in Seq(Seq(Instruction)) /\ Len(New(bs)) = Len(bs) + 1
<1> DEFINE cs == New(bs)
<1>1. /\ cs \in Seq(Seq(Instruction)) /\ Len(cs) = Len(bs) + 1
      /\ \A b \in 1 .. Len(bs) : cs[b] = bs[b]
      /\ cs[Len(bs) + 1] = <<>>
  BY NewFacts
<1>2. Len(bs) \in Nat
  OBVIOUS
<1> HIDE DEF cs
<1>3. ~Inner(cs[Len(bs) + 1]) /\ ~Terminated(cs[Len(bs) + 1])
  BY <1>1 DEF Inner, Terminated
<1>4. \A b \in 1 .. Len(cs) : b \in 1 .. Len(bs) \/ b = Len(bs) + 1
  BY <1>1, <1>2
<1>5. \A b \in 1 .. Len(bs) : b \in 1 .. Len(cs)
  BY <1>1, <1>2
<1>6. NoInner(cs) <=> NoInner(bs)
  BY <1>1, <1>3, <1>4, <1>5, Zenon DEF NoInner
<1> QED BY <1>1, <1>3, <1>6 DEF cs

LEMMA EmitIfOpenClean ==
  ASSUME NEW bs \in Seq(Seq(Instruction)), NEW b \in 1 .. Len(bs), NEW code, Piece(code)
  PROVE  /\ NoInner(EmitIfOpen(bs, b, code)) <=> NoInner(bs)
         /\ \A i \in 1 .. Len(bs) : i # b => EmitIfOpen(bs, b, code)[i] = bs[i]
         /\ EmitIfOpen(bs, b, code) \in Seq(Seq(Instruction))
         /\ Len(EmitIfOpen(bs, b, code)) = Len(bs)
<1>1. CASE Terminated(bs[b])
  BY <1>1 DEF EmitIfOpen
<1>2. CASE ~Terminated(bs[b])
  <2>1. EmitIfOpen(bs, b, code) = Emit(bs, b, code)
    BY <1>2 DEF EmitIfOpen
  <2> QED BY <1>2, <2>1, EmitClean
<1> QED BY <1>1, <1>2

LEMMA JoinedClean ==
  ASSUME NEW bs \in Seq(Seq(Instruction)), NEW dones, NEW from \in 1 .. Len(bs)
  PROVE  /\ NoInner(Joined(bs, dones, from)) <=> NoInner(bs) /\ ~Terminated(bs[from])
         /\ ~Terminated(Joined(bs, dones, from)[Len(bs) + 1])
         /\ \A i \in 1 .. Len(bs) : i # from /\ i \notin dones => Joined(bs, dones, from)[i] = bs[i]
         /\ Len(Joined(bs, dones, from)) = Len(bs) + 1
<1> DEFINE end == Len(bs) + 1
           br == <<Br(end)>>
           joins(b) == b = from \/ (b \in dones /\ ~Terminated(bs[b]))
           cs == [b \in DOMAIN bs |-> IF joins(b) THEN bs[b] \o br ELSE bs[b]]
<1>1. /\ Len(bs) \in Nat /\ DOMAIN bs = 1 .. Len(bs)
      /\ \A b \in 1 .. Len(bs) : bs[b] \in Seq(Instruction)
  OBVIOUS
<1>2. Piece(br)
  <2>1. Br(end) \in Instruction
    BY <1>1 DEF Br, Instruction, Terminators
  <2> QED BY <2>1 DEF Piece, Inner
<1>3. Joined(bs, dones, from) = New(cs)
  BY Zenon DEF Joined
<1> HIDE DEF br, end
<1>4. \A b \in 1 .. Len(bs) :
        /\ bs[b] \o br \in Seq(Instruction)
        /\ Inner(bs[b] \o br) <=> Inner(bs[b]) \/ Terminated(bs[b])
  <2>1. br \in Seq(Instruction)
    BY <1>2 DEF Piece
  <2> QED BY <1>1, <1>2, <2>1, Joining, PieceJoined
<1>5. /\ DOMAIN cs = 1 .. Len(bs)
      /\ \A b \in 1 .. Len(bs) : cs[b] = IF joins(b) THEN bs[b] \o br ELSE bs[b]
  BY <1>1, Zenon
<1> HIDE DEF cs
<1>6. \A b \in 1 .. Len(bs) : cs[b] \in Seq(Instruction)
  BY <1>1, <1>4, <1>5, Zenon
<1>7. cs \in Seq(Seq(Instruction)) /\ Len(cs) = Len(bs)
  <2> DEFINE T == Seq(Instruction)
  <2>1. cs = [b \in 1 .. Len(bs) |-> cs[b]]
    BY <1>1, <1>5, Zenon DEF cs
  <2>2. \A b \in 1 .. Len(bs) : cs[b] \in T
    BY <1>6
  <2> HIDE DEF T
  <2>3. cs \in Seq(T) /\ Len(cs) = Len(bs)
    BY <1>1, <2>1, <2>2
  <2> QED BY <2>3 DEF T
<1>8. /\ NoInner(New(cs)) <=> NoInner(cs)
      /\ ~Terminated(New(cs)[Len(cs) + 1])
      /\ \A b \in 1 .. Len(cs) : New(cs)[b] = cs[b]
      /\ Len(New(cs)) = Len(cs) + 1
  BY <1>7, NewClean
<1>9. \A b \in 1 .. Len(bs) : Inner(cs[b]) <=> Inner(bs[b]) \/ (b = from /\ Terminated(bs[b]))
  <2> SUFFICES ASSUME NEW b \in 1 .. Len(bs)
               PROVE  Inner(cs[b]) <=> Inner(bs[b]) \/ (b = from /\ Terminated(bs[b]))
    OBVIOUS
  <2>1. CASE joins(b)
    <3>1. Inner(cs[b]) <=> Inner(bs[b]) \/ Terminated(bs[b])
      BY <1>4, <1>5, <2>1, Zenon
    <3> QED BY <2>1, <3>1
  <2>2. CASE ~joins(b)
    <3>1. cs[b] = bs[b] /\ b # from
      BY <1>5, <2>2, Zenon
    <3> QED BY <3>1
  <2> QED BY <2>1, <2>2
<1>10. NoInner(cs) <=> NoInner(bs) /\ ~Terminated(bs[from])
  BY <1>7, <1>9, Zenon DEF NoInner
<1>11. \A i \in 1 .. Len(bs) : i # from /\ i \notin dones => cs[i] = bs[i]
  BY <1>5, Zenon
<1> HIDE DEF joins
<1> QED BY <1>3, <1>7, <1>8, <1>10, <1>11
-----------------------------------------------------------------------------
(* Tokens: a return with nothing but braces behind it, and tokens that may not stand there. *)

RetBefore(b, n) == \E i \in 1 .. n : b[i].kind = "ret" /\ \A j \in i + 1 .. n : Brace(b, j)

May(b, k) == b[k].kind \in {"twig", "otherwise", "end"} /\ b[k].to \notin 1 .. k - 1

Bad(b, k) == ~Brace(b, k) /\ RetBefore(b, k - 1) /\ ~May(b, k)

Fine(b, n) == \A k \in 1 .. n : ~Bad(b, k)

(* No statement follows a return in its block; the next one would. *)
Clear(b) == Fine(b, Len(b))
Behind(b) == RetBefore(b, Len(b))

LEMMA TidyIsClear ==
  ASSUME NEW b \in Seq(Token)
  PROVE  Tidy(b) <=> Clear(b)
<1>1. DOMAIN b = 1 .. Len(b) /\ Len(b) \in Nat
  OBVIOUS
<1>2. ASSUME Tidy(b), NEW k \in 1 .. Len(b), Bad(b, k) PROVE FALSE
  <2>1. PICK i \in 1 .. k - 1 : b[i].kind = "ret" /\ \A j \in i + 1 .. k - 1 : Brace(b, j)
    BY <1>2 DEF Bad, RetBefore
  <2>2. i \in 1 .. Len(b) /\ i < k
    BY <1>1, <2>1
  <2> QED BY <1>1, <1>2, <2>1, <2>2, Zenon DEF Tidy, Bad, May
<1>3. ASSUME Clear(b), NEW i \in 1 .. Len(b), NEW k \in 1 .. Len(b),
             b[i].kind = "ret", i < k, ~Brace(b, k), \A j \in i + 1 .. k - 1 : Brace(b, j)
      PROVE  May(b, k)
  <2>1. i \in 1 .. k - 1
    BY <1>3
  <2>2. RetBefore(b, k - 1)
    BY <1>3, <2>1, Zenon DEF RetBefore
  <2> QED BY <1>3, <2>2, Zenon DEF Clear, Fine, Bad
<1> QED BY <1>1, <1>2, <1>3, Zenon DEF Tidy, Clear, Fine, May

(* The tokens of v go on those of w with one more, which may end a statement of w. *)
GoesOn(w, v) ==
  /\ w \in Seq(Token) /\ v \in Seq(Token) /\ Len(v) = Len(w) + 1
  /\ \A i \in 1 .. Len(w) :
       v[i].kind = w[i].kind /\ (v[i].to = w[i].to \/ (w[i].to = 0 /\ v[i].to = Len(w) + 1))

LEMMA TokensTyped ==
  ASSUME NEW w \in Seq(Token)
  PROVE  \A i \in 1 .. Len(w) : w[i] \in Token /\ w[i].to \in Nat
<1>1. \A i \in 1 .. Len(w) : w[i] \in Token
  OBVIOUS
<1>2. \A x \in Token : x.to \in Nat
  BY DEF Token
<1> QED BY <1>1, <1>2

LEMMA BracesKept ==
  ASSUME NEW w, NEW v, GoesOn(w, v), NEW i \in 1 .. Len(w)
  PROVE  (Brace(v, i) <=> Brace(w, i)) /\ (v[i].to \in 1 .. i - 1 <=> w[i].to \in 1 .. i - 1)
<1>1. Len(w) \in Nat /\ \A j \in 1 .. Len(w) : w[j].to \in Nat /\ v[j].to \in Nat
  BY TokensTyped DEF GoesOn
<1>2. \A j \in 1 .. i : j \in 1 .. Len(w)
  BY <1>1
<1>3. \A j \in 1 .. i : v[j].kind = w[j].kind /\ (v[j].to = i <=> w[j].to = i)
  BY <1>1, <1>2 DEF GoesOn
<1>4. Brace(v, i) <=> Brace(w, i)
  <2>1. v[i].kind = w[i].kind
    BY DEF GoesOn
  <2> QED BY <1>3, <2>1, Zenon DEF Brace
<1>5. v[i].to \in 1 .. i - 1 <=> w[i].to \in 1 .. i - 1
  BY <1>1 DEF GoesOn
<1> QED BY <1>4, <1>5

LEMMA RetKept ==
  ASSUME NEW w, NEW v, GoesOn(w, v), NEW n \in 0 .. Len(w)
  PROVE  RetBefore(v, n) <=> RetBefore(w, n)
<1>1. Len(w) \in Nat
  BY DEF GoesOn
<1>2. \A i \in 1 .. n : i \in 1 .. Len(w) /\ \A j \in i + 1 .. n : j \in 1 .. Len(w)
  BY <1>1
<1>3. \A j \in 1 .. Len(w) : (Brace(v, j) <=> Brace(w, j)) /\ v[j].kind = w[j].kind
  BY BracesKept DEF GoesOn
<1> QED BY <1>2, <1>3, Zenon DEF RetBefore

LEMMA NewToken ==
  ASSUME NEW w, NEW v, GoesOn(w, v), NEW k, k = Len(w) + 1
  PROVE  /\ Clear(v) <=> Clear(w) /\ (Brace(v, k) \/ ~Behind(w) \/ May(v, k))
         /\ Behind(v) <=> v[k].kind = "ret" \/ (Brace(v, k) /\ Behind(w))
<1>1. Len(w) \in Nat /\ Len(v) = k /\ k - 1 = Len(w) /\ Len(w) \in 0 .. Len(w)
  BY DEF GoesOn
<1>2. \A i \in 1 .. Len(w) : Bad(v, i) <=> Bad(w, i)
  <2> SUFFICES ASSUME NEW i \in 1 .. Len(w) PROVE Bad(v, i) <=> Bad(w, i)
    OBVIOUS
  <2>1. RetBefore(v, i - 1) <=> RetBefore(w, i - 1)
    <3>1. i - 1 \in 0 .. Len(w)
      BY <1>1
    <3> QED BY <3>1, RetKept
  <2>2. (Brace(v, i) <=> Brace(w, i)) /\ (v[i].to \in 1 .. i - 1 <=> w[i].to \in 1 .. i - 1)
    BY BracesKept
  <2>3. v[i].kind = w[i].kind
    BY DEF GoesOn
  <2> QED BY <2>1, <2>2, <2>3, Zenon DEF Bad, May
<1>3. RetBefore(v, Len(w)) <=> Behind(w)
  BY <1>1, RetKept DEF Behind
<1>4. Bad(v, k) <=> ~Brace(v, k) /\ Behind(w) /\ ~May(v, k)
  BY <1>1, <1>3, Zenon DEF Bad
<1>5. /\ \A i \in 1 .. k : i \in 1 .. Len(w) \/ i = k
      /\ k \in 1 .. k /\ \A i \in 1 .. Len(w) : i \in 1 .. k
  BY <1>1
<1>6. Clear(v) <=> Clear(w) /\ ~Bad(v, k)
  BY <1>1, <1>2, <1>5, Zenon DEF Clear, Fine
<1>7. Behind(v) => v[k].kind = "ret" \/ (Brace(v, k) /\ Behind(w))
  <2>1. SUFFICES ASSUME Behind(v), v[k].kind # "ret" PROVE Brace(v, k) /\ Behind(w)
    OBVIOUS
  <2>2. PICK i \in 1 .. k : v[i].kind = "ret" /\ \A j \in i + 1 .. k : Brace(v, j)
    BY <1>1, <2>1, Zenon DEF Behind, RetBefore
  <2>3. i # k
    BY <2>1, <2>2
  <2>4. i \in 1 .. Len(w) /\ k \in i + 1 .. k /\ \A j \in i + 1 .. Len(w) : j \in i + 1 .. k
    BY <1>1, <2>2, <2>3
  <2>5. Brace(v, k) /\ RetBefore(v, Len(w))
    BY <2>2, <2>4, Zenon DEF RetBefore
  <2> QED BY <1>3, <2>5
<1>8. v[k].kind = "ret" => Behind(v)
  <2>1. \A j \in k + 1 .. k : FALSE
    BY <1>1
  <2> QED BY <1>1, <1>5, <2>1, Zenon DEF Behind, RetBefore
<1>9. Brace(v, k) /\ Behind(w) => Behind(v)
  <2>1. SUFFICES ASSUME Brace(v, k), Behind(w) PROVE Behind(v)
    OBVIOUS
  <2>2. PICK i \in 1 .. Len(w) : v[i].kind = "ret" /\ \A j \in i + 1 .. Len(w) : Brace(v, j)
    BY <1>3, <2>1, Zenon DEF RetBefore
  <2>3. i \in 1 .. k /\ \A j \in i + 1 .. k : j \in i + 1 .. Len(w) \/ j = k
    BY <1>1, <2>2
  <2> QED BY <1>1, <2>1, <2>2, <2>3, Zenon DEF Behind, RetBefore
<1> QED BY <1>4, <1>6, <1>7, <1>8, <1>9

-----------------------------------------------------------------------------
(* The tokens that the statements being built began with. *)

Words(w, fs) ==
  /\ \A i \in 1 .. Len(w) : w[i].to <= Len(w)
  /\ \A k \in 1 .. Len(fs) :
       /\ fs[k].at \in 1 .. Len(w) /\ w[fs[k].at].to = 0
       /\ w[fs[k].at].kind = "block" <=> fs[k].kind = "block"

(* A token is written. *)
LEMMA Writing ==
  ASSUME body \in Seq(Token), Words(body, open), NEW reads \in Nat,
         NEW kind \in Kinds, kind \notin {"twig", "otherwise", "end"},
         NEW v, v = Written(kind, 0, reads)
  PROVE  /\ GoesOn(body, v) /\ Words(v, open)
         /\ v[Here].kind = kind /\ v[Here].to = 0 /\ Here \in 1 .. Len(v)
         /\ Clear(v) <=> Clear(body) /\ (kind = "block" \/ ~Behind(body))
         /\ Behind(v) <=> kind = "ret" \/ (kind = "block" /\ Behind(body))
<1> DEFINE x == [kind |-> kind, to |-> 0, reads |-> reads]
<1>1. x \in Token /\ x.kind = kind /\ x.to = 0
  BY DEF Token
<1>2. v = Append(body, x)
  BY DEF Written
<1> HIDE DEF x
<1>3. /\ v \in Seq(Token) /\ Len(v) = Len(body) + 1
      /\ \A i \in 1 .. Len(body) : v[i] = body[i]
      /\ v[Len(body) + 1] = x
  BY <1>1, <1>2, AppendProperties
<1>4. Len(body) \in Nat /\ Here = Len(body) + 1
  BY DEF Here
<1>5. GoesOn(body, v)
  BY <1>3 DEF GoesOn
<1>6. v[Here].kind = kind /\ v[Here].to = 0 /\ Here \in 1 .. Len(v)
  BY <1>1, <1>3, <1>4
<1>7. Brace(v, Here) <=> kind = "block"
  BY <1>6, Zenon DEF Brace
<1>8. ~May(v, Here)
  BY <1>6, Zenon DEF May
<1>9. Words(v, open)
  <2>1. \A i \in 1 .. Len(body) : body[i].to <= Len(body) /\ body[i].to \in Nat
    BY TokensTyped DEF Words
  <2>2. ASSUME NEW i \in 1 .. Len(v) PROVE v[i].to <= Len(v)
    <3>1. CASE i \in 1 .. Len(body)
      BY <1>3, <1>4, <2>1, <3>1
    <3>2. CASE i = Here
      BY <1>3, <1>4, <1>6, <3>2
    <3> QED BY <1>3, <1>4, <3>1, <3>2
  <2>3. \A i \in 1 .. Len(body) : i \in 1 .. Len(v) /\ v[i] = body[i]
    BY <1>3, <1>4
  <2> QED BY <2>2, <2>3, Zenon DEF Words
<1> QED BY <1>4, <1>5, <1>6, <1>7, <1>8, <1>9, NewToken

(* A token that continues or ends the statement on top. *)
LEMMA Linking ==
  ASSUME body \in Seq(Token), Words(body, open), open \in Seq(Frame), open # <<>>, Nested(open),
         NEW kind \in {"twig", "otherwise", "end"}, NEW to \in 0 .. Len(body),
         to # 0 => Top.kind # "block" /\ kind = "end",
         NEW v, v = Linked(kind, to)
  PROVE  /\ GoesOn(body, v) /\ Words(v, Below)
         /\ v[Here].kind = kind /\ v[Here].to = to /\ Here \in 1 .. Len(v)
         /\ Clear(v) <=> Clear(body) /\ (to = 0 \/ ~Behind(body))
         /\ Behind(v) <=> kind = "end" /\ Top.kind = "block" /\ Behind(body)
<1> DEFINE x == [kind |-> kind, to |-> to, reads |-> 0]
           s == Written(kind, to, 0)
<1>1. PICK a : a = Top.at
  OBVIOUS
<1>2. /\ Len(body) \in Nat /\ Here = Len(body) + 1 /\ to \in Nat
      /\ Len(open) \in Nat /\ Len(open) \in 1 .. Len(open)
  BY DEF Here
<1>3. /\ a \in 1 .. Len(body) /\ body[a].to = 0
      /\ body[a].kind = "block" <=> Top.kind = "block"
  BY <1>1, <1>2, Zenon DEF Words, Top
<1>4. kind \in Kinds
  BY DEF Kinds, Conditions
<1>5. x \in Token /\ x.kind = kind /\ x.to = to
  BY <1>2, <1>4 DEF Token
<1>6. /\ s \in Seq(Token) /\ Len(s) = Len(body) + 1
      /\ \A i \in 1 .. Len(body) : s[i] = body[i]
      /\ s[Len(body) + 1] = x
  <2>1. s = Append(body, x)
    BY DEF Written
  <2> HIDE DEF x, s
  <2> QED BY <1>5, <2>1, AppendProperties
<1>7. v = [s EXCEPT ![a].to = Here]
  BY <1>1, Zenon DEF Linked
<1> HIDE DEF x, s
<1>8. PICK y : y = [s[a] EXCEPT !.to = Here]
  OBVIOUS
<1>9. y \in Token /\ y.kind = body[a].kind /\ y.to = Here
  <2>1. s[a] \in Token /\ s[a] = body[a]
    BY <1>3, <1>6
  <2>2. s[a] = [kind |-> body[a].kind, to |-> s[a].to, reads |-> s[a].reads]
        /\ body[a].kind \in Kinds /\ s[a].reads \in Nat
    BY <2>1 DEF Token
  <2>3. y = [kind |-> body[a].kind, to |-> Here, reads |-> s[a].reads]
    BY <1>8, <2>2
  <2> QED BY <1>2, <2>2, <2>3 DEF Token
<1>10. /\ v \in Seq(Token) /\ Len(v) = Len(body) + 1 /\ v[a] = y
       /\ \A i \in 1 .. Len(body) + 1 : i # a => v[i] = s[i]
  <2>1. a \in 1 .. Len(s)
    BY <1>2, <1>3, <1>6
  <2>2. v = [s EXCEPT ![a] = y]
    BY <1>7, <1>8
  <2> QED BY <1>6, <1>9, <2>1, <2>2, ExceptSeq
<1>11. GoesOn(body, v)
  <2>1. ASSUME NEW i \in 1 .. Len(body)
        PROVE  v[i].kind = body[i].kind
               /\ (v[i].to = body[i].to \/ (body[i].to = 0 /\ v[i].to = Len(body) + 1))
    <3>1. CASE i = a
      BY <1>2, <1>3, <1>9, <1>10, <3>1
    <3>2. CASE i # a
      <4>1. i \in 1 .. Len(body) + 1
        BY <1>2
      <4> QED BY <1>6, <1>10, <3>2, <4>1
    <3> QED BY <3>1, <3>2
  <2> QED BY <1>10, <2>1 DEF GoesOn
<1>12. v[Here].kind = kind /\ v[Here].to = to /\ Here \in 1 .. Len(v)
  BY <1>2, <1>3, <1>5, <1>6, <1>10
<1>13. \A i \in 1 .. Len(body) : i # a => v[i] = body[i]
  BY <1>2, <1>6, <1>10
<1>14. \A i \in 1 .. Len(body) : body[i].to <= Len(body) /\ body[i].to \in Nat
  BY TokensTyped DEF Words
<1>15. Brace(v, Here) <=> kind = "end" /\ Top.kind = "block"
  <2>1. ASSUME NEW j \in 1 .. Here, v[j].kind = "block", v[j].to = Here PROVE Top.kind = "block"
    <3>1. j # Here
      BY <1>2, <1>12, <2>1
    <3>2. j \in 1 .. Len(body)
      BY <1>2, <3>1
    <3>3. j = a
      BY <1>2, <1>13, <1>14, <2>1, <3>2
    <3> QED BY <1>3, <1>9, <1>10, <2>1, <3>3
  <2>2. ASSUME Top.kind = "block" PROVE \E j \in 1 .. Here : v[j].kind = "block" /\ v[j].to = Here
    <3>1. a \in 1 .. Here
      BY <1>2, <1>3
    <3> QED BY <1>3, <1>9, <1>10, <2>2, <3>1
  <2> QED BY <1>12, <2>1, <2>2, Zenon DEF Brace
<1>16. May(v, Here) <=> to = 0
  BY <1>2, <1>12 DEF May
<1>17. Words(v, Below)
  <2>1. ASSUME NEW i \in 1 .. Len(v) PROVE v[i].to <= Len(v)
    <3>1. CASE i = a
      BY <1>2, <1>9, <1>10, <3>1
    <3>2. CASE i = Here
      BY <1>2, <1>10, <1>12, <3>2
    <3>3. CASE i \in 1 .. Len(body) /\ i # a
      BY <1>2, <1>10, <1>13, <1>14, <3>3
    <3> QED BY <1>2, <1>10, <3>1, <3>2, <3>3
  <2>2. /\ Len(Below) = Len(open) - 1
        /\ \A k \in 1 .. Len(Below) : Below[k] = open[k] /\ k \in 1 .. Len(open) /\ k < Len(open)
    <3>1. Len(open) - 1 \in 0 .. Len(open)
      BY <1>2
    <3>2. Len(Below) = Len(open) - 1 /\ \A k \in 1 .. Len(open) - 1 : Below[k] = open[k]
      BY <3>1, UpTo DEF Below
    <3> QED BY <1>2, <3>2
  <2>3. ASSUME NEW k \in 1 .. Len(Below)
        PROVE  /\ Below[k].at \in 1 .. Len(v) /\ v[Below[k].at].to = 0
               /\ v[Below[k].at].kind = "block" <=> Below[k].kind = "block"
    <3>1. /\ open[k].at \in 1 .. Len(body) /\ body[open[k].at].to = 0
          /\ body[open[k].at].kind = "block" <=> open[k].kind = "block"
      BY <2>2, Zenon DEF Words
    <3>2. open[k].at < a
      BY <1>1, <1>2, <2>2, Zenon DEF Nested, Top
    <3>3. v[open[k].at] = body[open[k].at] /\ open[k].at \in 1 .. Len(v)
      BY <1>2, <1>3, <1>10, <1>13, <3>1, <3>2
    <3> QED BY <2>2, <3>1, <3>3
  <2> QED BY <2>1, <2>3, Zenon DEF Words
<1>18. kind # "ret"
  OBVIOUS
<1>19. Brace(v, Here) => to = 0
  BY <1>15
<1> QED BY <1>2, <1>11, <1>12, <1>15, <1>16, <1>17, <1>18, <1>19, NewToken
-----------------------------------------------------------------------------
(* The blocks in which conditions are evaluated stay open until their statement ends. *)

Unended(bs, fs) == \A k \in 1 .. Len(fs) : fs[k].kind \in Guarding => ~Terminated(bs[fs[k].eval])

(* No block is awaited by two statements. *)
Apart(fs) ==
  \A j, k \in 1 .. Len(fs) : j # k => \A b : ~(Awaits(fs[j], b) /\ Awaits(fs[k], b))

NoneAwait(fs, b) == \A k \in 1 .. Len(fs) : ~Awaits(fs[k], b)

LEMMA AwaitsOld ==
  ASSUME NEW n, NEW f, FrameOK(f, n), NEW b, Awaits(f, b)
  PROVE  b \in 2 .. n
BY DEF FrameOK, Awaits

LEMMA EvalAwaited ==
  ASSUME NEW f, f.kind \in Guarding
  PROVE  Awaits(f, f.eval)
BY DEF Awaits

(* The frames after a push and after a pop. *)
LEMMA FramesPushed ==
  ASSUME NEW fs \in Seq(Frame), NEW f \in Frame
  PROVE  /\ Append(fs, f) \in Seq(Frame) /\ Append(fs, f) # <<>>
         /\ Append(fs, f)[Len(Append(fs, f))] = f
         /\ \A k \in 1 .. Len(Append(fs, f)) :
              (k \in 1 .. Len(fs) /\ Append(fs, f)[k] = fs[k])
                \/ (k = Len(fs) + 1 /\ Append(fs, f)[k] = f)
<1> DEFINE gs == Append(fs, f)
<1>1. /\ gs \in Seq(Frame) /\ Len(gs) = Len(fs) + 1
      /\ \A i \in 1 .. Len(fs) : gs[i] = fs[i]
      /\ gs[Len(fs) + 1] = f
  BY AppendProperties
<1>2. Len(fs) \in Nat /\ gs # <<>>
  BY <1>1
<1> HIDE DEF gs
<1>3. \A k \in 1 .. Len(gs) : k \in 1 .. Len(fs) \/ k = Len(fs) + 1
  BY <1>1, <1>2
<1> QED BY <1>1, <1>2, <1>3, Zenon DEF gs

LEMMA FramesPopped ==
  ASSUME open \in Seq(Frame), open # <<>>, Nested(open)
  PROVE  /\ Below \in Seq(Frame) /\ Len(open) \in 1 .. Len(open)
         /\ \A k \in 1 .. Len(Below) : Below[k] = open[k] /\ k \in 1 .. Len(open) /\ k # Len(open)
         /\ Below # <<>> => Below[Len(Below)].kind # "branch"
<1>1. Len(open) \in Nat /\ Len(open) >= 1
  OBVIOUS
<1>2. Len(open) - 1 \in 0 .. Len(open)
  BY <1>1
<1>3. /\ Below \in Seq(Frame) /\ Len(Below) = Len(open) - 1
      /\ \A k \in 1 .. Len(open) - 1 : Below[k] = open[k]
  BY <1>2, UpTo DEF Below
<1>4. \A k \in 1 .. Len(Below) : Below[k] = open[k] /\ k \in 1 .. Len(open) /\ k < Len(open)
  BY <1>1, <1>3
<1>5. \A k \in 1 .. Len(Below) : Below[k].kind # "branch"
  <2>1. Len(open) \in 1 .. Len(open)
    BY <1>1
  <2> QED BY <1>4, <2>1, Zenon DEF Nested
<1>6. Below # <<>> => Len(Below) \in 1 .. Len(Below)
  BY <1>3
<1> QED BY <1>1, <1>3, <1>4, <1>5, <1>6

LEMMA Pushing ==
  ASSUME NEW fs \in Seq(Frame), NEW f \in Frame, NEW bs, Unended(bs, fs), Apart(fs),
         f.kind \in Guarding => ~Terminated(bs[f.eval]),
         \A b : Awaits(f, b) => NoneAwait(fs, b)
  PROVE  Unended(bs, Append(fs, f)) /\ Apart(Append(fs, f))
<1>1. PICK gs : gs = Append(fs, f)
  OBVIOUS
<1>2. \A k \in 1 .. Len(gs) : (k \in 1 .. Len(fs) /\ gs[k] = fs[k]) \/ (k = Len(fs) + 1 /\ gs[k] = f)
  BY <1>1, FramesPushed
<1>3. Unended(bs, gs)
  BY <1>2, Zenon DEF Unended
<1>4. Apart(gs)
  <2> SUFFICES ASSUME NEW j \in 1 .. Len(gs), NEW k \in 1 .. Len(gs), j # k, NEW b,
                      Awaits(gs[j], b), Awaits(gs[k], b)
               PROVE  FALSE
    BY Zenon DEF Apart
  <2>1. CASE j \in 1 .. Len(fs) /\ gs[j] = fs[j] /\ k \in 1 .. Len(fs) /\ gs[k] = fs[k]
    BY <2>1, Zenon DEF Apart
  <2>2. CASE j \in 1 .. Len(fs) /\ gs[j] = fs[j] /\ gs[k] = f
    BY <2>2, Zenon DEF NoneAwait
  <2>3. CASE gs[j] = f /\ k \in 1 .. Len(fs) /\ gs[k] = fs[k]
    BY <2>3, Zenon DEF NoneAwait
  <2>4. CASE j = Len(fs) + 1 /\ k = Len(fs) + 1
    BY <2>4
  <2> QED BY <1>2, <2>1, <2>2, <2>3, <2>4, Zenon
<1> QED BY <1>1, <1>3, <1>4

(* Blocks may change that the statement on top awaits, once it ends, and the current one. *)
LEMMA Popping ==
  ASSUME open \in Seq(Frame), open # <<>>, Nested(open), Unended(blocks, open), Apart(open),
         NoneAwait(open, insert), OpenOK(open, Len(blocks)),
         NEW bs, \A b \in 2 .. Len(blocks) : b = insert \/ Awaits(Top, b) \/ bs[b] = blocks[b]
  PROVE  /\ Unended(bs, Below) /\ Apart(Below) /\ NoneAwait(Below, insert)
         /\ \A b : Awaits(Top, b) => NoneAwait(Below, b)
<1>1. /\ Len(open) \in 1 .. Len(open) /\ Top = open[Len(open)]
      /\ \A k \in 1 .. Len(Below) : Below[k] = open[k] /\ k \in 1 .. Len(open) /\ k # Len(open)
  BY FramesPopped DEF Top
<1>2. NoneAwait(Below, insert)
  BY <1>1, Zenon DEF NoneAwait
<1>3. \A b : Awaits(Top, b) => NoneAwait(Below, b)
  BY <1>1, Zenon DEF NoneAwait, Apart
<1>4. Apart(Below)
  BY <1>1, Zenon DEF Apart
<1>5. ASSUME NEW k \in 1 .. Len(Below), Below[k].kind \in Guarding
      PROVE  ~Terminated(bs[Below[k].eval])
  <2>1. PICK b : b = Below[k].eval
    OBVIOUS
  <2>2. Awaits(Below[k], b)
    BY <1>5, <2>1, EvalAwaited
  <2>3. b # insert /\ ~Awaits(Top, b)
    BY <1>2, <1>3, <2>2, Zenon DEF NoneAwait
  <2>4. FrameOK(Below[k], Len(blocks))
    BY <1>1, Zenon DEF OpenOK
  <2>5. b \in 2 .. Len(blocks)
    BY <2>2, <2>4, AwaitsOld
  <2>6. ~Terminated(blocks[b])
    BY <1>1, <1>5, <2>1, Zenon DEF Unended
  <2> QED BY <2>1, <2>3, <2>5, <2>6, Zenon
<1> QED BY <1>2, <1>3, <1>4, <1>5, Zenon DEF Unended

LEMMA Staying ==
  ASSUME open \in Seq(Frame), Unended(blocks, open), NoneAwait(open, insert),
         OpenOK(open, Len(blocks)),
         NEW bs, \A b \in 2 .. Len(blocks) : b = insert \/ bs[b] = blocks[b]
  PROVE  Unended(bs, open)
<1>1. ASSUME NEW k \in 1 .. Len(open), open[k].kind \in Guarding
      PROVE  ~Terminated(bs[open[k].eval])
  <2>1. PICK b : b = open[k].eval
    OBVIOUS
  <2>2. Awaits(open[k], b)
    BY <1>1, <2>1, EvalAwaited
  <2>3. b # insert
    BY <2>2, Zenon DEF NoneAwait
  <2>4. FrameOK(open[k], Len(blocks))
    BY Zenon DEF OpenOK
  <2>5. b \in 2 .. Len(blocks)
    BY <2>2, <2>4, AwaitsOld
  <2>6. ~Terminated(blocks[b])
    BY <1>1, <2>1, Zenon DEF Unended
  <2> QED BY <2>1, <2>3, <2>5, <2>6, Zenon
<1> QED BY <1>1, Zenon DEF Unended

(* The tokens of the statements after a push. *)
LEMMA WordsPushed ==
  ASSUME NEW fs \in Seq(Frame), NEW f \in Frame, NEW w, Words(w, fs),
         f.at \in 1 .. Len(w), w[f.at].to = 0, w[f.at].kind = "block" <=> f.kind = "block"
  PROVE  Words(w, Append(fs, f))
<1>1. PICK gs : gs = Append(fs, f)
  OBVIOUS
<1>2. \A k \in 1 .. Len(gs) : (k \in 1 .. Len(fs) /\ gs[k] = fs[k]) \/ (k = Len(fs) + 1 /\ gs[k] = f)
  BY <1>1, FramesPushed
<1>3. Words(w, gs)
  BY <1>2, Zenon DEF Words
<1> QED BY <1>1, <1>3

-----------------------------------------------------------------------------
(* While a function is built: terminators behind the current block's end are known by the    *)
(* tokens.  Between the twigs of a branch, the next instruction decides.                     *)

Even(bs, b, w) == (NoInner(bs) <=> Clear(w)) /\ (Terminated(bs[b]) <=> Behind(w))
Ready(bs, b, w) == NoInner(bs) /\ ~Terminated(bs[b]) <=> Clear(w)

BetweenTwigs(fs) == fs # <<>> /\ fs[Len(fs)].kind = "branch"

Tracked(bs, b, fs, w) ==
  /\ ~BetweenTwigs(fs) => Even(bs, b, w)
  /\ BetweenTwigs(fs) => Ready(bs, b, w)

TidyInv ==
  /\ phase = "build" =>
       /\ Words(body, open) /\ Unended(blocks, open) /\ Apart(open)
       /\ Tracked(blocks, insert, open, body)
  /\ phase \in {"built", "run", "returned"} => (NoInner(blocks) <=> Clear(body))

(* What is known where a build action begins. *)
Building ==
  /\ body \in Seq(Token) /\ open \in Seq(Frame) /\ OpenOK(open, Len(blocks))
  /\ blocks \in Seq(Seq(Instruction)) /\ Len(blocks) \in Nat /\ insert \in 2 .. Len(blocks)
  /\ Here \in Nat
  /\ NoneAwait(open, insert) /\ Nested(open)
  /\ Words(body, open) /\ Unended(blocks, open) /\ Apart(open)
  /\ Tracked(blocks, insert, open, body)

LEMMA AtBuild ==
  ASSUME BuildInv, Shaped, TidyInv, phase = "build"
  PROVE  Building
<1>1. /\ body \in Seq(Token) /\ OpenOK(open, Len(blocks)) /\ open \in Seq(Frame)
      /\ blocks \in Seq(Seq(Instruction)) /\ Len(blocks) \in Nat
  BY Sizes DEF BuildInv, BlocksOK, OpenOK
<1>2. NoneAwait(open, insert) /\ Nested(open)
  BY DEF Shaped, ShapeInv, NoneAwait
<1>3. /\ Words(body, open) /\ Unended(blocks, open) /\ Apart(open)
      /\ Tracked(blocks, insert, open, body)
  BY DEF TidyInv
<1> QED BY <1>1, <1>2, <1>3, Sizes, Zenon DEF Building

LEMMA StillTidy ==
  ASSUME phase' = "build", Words(body', open'), Unended(blocks', open'), Apart(open'),
         Tracked(blocks', insert', open', body')
  PROVE  TidyInv'
BY DEF TidyInv

(* The next token stands in a block, and the next instruction goes to its end. *)
LEMMA InBlockEven ==
  ASSUME Building, InBlock
  PROVE  /\ phase = "build" /\ ~BetweenTwigs(open)
         /\ NoInner(blocks) <=> Clear(body)
         /\ Terminated(blocks[insert]) <=> Behind(body)
<1>1. phase = "build" /\ ~BetweenTwigs(open)
  BY DEF InBlock, BetweenTwigs, Top
<1>2. Tracked(blocks, insert, open, body)
  BY DEF Building
<1>3. Even(blocks, insert, body)
  BY <1>1, <1>2, Zenon DEF Tracked
<1> QED BY <1>1, <1>3, Zenon DEF Even

LEMMA InBlockOfEven ==
  ASSUME Building, NEW kind, InBlockOf(kind), kind # "branch"
  PROVE  /\ phase = "build" /\ open # <<>> /\ Top.kind = kind
         /\ NoInner(blocks) <=> Clear(body)
         /\ Terminated(blocks[insert]) <=> Behind(body)
<1>1. phase = "build" /\ open # <<>> /\ Top.kind = kind /\ InBlock
  BY DEF InBlockOf, InBlock
<1> QED BY <1>1, InBlockEven

LEMMA BetweenReady ==
  ASSUME Building, Between
  PROVE  /\ phase = "build" /\ open # <<>> /\ Top.kind = "branch"
         /\ NoInner(blocks) /\ ~Terminated(blocks[insert]) <=> Clear(body)
<1>1. phase = "build" /\ open # <<>> /\ Top.kind = "branch" /\ BetweenTwigs(open)
  BY DEF Between, BetweenTwigs, Top
<1>2. Tracked(blocks, insert, open, body)
  BY DEF Building
<1>3. Ready(blocks, insert, body)
  BY <1>1, <1>2, Zenon DEF Tracked
<1> QED BY <1>1, <1>3, Zenon DEF Ready

LEMMA TopKnown ==
  ASSUME Building, open # <<>>
  PROVE  /\ FrameOK(Top, Len(blocks)) /\ Top \in Frame
         /\ Top.at \in 1 .. Len(body) /\ Top.at \in Nat /\ body[Top.at].to = 0
         /\ body[Top.at].kind = "block" <=> Top.kind = "block"
         /\ ~Awaits(Top, insert)
         /\ Top.kind \in Guarding =>
              /\ Top.eval \in 2 .. Len(blocks) /\ Top.start \in 2 .. Len(blocks)
              /\ Top.eval # insert /\ ~Terminated(blocks[Top.eval])
<1>1. /\ open \in Seq(Frame) /\ Nested(open) /\ OpenOK(open, Len(blocks)) /\ Words(body, open)
      /\ NoneAwait(open, insert) /\ Unended(blocks, open)
  BY DEF Building
<1>2. Len(open) \in 1 .. Len(open) /\ Top = open[Len(open)]
  BY <1>1, FramesPopped DEF Top
<1>3. FrameOK(Top, Len(blocks)) /\ ~Awaits(Top, insert)
  BY <1>1, <1>2, Zenon DEF OpenOK, NoneAwait
<1>4. /\ Top.at \in 1 .. Len(body) /\ body[Top.at].to = 0
      /\ body[Top.at].kind = "block" <=> Top.kind = "block"
  BY <1>1, <1>2, Zenon DEF Words
<1>5. Top \in Frame
  BY <1>3 DEF FrameOK
<1>6. ASSUME Top.kind \in Guarding
      PROVE  /\ Top.eval \in 2 .. Len(blocks) /\ Top.start \in 2 .. Len(blocks)
             /\ Top.eval # insert /\ ~Terminated(blocks[Top.eval])
  <2>1. Top.eval \in 2 .. Len(blocks) /\ Top.start \in 2 .. Len(blocks)
    BY <1>3, <1>6 DEF FrameOK
  <2>2. Awaits(Top, Top.eval)
    BY <1>6, EvalAwaited
  <2>3. ~Terminated(blocks[Top.eval])
    BY <1>1, <1>2, <1>6, Zenon DEF Unended
  <2> QED BY <1>3, <2>1, <2>2, <2>3
<1> QED BY <1>3, <1>4, <1>5, <1>6

(* Code in one piece. *)
LEMMA OnePiece ==
  ASSUME NEW x \in Instruction
  PROVE  Piece(<<x>>) /\ (Terminated(<<x>>) <=> x.op \in Terminators)
<1>1. <<x>> \in Seq(Instruction) /\ Len(<<x>>) = 1 /\ <<x>>[1] = x /\ <<x>> # <<>>
  OBVIOUS
<1>2. ~Inner(<<x>>)
  BY <1>1 DEF Inner
<1> QED BY <1>1, <1>2 DEF Piece, Terminated

LEMMA TwoPieces ==
  ASSUME NEW c, NEW d, Piece(c), Piece(d), ~Terminated(c)
  PROVE  Piece(c \o d) /\ (Terminated(c \o d) <=> Terminated(d))
<1>1. /\ c \in Seq(Instruction) /\ d \in Seq(Instruction)
      /\ Len(c) \in Nat /\ Len(d) \in Nat /\ Len(c) >= 1 /\ ~Inner(c)
  BY DEF Piece
<1>2. ~Inner(c \o d) /\ (Terminated(c \o d) <=> Terminated(d))
  BY <1>1, PieceJoined
<1>3. c \o d \in Seq(Instruction) /\ Len(c \o d) = Len(c) + Len(d)
  BY <1>1, Joining
<1> QED BY <1>1, <1>2, <1>3 DEF Piece

LEMMA PlainPiece ==
  ASSUME NEW op \in {"eval", "alloca", "save", "restore", "ret"}, NEW at \in Nat
  PROVE  Piece(<<Plain(op, at)>>) /\ (Terminated(<<Plain(op, at)>>) <=> op = "ret")
<1>1. Plain(op, at) \in Instruction /\ Plain(op, at).op = op
  BY DEF Plain, Instruction, Terminators
<1>2. op \in Terminators <=> op = "ret"
  BY DEF Terminators
<1> QED BY <1>1, <1>2, OnePiece

LEMMA BrPiece ==
  ASSUME NEW b \in Nat
  PROVE  Piece(<<Br(b)>>) /\ Terminated(<<Br(b)>>)
<1>1. Br(b) \in Instruction /\ Br(b).op \in Terminators
  BY DEF Br, Instruction, Terminators
<1> QED BY <1>1, OnePiece

LEMMA CondBrPiece ==
  ASSUME NEW at \in Nat, NEW b \in Nat, NEW c \in Nat
  PROVE  Piece(<<CondBr(at, b, c)>>) /\ Terminated(<<CondBr(at, b, c)>>)
<1>1. CondBr(at, b, c) \in Instruction /\ CondBr(at, b, c).op \in Terminators
  BY DEF CondBr, Instruction, Terminators
<1> QED BY <1>1, OnePiece

LEMMA PlainPair ==
  ASSUME NEW op \in {"eval", "alloca", "save", "restore"},
         NEW next \in {"eval", "ret"}, NEW at \in Nat
  PROVE  /\ Piece(<<Plain(op, at), Plain(next, at)>>)
         /\ Terminated(<<Plain(op, at), Plain(next, at)>>) <=> next = "ret"
<1> DEFINE x == Plain(op, at)
           y == Plain(next, at)
<1>1. x \in Instruction /\ y \in Instruction
  BY DEF Plain, Instruction, Terminators
<1>2. Piece(<<x>>) /\ ~Terminated(<<x>>) /\ Piece(<<y>>) /\ (Terminated(<<y>>) <=> next = "ret")
  BY PlainPiece
<1> HIDE DEF x, y
<1>3. <<x>> \o <<y>> = <<x, y>>
  BY <1>1, Pair
<1>4. Piece(<<x>> \o <<y>>) /\ (Terminated(<<x>> \o <<y>>) <=> next = "ret")
  BY <1>2, TwoPieces
<1> QED BY <1>3, <1>4 DEF x, y

LEMMA ReturnPiece ==
  ASSUME NEW at \in Nat
  PROVE  /\ Piece(GiveBack \o <<Plain("eval", at), Plain("ret", at)>>)
         /\ Terminated(GiveBack \o <<Plain("eval", at), Plain("ret", at)>>)
         /\ Piece(GiveBack \o <<Plain("ret", at)>>)
<1>1. Piece(GiveBack) /\ ~Terminated(GiveBack)
  BY PlainPiece DEF GiveBack
<1>2. /\ Piece(<<Plain("eval", at), Plain("ret", at)>>)
      /\ Terminated(<<Plain("eval", at), Plain("ret", at)>>)
  BY PlainPair
<1>3. Piece(<<Plain("ret", at)>>)
  BY PlainPiece
<1> QED BY <1>1, <1>2, <1>3, TwoPieces
-----------------------------------------------------------------------------
(* One lemma for each action of the builder. *)

(* Instructions are added to the current block. *)
LEMMA AppendingTidy ==
  ASSUME Building, InBlock, UNCHANGED <<open, insert, phase>>,
         NEW kind \in {"do", "let", "ret"}, NEW reads \in Nat, body' = Written(kind, 0, reads),
         NEW code, Piece(code), Terminated(code) <=> kind = "ret",
         blocks' = Emit(blocks, insert, code)
  PROVE  TidyInv'
<1>1. /\ phase = "build" /\ ~BetweenTwigs(open)
      /\ NoInner(blocks) <=> Clear(body)
      /\ Terminated(blocks[insert]) <=> Behind(body)
  BY InBlockEven
<1>2. /\ body \in Seq(Token) /\ open \in Seq(Frame) /\ OpenOK(open, Len(blocks))
      /\ blocks \in Seq(Seq(Instruction)) /\ insert \in 1 .. Len(blocks)
      /\ NoneAwait(open, insert)
      /\ Words(body, open) /\ Unended(blocks, open) /\ Apart(open)
  BY DEF Building
<1>3. kind \in Kinds /\ kind \notin {"twig", "otherwise", "end"} /\ kind # "block"
  BY DEF Kinds
<1>4. /\ Words(body', open)
      /\ Clear(body') <=> Clear(body) /\ ~Behind(body)
      /\ Behind(body') <=> kind = "ret"
  BY <1>2, <1>3, Writing
<1>5. /\ NoInner(blocks') <=> NoInner(blocks) /\ ~Terminated(blocks[insert])
      /\ Terminated(blocks'[insert]) <=> Terminated(code)
      /\ \A i \in 1 .. Len(blocks) : i # insert => blocks'[i] = blocks[i]
  <2>1. /\ NoInner(Emit(blocks, insert, code)) <=> NoInner(blocks) /\ ~Terminated(blocks[insert])
        /\ Terminated(Emit(blocks, insert, code)[insert]) <=> Terminated(code)
        /\ \A q \in 1 .. Len(blocks) : q # insert => Emit(blocks, insert, code)[q] = blocks[q]
    BY <1>2, EmitClean, Zenon
  <2> QED BY <2>1, Zenon
<1>6. Unended(blocks', open)
  <2>1. \A b \in 2 .. Len(blocks) : b \in 1 .. Len(blocks)
    BY <1>2
  <2> QED BY <1>2, <1>5, <2>1, Staying
<1>7. Tracked(blocks', insert, open, body')
  BY <1>1, <1>4, <1>5, Zenon DEF Tracked, Even
<1> QED BY <1>1, <1>2, <1>4, <1>6, <1>7, StillTidy

LEMMA SimpleTidy ==
  ASSUME Building, BuildSimple
  PROVE  TidyInv'
<1>1. InBlock /\ UNCHANGED <<open, insert, phase>>
      /\ blocks' = Emit(blocks, insert, <<Plain("eval", Here)>>)
  BY DEF BuildSimple
<1>2. PICK d \in Visible \cup {0} : body' = Written("do", 0, d)
  BY DEF BuildSimple
<1>3. d \in Nat /\ Here \in Nat
  BY DEF Visible, Building
<1>4. Piece(<<Plain("eval", Here)>>) /\ ~Terminated(<<Plain("eval", Here)>>)
  BY <1>3, PlainPiece
<1> QED BY <1>1, <1>2, <1>3, <1>4, AppendingTidy

LEMMA DeclarationTidy ==
  ASSUME Building, BuildDeclaration
  PROVE  TidyInv'
<1>1. InBlock /\ UNCHANGED <<open, insert, phase>> /\ body' = Written("let", 0, 0)
      /\ blocks' = Emit(blocks, insert, <<Plain("alloca", Here), Plain("eval", Here)>>)
  BY DEF BuildDeclaration
<1>2. Here \in Nat
  BY DEF Building
<1>3. /\ Piece(<<Plain("alloca", Here), Plain("eval", Here)>>)
      /\ ~Terminated(<<Plain("alloca", Here), Plain("eval", Here)>>)
  BY <1>2, PlainPair
<1> QED BY <1>1, <1>3, AppendingTidy

LEMMA ReturnTidy ==
  ASSUME Building, BuildReturn
  PROVE  TidyInv'
<1>1. InBlock /\ UNCHANGED <<open, insert, phase>>
      /\ blocks' = Emit(blocks, insert, GiveBack \o <<Plain("eval", Here), Plain("ret", Here)>>)
  BY DEF BuildReturn
<1>2. PICK d \in Visible \cup {0} : body' = Written("ret", 0, d)
  BY DEF BuildReturn
<1>3. d \in Nat /\ Here \in Nat
  BY DEF Visible, Building
<1>4. /\ Piece(GiveBack \o <<Plain("eval", Here), Plain("ret", Here)>>)
      /\ Terminated(GiveBack \o <<Plain("eval", Here), Plain("ret", Here)>>)
  BY <1>3, ReturnPiece
<1> QED BY <1>1, <1>2, <1>3, <1>4, AppendingTidy

(* A frame for the statement that begins at the next token. *)
FrameKinds == {"if", "loop", "block", "branch", "twig", "otherwise"}

LEMMA OpenedFrame ==
  ASSUME NEW n, NEW eval \in Nat, NEW start \in Nat, Here \in Nat,
         NEW kind \in FrameKinds,
         NEW dones, dones \subseteq Nat,
         NEW f, f = [kind |-> kind, at |-> Here, eval |-> eval, start |-> start, dones |-> dones]
  PROVE  /\ f \in Frame /\ f.kind = kind /\ f.at = Here /\ f.eval = eval /\ f.start = start
         /\ \A b : Awaits(f, b) <=> (kind \in Guarding /\ b = eval) \/ b \in dones
<1>2. /\ f \in Frame /\ f.kind = kind /\ f.at = Here /\ f.eval = eval /\ f.start = start
      /\ f.dones = dones
  BY DEF Frame, FrameKinds
<1> QED BY <1>2, Zenon DEF Awaits

LEMMA OpenedAlone ==
  ASSUME NEW eval \in Nat, NEW start \in Nat, Here \in Nat,
         NEW kind \in FrameKinds,
         NEW f, f = Opened(kind, eval, start)
  PROVE  /\ f \in Frame /\ f.kind = kind /\ f.at = Here /\ f.eval = eval /\ f.start = start
         /\ \A b : Awaits(f, b) <=> kind \in Guarding /\ b = eval
<1>1. f = [kind |-> kind, at |-> Here, eval |-> eval, start |-> start, dones |-> {}]
  BY DEF Opened
<1>2. /\ f \in Frame /\ f.kind = kind /\ f.at = Here /\ f.eval = eval /\ f.start = start
      /\ f.dones = {}
  BY <1>1 DEF Frame, FrameKinds
<1>3. \A b : b \notin f.dones
  BY <1>2
<1> QED BY <1>2, <1>3, Zenon DEF Awaits

(* What becomes of the blocks bs and the current one when a statement begins. *)
Grows(kind, eval, bs, b0, cs, c0) ==
  /\ kind \in Guarding =>
       /\ eval \notin 2 .. Len(bs) /\ ~Terminated(cs[eval]) /\ ~Terminated(cs[c0])
       /\ NoInner(cs) <=> NoInner(bs) /\ ~Terminated(bs[b0])
  /\ kind \notin Guarding =>
       /\ NoInner(cs) <=> NoInner(bs)
       /\ Terminated(cs[c0]) <=> Terminated(bs[b0])
  /\ \A b \in 2 .. Len(bs) : b = b0 \/ cs[b] = bs[b]

LEMMA OpeningTidy ==
  ASSUME Building, InBlock, phase' = phase,
         NEW kind \in {"if", "loop", "block", "branch"}, body' = Written(kind, 0, 0),
         NEW eval \in Nat, NEW start \in Nat, open' = Append(open, Opened(kind, eval, start)),
         Grows(kind, eval, blocks, insert, blocks', insert')
  PROVE  TidyInv'
<1>1. /\ phase = "build" /\ ~BetweenTwigs(open)
      /\ NoInner(blocks) <=> Clear(body)
      /\ Terminated(blocks[insert]) <=> Behind(body)
  BY InBlockEven
<1>2. /\ body \in Seq(Token) /\ open \in Seq(Frame) /\ OpenOK(open, Len(blocks)) /\ Here \in Nat
      /\ NoneAwait(open, insert)
      /\ Words(body, open) /\ Unended(blocks, open) /\ Apart(open)
  BY DEF Building
<1>3. PICK f : f = Opened(kind, eval, start)
  OBVIOUS
<1>4. /\ f \in Frame /\ f.kind = kind /\ f.at = Here /\ f.eval = eval
      /\ \A b : Awaits(f, b) <=> kind \in Guarding /\ b = eval
  <2>1. kind \in FrameKinds
    BY DEF FrameKinds
  <2> QED BY <1>2, <1>3, <2>1, OpenedAlone
<1>5. kind \in Kinds /\ kind \notin {"twig", "otherwise", "end"} /\ kind # "ret"
  BY DEF Kinds, Conditions
<1>6. /\ Words(body', open)
      /\ body'[Here].kind = kind /\ body'[Here].to = 0 /\ Here \in 1 .. Len(body')
      /\ Clear(body') <=> Clear(body) /\ (kind = "block" \/ ~Behind(body))
      /\ Behind(body') <=> kind = "block" /\ Behind(body)
  <2>1. 0 \in Nat
    OBVIOUS
  <2>2. PICK w : w = Written(kind, 0, 0)
    OBVIOUS
  <2>3. /\ Words(w, open)
        /\ w[Here].kind = kind /\ w[Here].to = 0 /\ Here \in 1 .. Len(w)
        /\ Clear(w) <=> Clear(body) /\ (kind = "block" \/ ~Behind(body))
        /\ Behind(w) <=> kind = "ret" \/ (kind = "block" /\ Behind(body))
    BY <1>2, <1>5, <2>1, <2>2, Writing, ZenonT(40)
  <2>4. body' = w
    BY <2>2
  <2> QED BY <1>5, <2>3, <2>4, Zenon
<1>7. Words(body', open')
  BY <1>2, <1>3, <1>4, <1>6, WordsPushed
<1>8. Unended(blocks', open)
  BY <1>2, Staying DEF Grows
<1>9. ASSUME NEW b, Awaits(f, b) PROVE NoneAwait(open, b)
  <2>1. b \notin 2 .. Len(blocks)
    BY <1>4, <1>9, Zenon DEF Grows
  <2>2. \A k \in 1 .. Len(open) : FrameOK(open[k], Len(blocks))
    BY <1>2, Zenon DEF OpenOK
  <2> QED BY <2>1, <2>2, AwaitsOld, Zenon DEF NoneAwait
<1>10. Unended(blocks', open') /\ Apart(open')
  <2>1. f.kind \in Guarding => ~Terminated(blocks'[f.eval])
    BY <1>4, Zenon DEF Grows
  <2> QED BY <1>2, <1>3, <1>4, <1>8, <1>9, <2>1, Pushing
<1>11. BetweenTwigs(open') <=> kind = "branch"
  <2>1. open' # <<>> /\ open'[Len(open')] = f
    BY <1>2, <1>3, <1>4, FramesPushed
  <2> QED BY <1>4, <2>1 DEF BetweenTwigs
<1>12. kind \in Guarding => kind # "block" /\ kind # "branch"
  BY DEF Guarding
<1>13. kind \notin Guarding => kind = "block" \/ kind = "branch"
  BY DEF Guarding
<1>14. Tracked(blocks', insert', open', body')
  <2>1. CASE kind = "block"
    <3>1. kind # "branch"
      BY <2>1
    <3> QED BY <1>1, <1>6, <1>11, <1>12, <2>1, <3>1, Zenon DEF Tracked, Even, Grows
  <2>2. CASE kind = "branch"
    <3>1. kind # "block"
      BY <2>2
    <3> QED BY <1>1, <1>6, <1>11, <1>12, <2>2, <3>1, Zenon DEF Tracked, Ready, Grows
  <2>3. CASE kind \in Guarding
    BY <1>1, <1>6, <1>11, <1>12, <2>3, Zenon DEF Tracked, Even, Grows
  <2> QED BY <1>13, <2>1, <2>2, <2>3
<1> QED BY <1>1, <1>7, <1>10, <1>14, StillTidy

LEMMA OpenBlockTidy ==
  ASSUME Building, OpenBlock \/ OpenBranch
  PROVE  TidyInv'
<1>1. PICK kind \in {"block", "branch"} :
        /\ InBlock /\ UNCHANGED <<blocks, insert, phase>>
        /\ body' = Written(kind, 0, 0) /\ open' = Append(open, Opened(kind, 0, 0))
  BY DEF OpenBlock, OpenBranch
<1>2. kind \notin Guarding
  BY DEF Guarding
<1>3. Grows(kind, 0, blocks, insert, blocks', insert')
  BY <1>1, <1>2, Zenon DEF Grows
<1>4. 0 \in Nat /\ kind \in {"if", "loop", "block", "branch"} /\ phase' = phase
  BY <1>1
<1> QED BY <1>1, <1>3, <1>4, OpeningTidy, Zenon

(* A block for the condition and one behind it. *)
LEMMA GuardClean ==
  ASSUME Building, NEW n, n = Len(blocks),
         NEW bs, bs = New(Emit(New(Emit(blocks, insert, <<Br(n + 1)>>)), n + 1, <<Plain("eval", Here)>>))
  PROVE  /\ NoInner(bs) <=> NoInner(blocks) /\ ~Terminated(blocks[insert])
         /\ ~Terminated(bs[n + 1]) /\ ~Terminated(bs[n + 2])
         /\ \A b \in 2 .. n : b = insert \/ bs[b] = blocks[b]
         /\ bs \in Seq(Seq(Instruction)) /\ Len(bs) = n + 2
<1>1. /\ blocks \in Seq(Seq(Instruction)) /\ n \in Nat /\ insert \in 1 .. n /\ Here \in Nat
      /\ n + 1 \in Nat /\ insert # n + 1
  BY DEF Building
<1> DEFINE c1 == <<Br(n + 1)>>
           c2 == <<Plain("eval", Here)>>
           b1 == Emit(blocks, insert, c1)
           b2 == New(b1)
           b3 == Emit(b2, n + 1, c2)
<1>2. Piece(c1) /\ Piece(c2) /\ ~Terminated(c2)
  BY <1>1, BrPiece, PlainPiece
<1>3. bs = New(b3)
  OBVIOUS
<1> HIDE DEF c1, c2
<1>4. /\ NoInner(b1) <=> NoInner(blocks) /\ ~Terminated(blocks[insert])
      /\ \A b \in 1 .. n : b # insert => b1[b] = blocks[b]
      /\ b1 \in Seq(Seq(Instruction)) /\ Len(b1) = n
  BY <1>1, <1>2, EmitClean
<1> HIDE DEF b1
<1>5. /\ NoInner(b2) <=> NoInner(b1)
      /\ ~Terminated(b2[n + 1])
      /\ \A b \in 1 .. n : b2[b] = b1[b]
      /\ b2 \in Seq(Seq(Instruction)) /\ Len(b2) = n + 1
  BY <1>4, NewClean
<1> HIDE DEF b2
<1>6. /\ NoInner(b3) <=> NoInner(b2) /\ ~Terminated(b2[n + 1])
      /\ Terminated(b3[n + 1]) <=> Terminated(c2)
      /\ \A b \in 1 .. n + 1 : b # n + 1 => b3[b] = b2[b]
      /\ b3 \in Seq(Seq(Instruction)) /\ Len(b3) = n + 1
  <2>1. n + 1 \in 1 .. Len(b2)
    BY <1>1, <1>5
  <2>2. /\ NoInner(b3) <=> NoInner(b2) /\ ~Terminated(b2[n + 1])
        /\ Terminated(b3[n + 1]) <=> Terminated(c2)
        /\ \A b \in 1 .. Len(b2) : b # n + 1 => b3[b] = b2[b]
        /\ b3 \in Seq(Seq(Instruction)) /\ Len(b3) = Len(b2)
    BY <1>2, <1>5, <2>1, EmitClean, Zenon
  <2> QED BY <1>5, <2>2
<1> HIDE DEF b3
<1>7. /\ NoInner(bs) <=> NoInner(b3)
      /\ ~Terminated(bs[n + 1 + 1])
      /\ \A b \in 1 .. n + 1 : bs[b] = b3[b]
      /\ bs \in Seq(Seq(Instruction)) /\ Len(bs) = n + 1 + 1
  <2>1. /\ NoInner(New(b3)) <=> NoInner(b3)
        /\ ~Terminated(New(b3)[Len(b3) + 1])
        /\ \A b \in 1 .. Len(b3) : New(b3)[b] = b3[b]
        /\ New(b3) \in Seq(Seq(Instruction)) /\ Len(New(b3)) = Len(b3) + 1
    BY <1>6, NewClean
  <2> QED BY <1>3, <1>6, <2>1
<1>8. /\ n + 1 + 1 = n + 2 /\ n + 1 \in 1 .. n + 1
      /\ \A b \in 2 .. n : b \in 1 .. n /\ b \in 1 .. n + 1 /\ b # n + 1
  BY <1>1
<1>9. \A b \in 2 .. n : b = insert \/ bs[b] = blocks[b]
  BY <1>4, <1>5, <1>6, <1>7, <1>8, ZenonT(40)
<1>10. ~Terminated(bs[n + 1]) /\ ~Terminated(bs[n + 2])
  BY <1>2, <1>6, <1>7, <1>8
<1>11. NoInner(bs) <=> NoInner(blocks) /\ ~Terminated(blocks[insert])
  BY <1>4, <1>5, <1>6, <1>7
<1>12. bs \in Seq(Seq(Instruction)) /\ Len(bs) = n + 2
  BY <1>7, <1>8
<1> QED BY <1>9, <1>10, <1>11, <1>12

LEMMA OpenConditionalTidy ==
  ASSUME Building, OpenConditional
  PROVE  TidyInv'
<1>0. PICK n : n = Len(blocks)
  OBVIOUS
<1>1. /\ InBlock /\ phase' = phase /\ body' = Written("if", 0, 0)
      /\ blocks' = New(Emit(New(Emit(blocks, insert, <<Br(n + 1)>>)), n + 1, <<Plain("eval", Here)>>))
      /\ insert' = n + 2 /\ open' = Append(open, Opened("if", n + 1, n + 2))
  BY <1>0 DEF OpenConditional
<1>2. /\ NoInner(blocks') <=> NoInner(blocks) /\ ~Terminated(blocks[insert])
      /\ ~Terminated(blocks'[n + 1]) /\ ~Terminated(blocks'[n + 2])
      /\ \A b \in 2 .. n : b = insert \/ blocks'[b] = blocks[b]
  BY <1>0, <1>1, GuardClean
<1>3. n \in Nat /\ n + 1 \in Nat /\ n + 2 \in Nat /\ n + 1 \notin 2 .. n
  BY <1>0 DEF Building
<1>4. "if" \in {"if", "loop", "block", "branch"} /\ "if" \in Guarding
  BY DEF Guarding
<1>5. Grows("if", n + 1, blocks, insert, blocks', insert')
  BY <1>0, <1>1, <1>2, <1>3, <1>4, Zenon DEF Grows
<1> QED BY <1>1, <1>3, <1>4, <1>5, OpeningTidy, Zenon

LEMMA OpenLoopTidy ==
  ASSUME Building, OpenLoop
  PROVE  TidyInv'
<1>0. PICK n : n = Len(blocks)
  OBVIOUS
<1> DEFINE bs == New(Emit(New(Emit(blocks, insert, <<Br(n + 1)>>)), n + 1, <<Plain("eval", Here)>>))
           save == <<Plain("save", Here)>>
<1>1. /\ InBlock /\ phase' = phase /\ body' = Written("loop", 0, 0)
      /\ blocks' = Emit(bs, n + 2, save)
      /\ insert' = n + 2 /\ open' = Append(open, Opened("loop", n + 1, n + 2))
  BY <1>0 DEF OpenLoop
<1>2. /\ NoInner(bs) <=> NoInner(blocks) /\ ~Terminated(blocks[insert])
      /\ ~Terminated(bs[n + 1]) /\ ~Terminated(bs[n + 2])
      /\ \A b \in 2 .. n : b = insert \/ bs[b] = blocks[b]
      /\ bs \in Seq(Seq(Instruction)) /\ Len(bs) = n + 2
  BY <1>0, <1>1, GuardClean
<1>3. /\ n \in Nat /\ n + 1 \in Nat /\ n + 2 \in Nat /\ n + 1 \notin 2 .. n /\ Here \in Nat
      /\ n + 2 \in 1 .. n + 2 /\ n + 1 \in 1 .. n + 2 /\ n + 1 # n + 2
      /\ \A b \in 2 .. n : b \in 1 .. n + 2 /\ b # n + 2
  BY <1>0 DEF Building
<1>4. Piece(save) /\ ~Terminated(save)
  BY <1>3, PlainPiece
<1> HIDE DEF bs, save
<1>5. /\ NoInner(blocks') <=> NoInner(bs) /\ ~Terminated(bs[n + 2])
      /\ Terminated(blocks'[n + 2]) <=> Terminated(save)
      /\ \A b \in 1 .. n + 2 : b # n + 2 => blocks'[b] = bs[b]
  <2>1. n + 2 \in 1 .. Len(bs)
    BY <1>2, <1>3
  <2>2. PICK k : k = n + 2
    OBVIOUS
  <2>4. bs \in Seq(Seq(Instruction)) /\ k \in 1 .. Len(bs) /\ Piece(save)
    BY <1>2, <1>4, <2>1, <2>2
  <2>3. /\ NoInner(Emit(bs, k, save)) <=> NoInner(bs) /\ ~Terminated(bs[k])
        /\ Terminated(Emit(bs, k, save)[k]) <=> Terminated(save)
        /\ \A b \in 1 .. Len(bs) : b # k => Emit(bs, k, save)[b] = bs[b]
    BY <2>4, EmitClean, Zenon
  <2> QED BY <1>1, <1>2, <2>2, <2>3
<1>6. /\ NoInner(blocks') <=> NoInner(blocks) /\ ~Terminated(blocks[insert])
      /\ ~Terminated(blocks'[n + 1]) /\ ~Terminated(blocks'[n + 2])
  BY <1>2, <1>3, <1>4, <1>5, Zenon
<1>7. \A b \in 2 .. n : b = insert \/ blocks'[b] = blocks[b]
  BY <1>2, <1>3, <1>5, Zenon
<1>8. "loop" \in {"if", "loop", "block", "branch"} /\ "loop" \in Guarding
  BY DEF Guarding
<1>9. Grows("loop", n + 1, blocks, insert, blocks', insert')
  BY <1>0, <1>1, <1>3, <1>6, <1>7, <1>8, Zenon DEF Grows
<1> QED BY <1>1, <1>3, <1>8, <1>9, OpeningTidy, Zenon

(* The statement on top ends. *)
LEMMA EndLinked ==
  ASSUME Building, open # <<>>, NEW to \in 0 .. Len(body), to # 0 => Top.kind # "block",
         body' = Linked("end", to)
  PROVE  /\ Words(body', Below)
         /\ Clear(body') <=> Clear(body) /\ (to = 0 \/ ~Behind(body))
         /\ Behind(body') <=> Top.kind = "block" /\ Behind(body)
<1>1. body \in Seq(Token) /\ Words(body, open) /\ open \in Seq(Frame) /\ Nested(open)
  BY DEF Building
<1>2. PICK kind \in {"twig", "otherwise", "end"} : kind = "end"
  OBVIOUS
<1>3. PICK v : v = Linked(kind, to)
  OBVIOUS
<1>4. /\ Words(v, Below)
      /\ Clear(v) <=> Clear(body) /\ (to = 0 \/ ~Behind(body))
      /\ Behind(v) <=> kind = "end" /\ Top.kind = "block" /\ Behind(body)
  BY <1>1, <1>2, <1>3, Linking
<1> QED BY <1>2, <1>3, <1>4

LEMMA ClosingTidy ==
  ASSUME Building, open # <<>>, phase' = "build", Words(body', Below), open' = Below,
         \A b \in 2 .. Len(blocks) : b = insert \/ Awaits(Top, b) \/ blocks'[b] = blocks[b],
         Even(blocks', insert', body')
  PROVE  TidyInv'
<1>1. /\ open \in Seq(Frame) /\ OpenOK(open, Len(blocks)) /\ NoneAwait(open, insert)
      /\ Nested(open) /\ Unended(blocks, open) /\ Apart(open)
  BY DEF Building
<1>2. Unended(blocks', Below) /\ Apart(Below)
  BY <1>1, Popping
<1>3. ~BetweenTwigs(Below)
  BY <1>1, FramesPopped DEF BetweenTwigs
<1>4. Tracked(blocks', insert', Below, body')
  BY <1>3 DEF Tracked
<1> QED BY <1>2, <1>4, StillTidy

LEMMA CloseBlockTidy ==
  ASSUME Building, CloseBlock
  PROVE  TidyInv'
<1>1. InBlockOf("block") /\ body' = Linked("end", 0) /\ open' = Below
      /\ UNCHANGED <<blocks, insert, phase>>
  BY DEF CloseBlock
<1>2. /\ phase = "build" /\ open # <<>> /\ Top.kind = "block"
      /\ NoInner(blocks) <=> Clear(body)
      /\ Terminated(blocks[insert]) <=> Behind(body)
  BY <1>1, InBlockOfEven
<1>3. 0 \in 0 .. Len(body)
  BY DEF Building
<1>4. /\ Words(body', Below)
      /\ Clear(body') <=> Clear(body)
      /\ Behind(body') <=> Behind(body)
  BY <1>1, <1>2, <1>3, EndLinked
<1>5. Even(blocks', insert', body')
  BY <1>1, <1>2, <1>4 DEF Even
<1> QED BY <1>1, <1>2, <1>4, <1>5, ClosingTidy

LEMMA CloseConditionalTidy ==
  ASSUME Building, CloseConditional
  PROVE  TidyInv'
<1>0. PICK n, e, i : n = Len(blocks) /\ e = Top.eval /\ i = insert
  OBVIOUS
<1> DEFINE c1 == <<Br(n + 1)>>
           c2 == <<CondBr(Top.at, Top.start, n + 1)>>
           b1 == New(blocks)
           b2 == EmitIfOpen(b1, i, c1)
           b3 == Emit(b2, e, c2)
<1>1. /\ InBlockOf("if") /\ phase' = phase /\ body' = Linked("end", 0)
      /\ blocks' = b3 /\ insert' = n + 1 /\ open' = Below
  BY <1>0 DEF CloseConditional
<1>2. /\ phase = "build" /\ open # <<>> /\ Top.kind = "if"
      /\ NoInner(blocks) <=> Clear(body)
  BY <1>1, InBlockOfEven
<1>3. /\ blocks \in Seq(Seq(Instruction)) /\ n \in Nat /\ i \in 2 .. n /\ 0 \in 0 .. Len(body)
  BY <1>0 DEF Building
<1>4. /\ Top.at \in Nat /\ Top.start \in 2 .. n /\ e \in 2 .. n /\ e # i
      /\ ~Terminated(blocks[e]) /\ Awaits(Top, e)
  BY <1>0, <1>2, TopKnown, EvalAwaited DEF Guarding
<1>5. /\ n + 1 \in Nat /\ Top.start \in Nat /\ i \in 1 .. n + 1 /\ e \in 1 .. n + 1
      /\ n + 1 \in 1 .. n + 1 /\ n + 1 # i /\ n + 1 # e /\ e \in 1 .. n
      /\ \A b \in 2 .. n : b \in 1 .. n /\ b \in 1 .. n + 1
  BY <1>3, <1>4
<1>6. Piece(c1) /\ Piece(c2)
  BY <1>4, <1>5, BrPiece, CondBrPiece
<1> HIDE DEF c1, c2
<1>7. /\ NoInner(b1) <=> NoInner(blocks)
      /\ ~Terminated(b1[n + 1])
      /\ \A b \in 1 .. n : b1[b] = blocks[b]
      /\ b1 \in Seq(Seq(Instruction)) /\ Len(b1) = n + 1
  BY <1>0, <1>3, NewClean
<1> HIDE DEF b1
<1>8. /\ NoInner(b2) <=> NoInner(b1)
      /\ \A b \in 1 .. n + 1 : b # i => b2[b] = b1[b]
      /\ b2 \in Seq(Seq(Instruction)) /\ Len(b2) = n + 1
  <2>1. b1 \in Seq(Seq(Instruction)) /\ i \in 1 .. Len(b1)
    BY <1>5, <1>7
  <2>2. /\ NoInner(b2) <=> NoInner(b1)
        /\ \A b \in 1 .. Len(b1) : b # i => b2[b] = b1[b]
        /\ b2 \in Seq(Seq(Instruction)) /\ Len(b2) = Len(b1)
    BY <1>6, <2>1, EmitIfOpenClean, Zenon
  <2> QED BY <1>7, <2>2
<1> HIDE DEF b2
<1>9. /\ NoInner(b3) <=> NoInner(b2) /\ ~Terminated(b2[e])
      /\ \A b \in 1 .. n + 1 : b # e => b3[b] = b2[b]
  <2>1. b2 \in Seq(Seq(Instruction)) /\ e \in 1 .. Len(b2)
    BY <1>5, <1>8
  <2>2. /\ NoInner(b3) <=> NoInner(b2) /\ ~Terminated(b2[e])
        /\ \A b \in 1 .. Len(b2) : b # e => b3[b] = b2[b]
    BY <1>6, <2>1, EmitClean, Zenon
  <2> QED BY <1>8, <2>2
<1> HIDE DEF b3
<1>10. ~Terminated(b2[e]) /\ ~Terminated(b3[n + 1])
  BY <1>4, <1>5, <1>7, <1>8, <1>9, Zenon
<1>11. \A b \in 2 .. n : b = i \/ Awaits(Top, b) \/ b3[b] = blocks[b]
  BY <1>4, <1>5, <1>7, <1>8, <1>9, Zenon
<1>12. /\ Words(body', Below)
       /\ Clear(body') <=> Clear(body)
       /\ ~Behind(body')
  BY <1>1, <1>2, <1>3, EndLinked
<1>13. Even(blocks', insert', body')
  BY <1>1, <1>2, <1>7, <1>8, <1>9, <1>10, <1>12, Zenon DEF Even
<1>14. \A b \in 2 .. Len(blocks) : b = insert \/ Awaits(Top, b) \/ blocks'[b] = blocks[b]
  BY <1>0, <1>1, <1>11, Zenon
<1> QED BY <1>1, <1>2, <1>12, <1>13, <1>14, ClosingTidy, Zenon

LEMMA CloseLoopTidy ==
  ASSUME Building, CloseLoop
  PROVE  TidyInv'
<1>0. PICK n, e, i, a : n = Len(blocks) /\ e = Top.eval /\ i = insert /\ a = Top.at
  OBVIOUS
<1> DEFINE c1 == RestoreRound
           c2 == <<Br(n + 1)>>
           c3 == <<Br(e)>>
           c4 == <<CondBr(a, Top.start, n + 2)>>
           b1 == Emit(blocks, i, c1)
           b2 == New(b1)
           b3 == EmitIfOpen(b2, i, c2)
           b4 == Emit(b3, n + 1, c3)
           b5 == New(b4)
           b6 == Emit(b5, e, c4)
<1>1. /\ InBlockOf("loop") /\ phase' = phase /\ body' = Linked("end", a)
      /\ blocks' = b6 /\ insert' = n + 2 /\ open' = Below
  BY <1>0 DEF CloseLoop
<1>2. /\ phase = "build" /\ open # <<>> /\ Top.kind = "loop"
      /\ NoInner(blocks) <=> Clear(body)
      /\ Terminated(blocks[i]) <=> Behind(body)
  BY <1>0, <1>1, InBlockOfEven
<1>3. /\ blocks \in Seq(Seq(Instruction)) /\ n \in Nat /\ i \in 2 .. n
  BY <1>0 DEF Building
<1>4. /\ a \in 1 .. Len(body) /\ a \in Nat /\ Top.start \in 2 .. n /\ e \in 2 .. n /\ e # i
      /\ ~Terminated(blocks[e]) /\ Awaits(Top, e)
  BY <1>0, <1>2, TopKnown, EvalAwaited DEF Guarding
<1>5. /\ n + 1 \in Nat /\ n + 2 \in Nat /\ Top.start \in Nat /\ e \in Nat
      /\ i \in 1 .. n /\ i \in 1 .. n + 1 /\ e \in 1 .. n /\ e \in 1 .. n + 1 /\ e \in 1 .. n + 2
      /\ n + 1 \in 1 .. n + 1 /\ n + 2 \in 1 .. n + 2 /\ n + 1 + 1 = n + 2
      /\ n + 1 # i /\ n + 1 # e /\ n + 2 # e
      /\ \A b \in 2 .. n : b \in 1 .. n /\ b \in 1 .. n + 1 /\ b \in 1 .. n + 2 /\ b # n + 1
  BY <1>3, <1>4
<1>6. Piece(c1) /\ Piece(c2) /\ Piece(c3) /\ Piece(c4)
  <2>1. Piece(c1)
    BY <1>0, <1>4, PlainPiece DEF RestoreRound
  <2>2. Piece(c2) /\ Piece(c3)
    BY <1>5, BrPiece
  <2>3. Piece(c4)
    BY <1>4, <1>5, CondBrPiece
  <2> QED BY <2>1, <2>2, <2>3
<1> HIDE DEF c1, c2, c3, c4
<1>7. /\ NoInner(b1) <=> NoInner(blocks) /\ ~Terminated(blocks[i])
      /\ \A b \in 1 .. n : b # i => b1[b] = blocks[b]
      /\ b1 \in Seq(Seq(Instruction)) /\ Len(b1) = n
  <2>1. i \in 1 .. Len(blocks)
    BY <1>0, <1>5
  <2>2. /\ NoInner(b1) <=> NoInner(blocks) /\ ~Terminated(blocks[i])
        /\ \A b \in 1 .. Len(blocks) : b # i => b1[b] = blocks[b]
        /\ b1 \in Seq(Seq(Instruction)) /\ Len(b1) = Len(blocks)
    BY <1>3, <1>6, <2>1, EmitClean, Zenon
  <2> QED BY <1>0, <2>2
<1> HIDE DEF b1
<1>8. /\ NoInner(b2) <=> NoInner(b1)
      /\ ~Terminated(b2[n + 1])
      /\ \A b \in 1 .. n : b2[b] = b1[b]
      /\ b2 \in Seq(Seq(Instruction)) /\ Len(b2) = n + 1
  BY <1>7, NewClean
<1> HIDE DEF b2
<1>9. /\ NoInner(b3) <=> NoInner(b2)
      /\ \A b \in 1 .. n + 1 : b # i => b3[b] = b2[b]
      /\ b3 \in Seq(Seq(Instruction)) /\ Len(b3) = n + 1
  <2>1. b2 \in Seq(Seq(Instruction)) /\ i \in 1 .. Len(b2)
    BY <1>5, <1>8
  <2>2. /\ NoInner(b3) <=> NoInner(b2)
        /\ \A b \in 1 .. Len(b2) : b # i => b3[b] = b2[b]
        /\ b3 \in Seq(Seq(Instruction)) /\ Len(b3) = Len(b2)
    BY <1>6, <2>1, EmitIfOpenClean, Zenon
  <2> QED BY <1>8, <2>2
<1> HIDE DEF b3
<1>10. /\ NoInner(b4) <=> NoInner(b3) /\ ~Terminated(b3[n + 1])
       /\ \A b \in 1 .. n + 1 : b # n + 1 => b4[b] = b3[b]
       /\ b4 \in Seq(Seq(Instruction)) /\ Len(b4) = n + 1
  <2>1. PICK k : k = n + 1
    OBVIOUS
  <2>2. b3 \in Seq(Seq(Instruction)) /\ k \in 1 .. Len(b3) /\ Piece(c3)
    BY <1>5, <1>6, <1>9, <2>1
  <2>3. /\ NoInner(Emit(b3, k, c3)) <=> NoInner(b3) /\ ~Terminated(b3[k])
        /\ \A b \in 1 .. Len(b3) : b # k => Emit(b3, k, c3)[b] = b3[b]
        /\ Emit(b3, k, c3) \in Seq(Seq(Instruction)) /\ Len(Emit(b3, k, c3)) = Len(b3)
    BY <2>2, EmitClean, Zenon
  <2> QED BY <1>9, <2>1, <2>3
<1> HIDE DEF b4
<1>11. /\ NoInner(b5) <=> NoInner(b4)
       /\ ~Terminated(b5[n + 2])
       /\ \A b \in 1 .. n + 1 : b5[b] = b4[b]
       /\ b5 \in Seq(Seq(Instruction)) /\ Len(b5) = n + 2
  <2>1. /\ NoInner(b5) <=> NoInner(b4)
        /\ ~Terminated(b5[Len(b4) + 1])
        /\ \A b \in 1 .. Len(b4) : b5[b] = b4[b]
        /\ b5 \in Seq(Seq(Instruction)) /\ Len(b5) = Len(b4) + 1
    BY <1>10, NewClean
  <2> QED BY <1>5, <1>10, <2>1
<1> HIDE DEF b5
<1>12. /\ NoInner(b6) <=> NoInner(b5) /\ ~Terminated(b5[e])
       /\ \A b \in 1 .. n + 2 : b # e => b6[b] = b5[b]
  <2>1. b5 \in Seq(Seq(Instruction)) /\ e \in 1 .. Len(b5)
    BY <1>5, <1>11
  <2>2. /\ NoInner(b6) <=> NoInner(b5) /\ ~Terminated(b5[e])
        /\ \A b \in 1 .. Len(b5) : b # e => b6[b] = b5[b]
    BY <1>6, <2>1, EmitClean, Zenon
  <2> QED BY <1>11, <2>2
<1> HIDE DEF b6
<1>13. \A b \in 2 .. n : b # i => b5[b] = blocks[b]
  <2> SUFFICES ASSUME NEW b \in 2 .. n, b # i PROVE b5[b] = blocks[b]
    OBVIOUS
  <2>1. b \in 1 .. n /\ b \in 1 .. n + 1 /\ b # n + 1
    BY <1>5
  <2>2. b2[b] = b1[b] /\ b1[b] = blocks[b]
    BY <1>7, <1>8, <2>1, Zenon
  <2>3. b5[b] = b4[b] /\ b4[b] = b3[b] /\ b3[b] = b2[b]
    BY <1>9, <1>10, <1>11, <2>1, Zenon
  <2> QED BY <2>2, <2>3
<1>14. ~Terminated(b3[n + 1]) /\ ~Terminated(b5[e]) /\ ~Terminated(b6[n + 2])
  <2>1. ~Terminated(b3[n + 1])
    BY <1>5, <1>8, <1>9, Zenon
  <2>2. ~Terminated(b5[e])
    BY <1>4, <1>13, Zenon
  <2>3. ~Terminated(b6[n + 2])
    BY <1>5, <1>11, <1>12, Zenon
  <2> QED BY <2>1, <2>2, <2>3
<1>15. \A b \in 2 .. n : b = i \/ Awaits(Top, b) \/ b6[b] = blocks[b]
  BY <1>4, <1>5, <1>12, <1>13, Zenon
<1>16. NoInner(b6) <=> NoInner(blocks) /\ ~Terminated(blocks[i])
  BY <1>7, <1>8, <1>9, <1>10, <1>11, <1>12, <1>14
<1>17. /\ Words(body', Below)
       /\ Clear(body') <=> Clear(body) /\ ~Behind(body)
       /\ ~Behind(body')
  <2>1. a \in 0 .. Len(body) /\ a # 0 /\ Top.kind # "block"
    BY <1>2, <1>4
  <2> QED BY <1>1, <1>2, <2>1, EndLinked
<1>18. Even(blocks', insert', body')
  BY <1>1, <1>2, <1>14, <1>16, <1>17, Zenon DEF Even
<1>19. \A b \in 2 .. Len(blocks) : b = insert \/ Awaits(Top, b) \/ blocks'[b] = blocks[b]
  BY <1>0, <1>1, <1>15, Zenon
<1> QED BY <1>1, <1>2, <1>17, <1>18, <1>19, ClosingTidy, Zenon

(* A frame takes the place of the one on top; it awaits what that one awaited, or the        *)
(* current block.                                                                            *)
LEMMA ReplacingTidy ==
  ASSUME Building, open # <<>>, phase' = "build", Words(body', Below),
         NEW f \in Frame, open' = Append(Below, f),
         f.at \in 1 .. Len(body'), body'[f.at].to = 0, body'[f.at].kind = "block" <=> f.kind = "block",
         \A b : Awaits(f, b) => b = insert \/ Awaits(Top, b),
         f.kind \in Guarding => ~Terminated(blocks'[f.eval]),
         \A b \in 2 .. Len(blocks) : b = insert \/ Awaits(Top, b) \/ blocks'[b] = blocks[b],
         f.kind = "branch" => Ready(blocks', insert', body'),
         f.kind # "branch" => Even(blocks', insert', body')
  PROVE  TidyInv'
<1>1. /\ open \in Seq(Frame) /\ OpenOK(open, Len(blocks)) /\ NoneAwait(open, insert)
      /\ Nested(open) /\ Unended(blocks, open) /\ Apart(open)
  BY DEF Building
<1>2. /\ Unended(blocks', Below) /\ Apart(Below) /\ NoneAwait(Below, insert)
      /\ \A b : Awaits(Top, b) => NoneAwait(Below, b)
  BY <1>1, Popping
<1>3. Below \in Seq(Frame)
  BY <1>1, FramesPopped
<1>4. \A b : Awaits(f, b) => NoneAwait(Below, b)
  BY <1>2, Zenon
<1>5. Unended(blocks', open') /\ Apart(open')
  BY <1>2, <1>3, <1>4, Pushing
<1>6. Words(body', open')
  BY <1>3, WordsPushed
<1>7. BetweenTwigs(open') <=> f.kind = "branch"
  <2>1. open' # <<>> /\ open'[Len(open')] = f
    BY <1>3, FramesPushed
  <2> QED BY <2>1 DEF BetweenTwigs
<1>8. Tracked(blocks', insert', open', body')
  BY <1>7, Zenon DEF Tracked
<1> QED BY <1>5, <1>6, <1>8, StillTidy

LEMMA CloseTwigTidy ==
  ASSUME Building, CloseTwig
  PROVE  TidyInv'
<1>0. PICK n, e, i : n = Len(blocks) /\ e = Top.eval /\ i = insert
  OBVIOUS
<1> DEFINE c2 == <<CondBr(Top.at, Top.start, n + 1)>>
           b1 == New(blocks)
           b2 == Emit(b1, e, c2)
           f == [Top EXCEPT !.kind = "branch", !.dones = @ \cup {insert}]
<1>1. /\ InBlockOf("twig") /\ phase' = phase /\ body' = body
      /\ blocks' = b2 /\ insert' = n + 1 /\ open' = Append(Below, f)
  BY <1>0 DEF CloseTwig
<1>2. /\ phase = "build" /\ open # <<>> /\ Top.kind = "twig"
      /\ NoInner(blocks) <=> Clear(body)
  BY <1>1, InBlockOfEven
<1>3. /\ blocks \in Seq(Seq(Instruction)) /\ n \in Nat /\ i \in 2 .. n
      /\ Words(body, open) /\ open \in Seq(Frame) /\ Nested(open)
  BY <1>0 DEF Building
<1>4. /\ Top.at \in Nat /\ Top.start \in 2 .. n /\ e \in 2 .. n
      /\ ~Terminated(blocks[e]) /\ Awaits(Top, e) /\ Top \in Frame
      /\ Top.at \in 1 .. Len(body) /\ body[Top.at].to = 0 /\ body[Top.at].kind # "block"
  BY <1>0, <1>2, TopKnown, EvalAwaited DEF Guarding
<1>5. /\ n + 1 \in Nat /\ Top.start \in Nat /\ i \in Nat /\ e \in 1 .. n + 1 /\ e \in 1 .. n
      /\ n + 1 \in 1 .. n + 1 /\ n + 1 # e
      /\ \A b \in 2 .. n : b \in 1 .. n /\ b \in 1 .. n + 1
  BY <1>3, <1>4
<1>6. Piece(c2)
  BY <1>4, <1>5, CondBrPiece
<1>7. f \in Frame /\ f.kind = "branch" /\ f.dones = Top.dones \cup {i} /\ f.at = Top.at
  <2>1. f.at = Top.at
    BY <1>4 DEF Frame
  <2> QED BY <1>0, <1>4, <1>5, <2>1, TwigDone
<1> HIDE DEF c2, f
<1>8. /\ NoInner(b1) <=> NoInner(blocks)
      /\ ~Terminated(b1[n + 1])
      /\ \A b \in 1 .. n : b1[b] = blocks[b]
      /\ b1 \in Seq(Seq(Instruction)) /\ Len(b1) = n + 1
  BY <1>0, <1>3, NewClean
<1> HIDE DEF b1
<1>9. /\ NoInner(b2) <=> NoInner(b1) /\ ~Terminated(b1[e])
      /\ \A b \in 1 .. n + 1 : b # e => b2[b] = b1[b]
  <2>1. b1 \in Seq(Seq(Instruction)) /\ e \in 1 .. Len(b1)
    BY <1>5, <1>8
  <2>2. /\ NoInner(b2) <=> NoInner(b1) /\ ~Terminated(b1[e])
        /\ \A b \in 1 .. Len(b1) : b # e => b2[b] = b1[b]
    BY <1>6, <2>1, EmitClean, Zenon
  <2> QED BY <1>8, <2>2
<1> HIDE DEF b2
<1>10. ~Terminated(b1[e]) /\ ~Terminated(b2[n + 1])
  BY <1>4, <1>5, <1>8, <1>9, Zenon
<1>11. \A b \in 2 .. Len(blocks) : b = insert \/ Awaits(Top, b) \/ blocks'[b] = blocks[b]
  BY <1>0, <1>1, <1>4, <1>5, <1>8, <1>9, Zenon
<1>12. Words(body', Below)
  <2>1. \A k \in 1 .. Len(Below) : Below[k] = open[k] /\ k \in 1 .. Len(open)
    BY <1>2, <1>3, FramesPopped
  <2> QED BY <1>1, <1>3, <2>1, Zenon DEF Words
<1>13. f.kind \notin Guarding /\ f.kind # "block"
  BY <1>7 DEF Guarding
<1>14. \A b : Awaits(f, b) => b = insert \/ Awaits(Top, b)
  BY <1>0, <1>7, <1>13 DEF Awaits
<1>15. Ready(blocks', insert', body')
  BY <1>1, <1>2, <1>8, <1>9, <1>10, Zenon DEF Ready
<1>16. /\ f.at \in 1 .. Len(body') /\ body'[f.at].to = 0
       /\ body'[f.at].kind = "block" <=> f.kind = "block"
  BY <1>1, <1>4, <1>7, <1>13
<1> QED BY <1>1, <1>2, <1>7, <1>11, <1>12, <1>13, <1>14, <1>15, <1>16, ReplacingTidy, Zenon

LEMMA NextLinked ==
  ASSUME Building, open # <<>>, NEW kind \in {"twig", "otherwise"}, body' = Linked(kind, 0)
  PROVE  /\ Words(body', Below)
         /\ body'[Here].kind = kind /\ body'[Here].to = 0 /\ Here \in 1 .. Len(body')
         /\ Clear(body') <=> Clear(body)
         /\ ~Behind(body')
<1>1. body \in Seq(Token) /\ Words(body, open) /\ open \in Seq(Frame) /\ Nested(open)
  BY DEF Building
<1>2. PICK k \in {"twig", "otherwise", "end"}, to \in 0 .. Len(body) : k = kind /\ to = 0
  BY <1>1
<1>3. PICK v : v = Linked(k, to)
  OBVIOUS
<1>4. /\ Words(v, Below)
      /\ v[Here].kind = k /\ v[Here].to = to /\ Here \in 1 .. Len(v)
      /\ Clear(v) <=> Clear(body) /\ (to = 0 \/ ~Behind(body))
      /\ Behind(v) <=> k = "end" /\ Top.kind = "block" /\ Behind(body)
  BY <1>1, <1>2, <1>3, Linking
<1>5. kind # "end"
  OBVIOUS
<1> QED BY <1>2, <1>3, <1>4, <1>5

(* A twig or an "otherwise" begins. *)
LEMMA NextTidy ==
  ASSUME Building, Between, phase' = phase, NEW n, n = Len(blocks),
         NEW kind \in {"twig", "otherwise"}, body' = Linked(kind, 0),
         NEW code, Piece(code), kind = "twig" => ~Terminated(code),
         blocks' = Emit(New(blocks), insert, code), insert' = n + 1,
         NEW f \in Frame, f.kind = kind, f.at = Here, kind = "twig" => f.eval = insert,
         \A b : Awaits(f, b) => b = insert \/ Awaits(Top, b),
         open' = Append(Below, f)
  PROVE  TidyInv'
<1>1. /\ phase = "build" /\ open # <<>>
      /\ NoInner(blocks) /\ ~Terminated(blocks[insert]) <=> Clear(body)
  BY BetweenReady
<1>2. /\ blocks \in Seq(Seq(Instruction)) /\ n \in Nat /\ insert \in 2 .. n
      /\ body \in Seq(Token) /\ Words(body, open) /\ open \in Seq(Frame) /\ Nested(open)
  BY DEF Building
<1>3. PICK p, cs : p = insert /\ cs = New(blocks)
  OBVIOUS
<1>4. /\ NoInner(cs) <=> NoInner(blocks)
      /\ ~Terminated(cs[n + 1])
      /\ \A b \in 1 .. n : cs[b] = blocks[b]
      /\ cs \in Seq(Seq(Instruction)) /\ Len(cs) = n + 1
  BY <1>2, <1>3, NewClean
<1>5. /\ p \in 1 .. Len(cs) /\ p \in 1 .. n /\ n + 1 \in 1 .. Len(cs) /\ n + 1 # p
      /\ \A b \in 2 .. n : b \in 1 .. n /\ b \in 1 .. Len(cs)
  BY <1>2, <1>3, <1>4
<1>6. /\ NoInner(Emit(cs, p, code)) <=> NoInner(cs) /\ ~Terminated(cs[p])
      /\ Terminated(Emit(cs, p, code)[p]) <=> Terminated(code)
      /\ \A b \in 1 .. Len(cs) : b # p => Emit(cs, p, code)[b] = cs[b]
  <2>1. cs \in Seq(Seq(Instruction)) /\ p \in 1 .. Len(cs) /\ Piece(code)
    BY <1>4, <1>5
  <2> QED BY <2>1, EmitClean
<1>7. blocks' = Emit(cs, p, code)
  BY <1>3
<1>8. /\ NoInner(blocks') <=> Clear(body)
      /\ ~Terminated(blocks'[insert'])
      /\ kind = "twig" => ~Terminated(blocks'[insert])
  <2>1. NoInner(blocks') <=> Clear(body)
    BY <1>1, <1>3, <1>4, <1>5, <1>6, <1>7, Zenon
  <2>2. ~Terminated(blocks'[n + 1])
    BY <1>4, <1>5, <1>6, <1>7, Zenon
  <2>3. kind = "twig" => ~Terminated(blocks'[insert])
    BY <1>3, <1>6, <1>7, Zenon
  <2> QED BY <2>1, <2>2, <2>3
<1>9. \A b \in 2 .. Len(blocks) : b = insert \/ Awaits(Top, b) \/ blocks'[b] = blocks[b]
  BY <1>3, <1>4, <1>5, <1>6, <1>7, Zenon
<1>10. /\ Words(body', Below)
       /\ body'[Here].kind = kind /\ body'[Here].to = 0 /\ Here \in 1 .. Len(body')
       /\ Clear(body') <=> Clear(body)
       /\ ~Behind(body')
  BY <1>1, NextLinked
<1>11. f.kind # "branch" /\ f.kind # "block" /\ (f.kind \in Guarding => kind = "twig")
  BY DEF Guarding
<1>12. Even(blocks', insert', body')
  BY <1>8, <1>10, Zenon DEF Even
<1>13. f.kind \in Guarding => ~Terminated(blocks'[f.eval])
  BY <1>8, <1>11
<1>14. /\ f.at \in 1 .. Len(body') /\ body'[f.at].to = 0
       /\ body'[f.at].kind = "block" <=> f.kind = "block"
  BY <1>10
<1> QED BY <1>1, <1>9, <1>10, <1>11, <1>12, <1>13, <1>14, ReplacingTidy, Zenon

LEMMA OpenTwigTidy ==
  ASSUME Building, OpenTwig
  PROVE  TidyInv'
<1> DEFINE n == Len(blocks)
           code == <<Plain("eval", Here)>>
           f == [Opened("twig", insert, n + 1) EXCEPT !.dones = Top.dones]
<1>1. /\ Between /\ phase' = phase /\ body' = Linked("twig", 0)
      /\ blocks' = Emit(New(blocks), insert, code) /\ insert' = n + 1
      /\ open' = Append(Below, f)
  BY DEF OpenTwig
<1>2. n \in Nat /\ n + 1 \in Nat /\ insert \in Nat /\ Here \in Nat
  BY DEF Building
<1>3. Piece(code) /\ ~Terminated(code)
  BY <1>2, PlainPiece
<1>4. Top.dones \subseteq Nat
  <2>1. Top \in Frame
    BY <1>1, TopKnown DEF Between
  <2> QED BY <2>1 DEF Frame
<1>5. f = [kind |-> "twig", at |-> Here, eval |-> insert, start |-> n + 1, dones |-> Top.dones]
  BY DEF Opened
<1> HIDE DEF f, n, code
<1>6. /\ f \in Frame /\ f.kind = "twig" /\ f.at = Here /\ f.eval = insert
      /\ f.dones = Top.dones
  BY <1>2, <1>4, <1>5 DEF Frame
<1>7. \A b : Awaits(f, b) => b = insert \/ Awaits(Top, b)
  BY <1>6, Zenon DEF Awaits
<1> QED BY <1>1, <1>3, <1>6, <1>7, NextTidy DEF n

LEMMA OpenOtherwiseTidy ==
  ASSUME Building, OpenOtherwise
  PROVE  TidyInv'
<1> DEFINE n == Len(blocks)
           code == <<Br(n + 1)>>
           f == [Opened("otherwise", 0, 0) EXCEPT !.dones = Top.dones]
<1>1. /\ Between /\ phase' = phase /\ body' = Linked("otherwise", 0)
      /\ blocks' = Emit(New(blocks), insert, code) /\ insert' = n + 1
      /\ open' = Append(Below, f)
  BY DEF OpenOtherwise
<1>2. n \in Nat /\ n + 1 \in Nat /\ Here \in Nat
  BY DEF Building
<1>3. Piece(code)
  BY <1>2, BrPiece
<1>4. Top.dones \subseteq Nat
  <2>1. Top \in Frame
    BY <1>1, TopKnown DEF Between
  <2> QED BY <2>1 DEF Frame
<1>5. f = [kind |-> "otherwise", at |-> Here, eval |-> 0, start |-> 0, dones |-> Top.dones]
  BY DEF Opened
<1> HIDE DEF f, n, code
<1>6. /\ f \in Frame /\ f.kind = "otherwise" /\ f.at = Here
      /\ f.dones = Top.dones
  BY <1>2, <1>4, <1>5 DEF Frame
<1>7. \A b : Awaits(f, b) => b = insert \/ Awaits(Top, b)
  <2>1. f.kind \notin Guarding
    BY <1>6 DEF Guarding
  <2> QED BY <1>6, <2>1, Zenon DEF Awaits
<1> QED BY <1>1, <1>3, <1>6, <1>7, NextTidy DEF n

LEMMA CloseBranchTidy ==
  ASSUME Building, CloseBranch
  PROVE  TidyInv'
<1>1. /\ Between /\ phase' = phase /\ body' = Linked("end", 0)
      /\ blocks' = Joined(blocks, Top.dones, insert)
      /\ insert' = Len(blocks) + 1 /\ open' = Below
  BY DEF CloseBranch
<1>2. /\ phase = "build" /\ open # <<>> /\ Top.kind = "branch"
      /\ NoInner(blocks) /\ ~Terminated(blocks[insert]) <=> Clear(body)
  BY <1>1, BetweenReady
<1>3. /\ blocks \in Seq(Seq(Instruction)) /\ insert \in 1 .. Len(blocks) /\ 0 \in 0 .. Len(body)
      /\ \A b \in 2 .. Len(blocks) : b \in 1 .. Len(blocks)
  BY DEF Building
<1>4. /\ NoInner(blocks') <=> NoInner(blocks) /\ ~Terminated(blocks[insert])
      /\ ~Terminated(blocks'[Len(blocks) + 1])
      /\ \A i \in 1 .. Len(blocks) : i # insert /\ i \notin Top.dones => blocks'[i] = blocks[i]
  <2>1. PICK d : d = Top.dones
    OBVIOUS
  <2>2. blocks \in Seq(Seq(Instruction)) /\ insert \in 1 .. Len(blocks)
    BY <1>3
  <2>3. /\ NoInner(Joined(blocks, d, insert)) <=> NoInner(blocks) /\ ~Terminated(blocks[insert])
        /\ ~Terminated(Joined(blocks, d, insert)[Len(blocks) + 1])
        /\ \A q \in 1 .. Len(blocks) :
              q # insert /\ q \notin d => Joined(blocks, d, insert)[q] = blocks[q]
    BY <2>2, JoinedClean, Zenon
  <2>4. blocks' = Joined(blocks, d, insert)
    BY <1>1, <2>1
  <2> QED BY <2>1, <2>3, <2>4, Zenon
<1>5. \A b \in 2 .. Len(blocks) : b = insert \/ Awaits(Top, b) \/ blocks'[b] = blocks[b]
  BY <1>3, <1>4, Zenon DEF Awaits
<1>6. /\ Words(body', Below)
      /\ Clear(body') <=> Clear(body)
      /\ ~Behind(body')
  BY <1>1, <1>2, <1>3, EndLinked
<1>7. Even(blocks', insert', body')
  BY <1>1, <1>2, <1>4, <1>6, Zenon DEF Even
<1> QED BY <1>1, <1>2, <1>5, <1>6, <1>7, ClosingTidy, Zenon

LEMMA CloseOtherwiseTidy ==
  ASSUME Building, CloseOtherwise
  PROVE  TidyInv'
<1>0. PICK n, m, bs, dones :
        n = Len(blocks) /\ m = n + 1 /\ bs = New(blocks) /\ dones = Top.dones \cup {insert}
  OBVIOUS
<1>1. /\ InBlockOf("otherwise") /\ phase' = phase /\ body' = Linked("end", 0)
      /\ blocks' = Joined(bs, dones, m) /\ insert' = n + 2 /\ open' = Below
  BY <1>0 DEF CloseOtherwise
<1>2. /\ phase = "build" /\ open # <<>> /\ Top.kind = "otherwise"
      /\ NoInner(blocks) <=> Clear(body)
  BY <1>1, InBlockOfEven
<1>3. /\ blocks \in Seq(Seq(Instruction)) /\ n \in Nat /\ 0 \in 0 .. Len(body)
  BY <1>0 DEF Building
<1>4. /\ NoInner(bs) <=> NoInner(blocks)
      /\ ~Terminated(bs[m])
      /\ \A b \in 1 .. n : bs[b] = blocks[b]
      /\ bs \in Seq(Seq(Instruction)) /\ Len(bs) = m
  BY <1>0, <1>3, NewClean
<1>5. /\ m \in 1 .. Len(bs) /\ m + 1 = n + 2
      /\ \A b \in 2 .. n : b \in 1 .. n /\ b \in 1 .. m /\ b # m
  BY <1>0, <1>3, <1>4
<1>6. /\ NoInner(blocks') <=> NoInner(bs) /\ ~Terminated(bs[m])
      /\ ~Terminated(blocks'[m + 1])
      /\ \A i \in 1 .. m : i # m /\ i \notin dones => blocks'[i] = bs[i]
  <2>1. bs \in Seq(Seq(Instruction)) /\ m \in 1 .. Len(bs)
    BY <1>4, <1>5
  <2>2. /\ NoInner(Joined(bs, dones, m)) <=> NoInner(bs) /\ ~Terminated(bs[m])
        /\ ~Terminated(Joined(bs, dones, m)[Len(bs) + 1])
        /\ \A i \in 1 .. Len(bs) : i # m /\ i \notin dones => Joined(bs, dones, m)[i] = bs[i]
    BY <2>1, JoinedClean, Zenon
  <2> QED BY <1>1, <1>4, <2>2
<1>7. \A b \in dones : b = insert \/ Awaits(Top, b)
  BY <1>0 DEF Awaits
<1>8. \A b \in 2 .. Len(blocks) : b = insert \/ Awaits(Top, b) \/ blocks'[b] = blocks[b]
  BY <1>0, <1>4, <1>5, <1>6, <1>7, Zenon
<1>9. /\ Words(body', Below)
      /\ Clear(body') <=> Clear(body)
      /\ ~Behind(body')
  BY <1>1, <1>2, <1>3, EndLinked
<1>10. Even(blocks', insert', body')
  BY <1>1, <1>2, <1>4, <1>5, <1>6, <1>9 DEF Even
<1> QED BY <1>1, <1>2, <1>8, <1>9, <1>10, ClosingTidy, Zenon

LEMMA FinishTidy ==
  ASSUME Building, FinishFunction
  PROVE  TidyInv'
<1>1. /\ phase = "build" /\ open = <<>> /\ phase' = "built" /\ body' = body
      /\ blocks' = EmitIfOpen(blocks, insert, GiveBack \o <<Plain("ret", Here)>>)
  BY DEF FinishFunction
<1>2. InBlock
  BY <1>1 DEF InBlock
<1>3. NoInner(blocks) <=> Clear(body)
  BY <1>2, InBlockEven
<1>4. blocks \in Seq(Seq(Instruction)) /\ insert \in 1 .. Len(blocks) /\ Here \in Nat
  BY DEF Building
<1>5. Piece(GiveBack \o <<Plain("ret", Here)>>)
  BY <1>4, ReturnPiece
<1>6. NoInner(blocks') <=> NoInner(blocks)
  BY <1>1, <1>4, <1>5, EmitIfOpenClean
<1> QED BY <1>1, <1>3, <1>6 DEF TidyInv

LEMMA InitTidy ==
  ASSUME Init
  PROVE  TidyInv
<1>1. body = <<>> /\ open = <<>> /\ insert = 2 /\ phase = "build" /\ blocks = <<Entry, <<>>>>
  BY DEF Init, Entry
<1>2. \A i \in 1 .. 0 : FALSE
  OBVIOUS
<1>3. Words(body, open) /\ Unended(blocks, open) /\ Apart(open)
  <2>1. Len(body) = 0 /\ Len(open) = 0
    BY <1>1
  <2> QED BY <1>2, <2>1, Zenon DEF Words, Unended, Apart
<1>4. Clear(body) /\ ~Behind(body)
  <2>1. Len(body) = 0
    BY <1>1
  <2> QED BY <1>2, <2>1, Zenon DEF Clear, Fine, Behind, RetBefore
<1>5. ~Inner(Entry)
  <2>1. Len(Entry) = 3 /\ Entry[1] = Plain("save", 0) /\ Entry[2] = Plain("alloca", 0)
    BY DEF Entry
  <2>2. \A i \in 1 .. Len(Entry) - 1 : i = 1 \/ i = 2
    BY <2>1
  <2>3. Plain("save", 0).op \notin Terminators /\ Plain("alloca", 0).op \notin Terminators
    BY DEF Plain, Terminators
  <2> QED BY <2>1, <2>2, <2>3 DEF Inner
<1>6. /\ Len(blocks) = 2 /\ blocks[1] = Entry /\ blocks[2] = <<>>
  BY <1>1
<1>7. NoInner(blocks)
  <2>1. \A b \in 1 .. Len(blocks) : b = 1 \/ b = 2
    BY <1>6
  <2>2. ~Inner(blocks[2])
    BY <1>6 DEF Inner
  <2> QED BY <1>5, <1>6, <2>1, <2>2 DEF NoInner
<1>8. ~Terminated(blocks[insert])
  BY <1>1, <1>6 DEF Terminated
<1>9. Tracked(blocks, insert, open, body)
  <2>1. ~BetweenTwigs(open)
    BY <1>1 DEF BetweenTwigs
  <2> QED BY <1>4, <1>7, <1>8, <2>1 DEF Tracked, Even
<1> QED BY <1>1, <1>3, <1>9 DEF TidyInv

LEMMA TidyKeeps ==
  ASSUME BuildInv, Shaped, TidyInv, [Next]_vars
  PROVE  TidyInv'
<1>1. CASE Build
  <2>1. phase = "build"
    <3>1. CASE FinishFunction \/ BuildBareReturn
      BY <3>1 DEF FinishFunction, BuildBareReturn, InBlock
    <3>2. CASE BuildSimple \/ BuildDeclaration \/ BuildReturn \/ OpenBlock \/ CloseBlock
      BY <3>2 DEF BuildSimple, BuildDeclaration, BuildReturn, OpenBlock, CloseBlock,
                  InBlock, InBlockOf
    <3>3. CASE OpenConditional \/ CloseConditional \/ OpenLoop \/ CloseLoop
      BY <3>3 DEF OpenConditional, CloseConditional, OpenLoop, CloseLoop, InBlock, InBlockOf
    <3>4. CASE \/ OpenBranch \/ OpenTwig \/ CloseTwig
               \/ OpenOtherwise \/ CloseOtherwise \/ CloseBranch
      BY <3>4 DEF OpenBranch, OpenTwig, CloseTwig, OpenOtherwise, CloseOtherwise, CloseBranch,
                  InBlock, InBlockOf, Between
    <3> QED BY <1>1, <3>1, <3>2, <3>3, <3>4, Zenon DEF Build
  <2>2. Building
    BY <2>1, AtBuild
  <2>3. CASE BuildBareReturn
    BY <2>3 DEF BuildBareReturn, TidyInv
  <2> QED BY <1>1, <2>2, <2>3, SimpleTidy, DeclarationTidy, ReturnTidy, OpenBlockTidy,
             CloseBlockTidy, OpenConditionalTidy, CloseConditionalTidy, OpenTwigTidy,
             CloseTwigTidy, OpenOtherwiseTidy, CloseOtherwiseTidy, CloseBranchTidy,
             OpenLoopTidy, CloseLoopTidy, FinishTidy, Zenon
          DEF Build
<1>2. CASE CallFunction
  BY <1>2 DEF CallFunction, built, TidyInv
<1>3. CASE Run
  <2>1. /\ UNCHANGED <<body, blocks>> /\ phase = "run" /\ phase' \in {"run", "returned"}
    BY <1>3 DEF Run, Evaluate, Allocate, SaveStack, RestoreStack, Branch, BranchIf, Return, built,
                Running
  <2> QED BY <2>1 DEF TidyInv
<1>4. CASE UNCHANGED vars
  <2>1. UNCHANGED <<body, open, blocks, insert, phase>>
    BY <1>4 DEF vars, built
  <2> QED BY <2>1 DEF TidyInv
<1> QED BY <1>1, <1>2, <1>3, <1>4 DEF Next

(* Whatever the body, its nesting and its length: LLVM's verifier accepts the blocks of a    *)
(* finished function exactly when no statement follows a return in its block and no loop     *)
(* ends with one.                                                                            *)
THEOREM VerifiedExactlyWhenTidy == Spec => []VerifiedWhenTidy
<1>1. BuildInv /\ TidyInv => VerifiedWhenTidy
  <2>1. SUFFICES ASSUME BuildInv, TidyInv, phase \in {"built", "run", "returned"}
                 PROVE  (\A b \in DOMAIN blocks : WellFormed(blocks[b])) <=> Tidy(body)
    BY DEF VerifiedWhenTidy
  <2>2. NoInner(blocks) <=> Clear(body)
    BY <2>1 DEF TidyInv
  <2>3. Tidy(body) <=> Clear(body)
    BY <2>1, TidyIsClear DEF BuildInv
  <2>4. DOMAIN blocks = 1 .. Len(blocks)
    BY <2>1 DEF BuildInv, BlocksOK
  <2>5. \A b \in 1 .. Len(blocks) : Terminated(blocks[b])
    BY <2>1, <2>4 DEF BuildInv, BlocksTerminated
  <2>6. \A c : ~Inner(c) <=> \A i \in 1 .. Len(c) - 1 : c[i].op \notin Terminators
    BY DEF Inner
  <2>7. (\A b \in DOMAIN blocks : WellFormed(blocks[b])) <=> NoInner(blocks)
    BY <2>4, <2>5, <2>6, Zenon DEF WellFormed, NoInner
  <2> QED BY <2>2, <2>3, <2>7
<1>2. Init => TidyInv
  BY InitTidy
<1>3. BuildInv /\ RunInv /\ Shaped /\ TidyInv /\ [Next]_vars => TidyInv'
  BY TidyKeeps
<1> QED BY <1>1, <1>2, <1>3, SpecShaped, PTL DEF Spec
=============================================================================
