----------------------- MODULE ControlFlowSourceProofs -----------------------
(***************************************************************************)
(* For bodies of every length and nesting: the blocks of a function        *)
(* perform the events of its source in their order, so that the code that  *)
(* is built implements FunctionCall.                                       *)
(***************************************************************************)
EXTENDS ControlFlowProofs, WellFoundedInduction

-----------------------------------------------------------------------------
(* Where control arrives, in a body whose statements all end behind their tokens. *)

Linkable == {"if", "loop", "twig", "otherwise", "branch", "block"}

Whole(v) ==
  /\ v \in Seq(Token)
  /\ \A i \in 1 .. Len(v) : v[i].kind \in Linkable => v[i].to \in i + 1 .. Len(v)

(* What Reach is at one position, given what it is behind it. *)
Arrives(b, r, i) ==
  IF i > Len(b) THEN i
  ELSE IF b[i].kind \in {"do", "let", "ret", "if", "loop"} THEN i
  ELSE IF b[i].kind = "block" THEN r[i + 1]
  ELSE IF b[i].kind = "branch"
       THEN IF b[i].to > Len(b) \/ b[b[i].to].kind = "twig" THEN b[i].to
            ELSE r[b[i].to + 1]
  ELSE IF b[i].kind # "end" THEN r[b[i].to]
  ELSE IF b[i].to # 0 THEN b[i].to
  ELSE r[i + 1]

Reaching(b, r) == r = [i \in 1 .. Len(b) + 1 |-> Arrives(b, r, i)]

LEMMA ReachChosen ==
  ASSUME NEW b, \E r : Reaching(b, r)
  PROVE  Reaching(b, Reach(b))
<1>1. Reach(b) = CHOOSE r : Reaching(b, r)
  BY DEF Reach, Reaching, Arrives
<1> QED BY <1>1

LEMMA WholeToken ==
  ASSUME NEW v, Whole(v), NEW i \in 1 .. Len(v)
  PROVE  /\ Len(v) \in Nat /\ i \in Nat /\ v[i] \in Token /\ v[i].kind \in Kinds /\ v[i].to \in Nat
         /\ v[i].kind \in Linkable => v[i].to \in i + 1 .. Len(v)
<1>1. v \in Seq(Token) /\ Len(v) \in Nat
  BY DEF Whole
<1>2. v[i] \in Token
  BY <1>1
<1>3. v[i].kind \in Kinds /\ v[i].to \in Nat
  BY <1>2 DEF Token
<1> QED BY <1>1, <1>2, <1>3 DEF Whole

(* Arriving depends only on what is behind. *)
LEMMA ArrivesAgree ==
  ASSUME NEW v, Whole(v), NEW i \in 1 .. Len(v) + 1, NEW q, NEW r,
         \A j \in 1 .. Len(v) + 1 : j > i => q[j] = r[j]
  PROVE  Arrives(v, q, i) = Arrives(v, r, i)
<1>1. CASE i > Len(v)
  BY <1>1 DEF Arrives
<1>2. CASE ~(i > Len(v))
  <2>1. Len(v) \in Nat /\ i \in Nat /\ i \in 1 .. Len(v)
    BY <1>2 DEF Whole
  <2>2. /\ v[i].kind \in Kinds /\ v[i].to \in Nat
        /\ v[i].kind \in Linkable => v[i].to \in i + 1 .. Len(v)
    BY <2>1, WholeToken
  <2>3. q[i + 1] = r[i + 1]
    BY <2>1
  <2>4. v[i].kind \in Linkable => q[v[i].to] = r[v[i].to] /\ q[v[i].to + 1] = r[v[i].to + 1]
    BY <2>1, <2>2
  <2>5. CASE v[i].kind \in Linkable
    BY <2>3, <2>4, <2>5, Zenon DEF Arrives
  <2>6. CASE v[i].kind \notin Linkable
    <3>1. v[i].kind \in {"do", "let", "ret", "end"}
      BY <2>2, <2>6 DEF Kinds, Conditions, Linkable
    <3> QED BY <2>3, <3>1 DEF Arrives
  <2> QED BY <2>5, <2>6
<1> QED BY <1>1, <1>2

LEMMA LowestNumber ==
  ASSUME NEW S, S \subseteq Nat, S # {}
  PROVE  \E n \in S : \A m \in S : n <= m
<1>1. PICK n \in S : \A m \in S : ~(<<m, n>> \in OpToRel(<, Nat))
  BY NatLessThanWellFounded, WFMin
<1>2. ASSUME NEW m \in S PROVE n <= m
  <2>1. <<m, n>> \in Nat \X Nat
    OBVIOUS
  <2>2. <<m, n>> \in OpToRel(<, Nat) <=> m < n
    BY <2>1 DEF OpToRel
  <2>3. ~(m < n)
    BY <1>1, <2>2, Zenon
  <2>4. m \in Nat /\ n \in Nat
    OBVIOUS
  <2> QED BY <2>3, <2>4
<1> QED BY <1>2

(* From position k on, r is what Reach has to be. *)
ReachingFrom(v, r, k) ==
  /\ r = [i \in 1 .. Len(v) + 1 |-> r[i]]
  /\ \A i \in 1 .. Len(v) + 1 : i >= k => r[i] = Arrives(v, r, i)

LEMMA OneBefore ==
  ASSUME NEW v, Whole(v), NEW k \in 1 .. Len(v), NEW q, ReachingFrom(v, q, k + 1)
  PROVE  \E r : ReachingFrom(v, r, k)
<1> DEFINE r == [i \in 1 .. Len(v) + 1 |-> IF i = k THEN Arrives(v, q, k) ELSE q[i]]
<1>1. Len(v) \in Nat /\ k \in 1 .. Len(v) + 1
  BY DEF Whole
<1>2. /\ r = [i \in 1 .. Len(v) + 1 |-> r[i]] /\ r[k] = Arrives(v, q, k)
      /\ \A i \in 1 .. Len(v) + 1 : i # k => r[i] = q[i]
  BY <1>1
<1> HIDE DEF r
<1>3. ASSUME NEW i \in 1 .. Len(v) + 1, i >= k PROVE r[i] = Arrives(v, r, i)
  <2>1. \A j \in 1 .. Len(v) + 1 : j > i => r[j] = q[j]
    BY <1>1, <1>2, <1>3
  <2>2. Arrives(v, r, i) = Arrives(v, q, i)
    BY <2>1, ArrivesAgree
  <2>3. i # k => q[i] = Arrives(v, q, i)
    BY <1>1, <1>3 DEF ReachingFrom
  <2> QED BY <1>2, <2>2, <2>3
<1>4. ReachingFrom(v, r, k)
  BY <1>2, <1>3, Zenon DEF ReachingFrom
<1> QED BY <1>4

LEMMA ReachingExists ==
  ASSUME NEW v, Whole(v)
  PROVE  \E r : Reaching(v, r)
<1>0. Len(v) \in Nat
  BY DEF Whole
<1> DEFINE S == {k \in Nat : k >= 1 /\ \E r : ReachingFrom(v, r, k)}
<1>1. Len(v) + 1 \in S
  <2> DEFINE r == [i \in 1 .. Len(v) + 1 |-> i]
  <2>1. r = [i \in 1 .. Len(v) + 1 |-> r[i]] /\ r[Len(v) + 1] = Len(v) + 1
    BY <1>0
  <2> HIDE DEF r
  <2>2. Arrives(v, r, Len(v) + 1) = Len(v) + 1
    BY <1>0 DEF Arrives
  <2>3. \A i \in 1 .. Len(v) + 1 : i >= Len(v) + 1 => i = Len(v) + 1
    BY <1>0
  <2>4. ReachingFrom(v, r, Len(v) + 1)
    BY <2>1, <2>2, <2>3 DEF ReachingFrom
  <2> QED BY <1>0, <2>4
<1>2. PICK k \in S : \A m \in S : k <= m
  BY <1>1, LowestNumber
<1>3. k \in Nat /\ k >= 1 /\ k <= Len(v) + 1
  BY <1>1, <1>2
<1>4. PICK r : ReachingFrom(v, r, k)
  OBVIOUS
<1>5. k = 1
  <2>1. SUFFICES ASSUME k # 1 PROVE FALSE
    OBVIOUS
  <2>2. k - 1 \in 1 .. Len(v) /\ (k - 1) + 1 = k
    BY <1>0, <1>3, <2>1
  <2>3. \E q : ReachingFrom(v, q, k - 1)
    BY <1>4, <2>2, OneBefore
  <2>4. k - 1 \in S
    BY <2>2, <2>3
  <2> QED BY <1>2, <1>3, <2>4
<1>6. \A i \in 1 .. Len(v) + 1 : i >= k
  BY <1>5
<1>7. Reaching(v, r)
  BY <1>4, <1>6, Zenon DEF ReachingFrom, Reaching
<1> QED BY <1>7

LEMMA ReachAt ==
  ASSUME NEW v, Whole(v), NEW i \in 1 .. Len(v) + 1
  PROVE  Reach(v)[i] = Arrives(v, Reach(v), i)
<1>1. Reaching(v, Reach(v))
  BY ReachingExists, ReachChosen
<1> QED BY <1>1, Zenon DEF Reaching

(* What follows condition x when it fails. *)
Failing(v, x) ==
  IF v[v[x].to].kind = "twig" THEN v[x].to ELSE Reach(v)[v[x].to + 1]

LEMMA ReachFacts ==
  ASSUME NEW v, Whole(v), NEW i \in 1 .. Len(v), NEW k, k = v[i].kind
  PROVE  /\ k \in {"do", "let", "ret", "if", "loop"} => Reach(v)[i] = i
         /\ k = "block" => Reach(v)[i] = Reach(v)[i + 1]
         /\ k = "branch" => Reach(v)[i] = Failing(v, i)
         /\ k \in {"twig", "otherwise"} => Reach(v)[i] = Reach(v)[v[i].to]
         /\ k = "end" /\ v[i].to = 0 => Reach(v)[i] = Reach(v)[i + 1]
         /\ k = "end" /\ v[i].to # 0 => Reach(v)[i] = v[i].to
<1>1. /\ Len(v) \in Nat /\ v[i].to \in Nat
      /\ k \in Linkable => v[i].to \in i + 1 .. Len(v)
  BY WholeToken
<1>2. Reach(v)[i] = Arrives(v, Reach(v), i)
  BY <1>1, ReachAt
<1>3. ~(i > Len(v)) /\ (k \in Linkable => ~(v[i].to > Len(v)))
  BY <1>1
<1>4. "branch" \in Linkable
  BY DEF Linkable
<1> QED BY <1>2, <1>3, <1>4 DEF Arrives, Failing

LEMMA ReachEnd ==
  ASSUME NEW v, Whole(v)
  PROVE  Reach(v)[Len(v) + 1] = Len(v) + 1
<1>1. Len(v) \in Nat
  BY DEF Whole
<1> QED BY <1>1, ReachAt DEF Arrives

-----------------------------------------------------------------------------
(* What an instruction does to the next event.  A mark names the event that a call performs  *)
(* next when the last condition held, and when it failed; N[b] is the event that a call      *)
(* performs next where block b begins.  Behind a terminator a mark means nothing.            *)

Both(m) == [yes |-> m, no |-> m]

Forks(v, i) ==
  [yes |-> Reach(v)[i + 1],
   no  |-> IF v[i].kind \in Conditions THEN Failing(v, i) ELSE Reach(v)[i + 1]]

Leads(v, N, x, s, t) ==
  /\ x.op = "eval" =>
       /\ x.at \in 1 .. Len(v) /\ s = Both(x.at)
       /\ t = IF v[x.at].kind = "ret" THEN s ELSE Forks(v, x.at)
  /\ x.op \in {"alloca", "save", "restore"} => t = s
  /\ x.op = "br" => s = Both(N[x.yes])
  /\ x.op = "condbr" => s = [yes |-> N[x.yes], no |-> N[x.no]]
  /\ x.op = "ret" => s = Both(x.at)

LeadsAlong(v, N, c, a) == \A i \in 1 .. Len(c) : Leads(v, N, c[i], a[i], a[i + 1])

(* Code that begins with mark s and ends with mark t. *)
Path(v, N, c, s, t) == \E a : a[1] = s /\ a[Len(c) + 1] = t /\ LeadsAlong(v, N, c, a)

LEMMA PathJoined ==
  ASSUME NEW v, NEW N, NEW c \in Seq(Instruction), NEW d \in Seq(Instruction), NEW s, NEW t, NEW u,
         Path(v, N, c, s, t), Path(v, N, d, t, u)
  PROVE  Path(v, N, c \o d, s, u)
<1>1. PICK a : a[1] = s /\ a[Len(c) + 1] = t /\ LeadsAlong(v, N, c, a)
  BY DEF Path
<1>2. PICK e : e[1] = t /\ e[Len(d) + 1] = u /\ LeadsAlong(v, N, d, e)
  BY DEF Path
<1> DEFINE f == c \o d
           m == Len(c)
           h == [i \in Nat |-> IF i <= m THEN a[i] ELSE e[i - m]]
<1>3. /\ f \in Seq(Instruction) /\ Len(f) = m + Len(d)
      /\ \A i \in 1 .. m : f[i] = c[i]
      /\ \A i \in 1 .. Len(d) : f[m + i] = d[i]
  BY Joining
<1>4. m \in Nat /\ Len(d) \in Nat
  OBVIOUS
<1> HIDE DEF f, m
<1>5. /\ \A i \in 1 .. m + 1 : h[i] = a[i]
      /\ \A i \in 1 .. Len(d) + 1 : h[m + i] = e[i]
  <2>1. ASSUME NEW i \in 1 .. m + 1 PROVE h[i] = a[i]
    <3>1. CASE i <= m
      BY <1>4, <3>1
    <3>2. CASE ~(i <= m)
      <4>1. i = m + 1 /\ i \in Nat /\ i - m = 1
        BY <1>4, <3>2
      <4> QED BY <1>1, <1>2, <3>2, <4>1 DEF m
    <3> QED BY <3>1, <3>2
  <2>2. ASSUME NEW i \in 1 .. Len(d) + 1 PROVE h[m + i] = e[i]
    <3>1. m + i \in Nat /\ ~(m + i <= m) /\ (m + i) - m = i
      BY <1>4
    <3> QED BY <3>1
  <2> QED BY <2>1, <2>2
<1> HIDE DEF h
<1>6. h[1] = s
  BY <1>1, <1>4, <1>5
<1>7. h[Len(f) + 1] = u
  <2>1. Len(f) + 1 = m + (Len(d) + 1) /\ Len(d) + 1 \in 1 .. Len(d) + 1
    BY <1>3, <1>4
  <2> QED BY <1>2, <1>5, <2>1
<1>8. ASSUME NEW i \in 1 .. Len(f) PROVE Leads(v, N, f[i], h[i], h[i + 1])
  <2>1. CASE i <= m
    <3>1. i \in 1 .. Len(c) /\ i \in 1 .. m /\ i \in 1 .. m + 1 /\ i + 1 \in 1 .. m + 1
      BY <1>3, <1>4, <2>1 DEF m
    <3>2. Leads(v, N, c[i], a[i], a[i + 1])
      BY <1>1, <3>1, Zenon DEF LeadsAlong
    <3> QED BY <1>3, <1>5, <3>1, <3>2, Zenon
  <2>2. CASE ~(i <= m)
    <3>1. PICK j \in 1 .. Len(d) : i = m + j
      <4>1. i - m \in 1 .. Len(d) /\ i = m + (i - m)
        BY <1>3, <1>4, <2>2
      <4> QED BY <4>1
    <3>2. j \in 1 .. Len(d) + 1 /\ j + 1 \in 1 .. Len(d) + 1 /\ i + 1 = m + (j + 1)
      BY <1>4, <3>1
    <3>3. Leads(v, N, d[j], e[j], e[j + 1])
      BY <1>2, Zenon DEF LeadsAlong
    <3>4. f[i] = d[j] /\ h[i] = e[j] /\ h[i + 1] = e[j + 1]
      BY <1>3, <1>5, <3>1, <3>2
    <3> QED BY <3>3, <3>4
  <2> QED BY <2>1, <2>2
<1>9. LeadsAlong(v, N, f, h)
  BY <1>8 DEF LeadsAlong
<1>10. Path(v, N, f, s, u)
  BY <1>6, <1>7, <1>9, Zenon DEF Path
<1> QED BY <1>10 DEF f

LEMMA NoPath ==
  ASSUME NEW v, NEW N, NEW s
  PROVE  Path(v, N, <<>>, s, s)
<1> DEFINE a == [i \in Nat |-> s]
<1>1. a[1] = s /\ Len(<<>>) = 0 /\ 0 + 1 = 1
  OBVIOUS
<1>2. LeadsAlong(v, N, <<>>, a)
  BY <1>1 DEF LeadsAlong
<1> HIDE DEF a
<1> QED BY <1>1, <1>2 DEF Path

LEMMA OnePath ==
  ASSUME NEW v, NEW N, NEW x, NEW s, NEW t, Leads(v, N, x, s, t)
  PROVE  Path(v, N, <<x>>, s, t)
<1> DEFINE a == <<s, t>>
<1>1. a[1] = s /\ a[2] = t /\ Len(<<x>>) = 1 /\ 1 + 1 = 2 /\ <<x>>[1] = x
  OBVIOUS
<1>2. LeadsAlong(v, N, <<x>>, a)
  BY <1>1 DEF LeadsAlong
<1> HIDE DEF a
<1> QED BY <1>1, <1>2 DEF Path

LEMMA PlainLeads ==
  ASSUME NEW v, NEW N, NEW s, NEW at
  PROVE  /\ \A op \in {"alloca", "save", "restore"} : Path(v, N, <<Plain(op, at)>>, s, s)
         /\ at \in 1 .. Len(v) /\ v[at].kind # "ret" =>
              Path(v, N, <<Plain("eval", at)>>, Both(at), Forks(v, at))
         /\ at \in 1 .. Len(v) /\ v[at].kind = "ret" =>
              Path(v, N, <<Plain("eval", at)>>, Both(at), Both(at))
         /\ Path(v, N, <<Plain("ret", at)>>, Both(at), s)
<1>1. \A op : Plain(op, at).op = op /\ Plain(op, at).at = at
  BY DEF Plain
<1>2. ASSUME NEW op \in {"alloca", "save", "restore"} PROVE Leads(v, N, Plain(op, at), s, s)
  BY <1>1 DEF Leads
<1>3. at \in 1 .. Len(v) /\ v[at].kind # "ret" =>
        Leads(v, N, Plain("eval", at), Both(at), Forks(v, at))
  BY <1>1 DEF Leads
<1>4. at \in 1 .. Len(v) /\ v[at].kind = "ret" =>
        Leads(v, N, Plain("eval", at), Both(at), Both(at))
  BY <1>1 DEF Leads
<1>5. Leads(v, N, Plain("ret", at), Both(at), s)
  BY <1>1 DEF Leads
<1> QED BY <1>2, <1>3, <1>4, <1>5, OnePath, Zenon

LEMMA BrLeads ==
  ASSUME NEW v, NEW N, NEW b, NEW s
  PROVE  Path(v, N, <<Br(b)>>, Both(N[b]), s)
<1>1. Leads(v, N, Br(b), Both(N[b]), s)
  BY DEF Leads, Br
<1> QED BY <1>1, OnePath

LEMMA CondBrLeads ==
  ASSUME NEW v, NEW N, NEW at, NEW b, NEW c, NEW s
  PROVE  Path(v, N, <<CondBr(at, b, c)>>, [yes |-> N[b], no |-> N[c]], s)
<1>1. Leads(v, N, CondBr(at, b, c), [yes |-> N[b], no |-> N[c]], s)
  BY DEF Leads, CondBr
<1> QED BY <1>1, OnePath

-----------------------------------------------------------------------------
(* The blocks of a function: block b begins with the mark Both(N[b]) and ends with E[b]. *)

Flow(v, N, E, bs) == \A b \in 1 .. Len(bs) : Path(v, N, bs[b], Both(N[b]), E[b])

LEMMA LeadsAgree ==
  ASSUME NEW n \in Nat, NEW v, NEW N, NEW M, \A b \in 1 .. n : M[b] = N[b],
         NEW x, InstrOK(x, n), NEW s, NEW t, Leads(v, N, x, s, t)
  PROVE  Leads(v, M, x, s, t)
<1>1. x.op \in {"br", "condbr"} => x.yes \in 1 .. n
  BY DEF InstrOK
<1>2. x.op = "condbr" => x.no \in 1 .. n
  BY DEF InstrOK
<1>3. x.op \in {"br", "condbr"} => M[x.yes] = N[x.yes]
  BY <1>1
<1>4. x.op = "condbr" => M[x.no] = N[x.no]
  BY <1>2
<1>5. x.op \in {"br", "condbr"} <=> x.op = "br" \/ x.op = "condbr"
  OBVIOUS
<1> QED BY <1>3, <1>4, <1>5, Zenon DEF Leads

LEMMA FlowAgrees ==
  ASSUME NEW v, NEW N, NEW E, NEW bs, BlocksOK(bs, Len(bs)), Flow(v, N, E, bs),
         NEW M, NEW F, \A b \in 1 .. Len(bs) : M[b] = N[b] /\ F[b] = E[b]
  PROVE  Flow(v, M, F, bs)
<1> DEFINE n == Len(bs)
<1>1. n \in Nat /\ n >= 2 /\ bs[1] = Entry /\ \A b \in 2 .. n : CodeOK(bs[b], n)
  BY DEF BlocksOK
<1>2. \A b \in 1 .. n : M[b] = N[b] /\ F[b] = E[b]
  OBVIOUS
<1>3. \A b \in 1 .. n : Path(v, N, bs[b], Both(N[b]), E[b])
  BY DEF Flow
<1> HIDE DEF n
<1>4. ASSUME NEW b \in 1 .. n, NEW i \in 1 .. Len(bs[b]), NEW s, NEW t, Leads(v, N, bs[b][i], s, t)
      PROVE  Leads(v, M, bs[b][i], s, t)
  <2>1. CASE b # 1
    <3>1. b \in 2 .. n
      BY <1>1, <2>1
    <3>2. InstrOK(bs[b][i], n)
      BY <1>1, <3>1 DEF CodeOK
    <3> QED BY <1>1, <1>2, <1>4, <3>2, LeadsAgree
  <2>2. CASE b = 1
    <3>1. bs[b][i] \in {Plain("save", 0), Plain("alloca", 0), Br(2)}
      BY <1>1, <2>2 DEF Entry
    <3>2. /\ Plain("save", 0).op = "save" /\ Plain("alloca", 0).op = "alloca"
          /\ Br(2).op = "br" /\ Br(2).yes = 2
      BY DEF Plain, Br
    <3>3. M[2] = N[2]
      BY <1>1, <1>2
    <3> QED BY <1>4, <3>1, <3>2, <3>3 DEF Leads
  <2> QED BY <2>1, <2>2
<1>5. ASSUME NEW b \in 1 .. n PROVE Path(v, M, bs[b], Both(M[b]), F[b])
  <2>1. PICK a : a[1] = Both(N[b]) /\ a[Len(bs[b]) + 1] = E[b] /\ LeadsAlong(v, N, bs[b], a)
    BY <1>3 DEF Path
  <2>2. LeadsAlong(v, M, bs[b], a)
    BY <1>4, <2>1, Zenon DEF LeadsAlong
  <2> QED BY <1>2, <2>1, <2>2, Zenon DEF Path
<1> QED BY <1>5 DEF Flow, n

LEMMA FlowNew ==
  ASSUME NEW v, NEW N, NEW E, NEW bs \in Seq(Seq(Instruction)), Flow(v, N, E, bs),
         E[Len(bs) + 1] = Both(N[Len(bs) + 1])
  PROVE  /\ Flow(v, N, E, New(bs))
         /\ New(bs) \in Seq(Seq(Instruction)) /\ Len(New(bs)) = Len(bs) + 1
<1>1. /\ New(bs) \in Seq(Seq(Instruction)) /\ Len(New(bs)) = Len(bs) + 1
      /\ \A b \in 1 .. Len(bs) : New(bs)[b] = bs[b]
      /\ New(bs)[Len(bs) + 1] = <<>>
  BY NewFacts
<1>2. \A b \in 1 .. Len(New(bs)) : b \in 1 .. Len(bs) \/ b = Len(bs) + 1
  BY <1>1
<1>3. Path(v, N, <<>>, Both(N[Len(bs) + 1]), E[Len(bs) + 1])
  BY NoPath
<1>4. Flow(v, N, E, New(bs))
  BY <1>1, <1>2, <1>3, Zenon DEF Flow
<1> QED BY <1>1, <1>4

(* Code at the end of a block, whose mark becomes F[b]. *)
LEMMA FlowTurned ==
  ASSUME NEW v, NEW N, NEW E, NEW bs \in Seq(Seq(Instruction)), Flow(v, N, E, bs),
         NEW b \in 1 .. Len(bs), NEW code \in Seq(Instruction),
         NEW F, \A i \in 1 .. Len(bs) : i # b => F[i] = E[i], Path(v, N, code, E[b], F[b])
  PROVE  /\ Flow(v, N, F, Emit(bs, b, code))
         /\ Emit(bs, b, code) \in Seq(Seq(Instruction)) /\ Len(Emit(bs, b, code)) = Len(bs)
<1>1. /\ Emit(bs, b, code) \in Seq(Seq(Instruction)) /\ Len(Emit(bs, b, code)) = Len(bs)
      /\ \A i \in 1 .. Len(bs) : i # b => Emit(bs, b, code)[i] = bs[i]
      /\ Emit(bs, b, code)[b] = bs[b] \o code
  BY EmitFacts
<1>2. bs[b] \in Seq(Instruction)
  OBVIOUS
<1>3. Path(v, N, bs[b], Both(N[b]), E[b])
  BY DEF Flow
<1>4. Path(v, N, bs[b] \o code, Both(N[b]), F[b])
  BY <1>2, <1>3, PathJoined
<1>5. Flow(v, N, F, Emit(bs, b, code))
  BY <1>1, <1>4, Zenon DEF Flow
<1> QED BY <1>1, <1>5

(* Code that leaves the mark of its block as it is. *)
LEMMA FlowEmit ==
  ASSUME NEW v, NEW N, NEW E, NEW bs \in Seq(Seq(Instruction)), Flow(v, N, E, bs),
         NEW b \in 1 .. Len(bs), NEW code \in Seq(Instruction), Path(v, N, code, E[b], E[b])
  PROVE  /\ Flow(v, N, E, Emit(bs, b, code)) /\ Flow(v, N, E, EmitIfOpen(bs, b, code))
         /\ Emit(bs, b, code) \in Seq(Seq(Instruction)) /\ Len(Emit(bs, b, code)) = Len(bs)
         /\ EmitIfOpen(bs, b, code) \in Seq(Seq(Instruction))
         /\ Len(EmitIfOpen(bs, b, code)) = Len(bs)
<1>1. \A i \in 1 .. Len(bs) : i # b => E[i] = E[i]
  OBVIOUS
<1>2. /\ Flow(v, N, E, Emit(bs, b, code))
      /\ Emit(bs, b, code) \in Seq(Seq(Instruction)) /\ Len(Emit(bs, b, code)) = Len(bs)
  BY <1>1, FlowTurned, Zenon
<1> QED BY <1>2, Zenon DEF EmitIfOpen

(* A block with code of its own. *)
LEMMA FlowFresh ==
  ASSUME NEW v, NEW N, NEW E, NEW bs \in Seq(Seq(Instruction)), Flow(v, N, E, bs),
         NEW n, n = Len(bs) + 1,
         NEW code \in Seq(Instruction), Path(v, N, code, Both(N[n]), E[n])
  PROVE  /\ Flow(v, N, E, Emit(New(bs), n, code))
         /\ Emit(New(bs), n, code) \in Seq(Seq(Instruction)) /\ Len(Emit(New(bs), n, code)) = n
<1> DEFINE cs == New(bs)
<1>1. /\ cs \in Seq(Seq(Instruction)) /\ Len(cs) = Len(bs) + 1
      /\ \A b \in 1 .. Len(bs) : cs[b] = bs[b]
      /\ cs[Len(bs) + 1] = <<>>
  BY NewFacts
<1>2. n \in 1 .. Len(cs) /\ \A b \in 1 .. Len(cs) : b # n => b \in 1 .. Len(bs)
  BY <1>1
<1> HIDE DEF cs
<1>3. /\ Emit(cs, n, code) \in Seq(Seq(Instruction)) /\ Len(Emit(cs, n, code)) = Len(cs)
      /\ \A i \in 1 .. Len(cs) : i # n => Emit(cs, n, code)[i] = cs[i]
      /\ Emit(cs, n, code)[n] = cs[n] \o code
  BY <1>1, <1>2, EmitFacts
<1>4. cs[n] \o code = code
  BY <1>1
<1>5. Flow(v, N, E, Emit(cs, n, code))
  BY <1>1, <1>2, <1>3, <1>4, Zenon DEF Flow
<1> QED BY <1>1, <1>3, <1>5 DEF cs

(* Every block in dones and "from" go to a block that begins with the mark they end with. *)
LEMMA FlowJoined ==
  ASSUME NEW v, NEW N, NEW E, NEW bs \in Seq(Seq(Instruction)), Flow(v, N, E, bs),
         NEW dones, NEW from, NEW n, n = Len(bs) + 1, E[n] = Both(N[n]),
         \A b \in 1 .. Len(bs) : b \in dones \cup {from} => E[b] = Both(N[n])
  PROVE  Flow(v, N, E, Joined(bs, dones, from))
<1> DEFINE br == <<Br(n)>>
           joins(b) == b = from \/ (b \in dones /\ ~Terminated(bs[b]))
           cs == [b \in DOMAIN bs |-> IF joins(b) THEN bs[b] \o br ELSE bs[b]]
<1>1. Len(bs) \in Nat /\ n \in Nat
  OBVIOUS
<1>2. Joined(bs, dones, from) = New(cs)
  BY Zenon DEF Joined
<1>3. Br(n) \in Instruction
  BY <1>1 DEF Br, Instruction, Terminators
<1>4. br \in Seq(Instruction)
  BY <1>3
<1>5. DOMAIN bs = 1 .. Len(bs) /\ \A b \in 1 .. Len(bs) : bs[b] \in Seq(Instruction)
  BY <1>1
<1>6. \A s : Path(v, N, br, Both(N[n]), s)
  BY BrLeads
<1> HIDE DEF br
<1>7. \A b \in 1 .. Len(bs) : bs[b] \o br \in Seq(Instruction)
  BY <1>4, <1>5, Joining
<1>8. /\ DOMAIN cs = 1 .. Len(bs)
      /\ \A b \in 1 .. Len(bs) : cs[b] = IF joins(b) THEN bs[b] \o br ELSE bs[b]
  BY <1>5, Zenon
<1> HIDE DEF cs, joins
<1>9. \A b \in 1 .. Len(bs) : cs[b] \in Seq(Instruction)
  BY <1>5, <1>7, <1>8, Zenon
<1>10. cs \in Seq(Seq(Instruction)) /\ Len(cs) = Len(bs)
  <2> DEFINE T == Seq(Instruction)
  <2>1. cs = [b \in 1 .. Len(bs) |-> cs[b]]
    BY <1>5, <1>8 DEF cs
  <2>2. \A b \in 1 .. Len(bs) : cs[b] \in T
    BY <1>9
  <2> HIDE DEF T
  <2>3. cs \in Seq(T) /\ Len(cs) = Len(bs)
    BY <1>1, <2>1, <2>2
  <2> QED BY <2>3 DEF T
<1>11. ASSUME NEW b \in 1 .. Len(bs) PROVE Path(v, N, cs[b], Both(N[b]), E[b])
  <2>1. Path(v, N, bs[b], Both(N[b]), E[b])
    BY Zenon DEF Flow
  <2>2. CASE joins(b)
    <3>1. E[b] = Both(N[n])
      BY <2>2 DEF joins
    <3>2. Path(v, N, br, E[b], E[b])
      BY <1>6, <3>1
    <3>3. bs[b] \in Seq(Instruction)
      BY <1>5
    <3>4. Path(v, N, bs[b] \o br, Both(N[b]), E[b])
      BY <1>4, <2>1, <3>2, <3>3, PathJoined
    <3> QED BY <1>8, <2>2, <3>4
  <2>3. CASE ~joins(b)
    BY <1>8, <2>1, <2>3
  <2> QED BY <2>2, <2>3
<1>12. Flow(v, N, E, cs)
  BY <1>10, <1>11, Zenon DEF Flow
<1>13. E[Len(cs) + 1] = Both(N[Len(cs) + 1])
  BY <1>10
<1>14. Flow(v, N, E, New(cs))
  BY <1>10, <1>12, <1>13, FlowNew
<1> QED BY <1>2, <1>14

(* Values for two blocks that do not exist yet, and another value for one block. *)
Reaches(G, H, n, y, z) == G[n + 1] = y /\ G[n + 2] = z /\ \A k \in 1 .. n : G[k] = H[k]

Alters(G, H, j, z) == G[j] = z /\ \A k \in Nat : k # j => G[k] = H[k]

LEMMA Further ==
  ASSUME NEW H, NEW n \in Nat, NEW y, NEW z
  PROVE  \E G : Reaches(G, H, n, y, z)
<1> DEFINE G == [k \in Nat |-> IF k = n + 1 THEN y ELSE IF k = n + 2 THEN z ELSE H[k]]
<1>1. Reaches(G, H, n, y, z)
  BY DEF Reaches
<1> HIDE DEF G
<1> QED BY <1>1

LEMMA Changed ==
  ASSUME NEW H, NEW j \in Nat, NEW z
  PROVE  \E G : Alters(G, H, j, z)
<1> DEFINE G == [k \in Nat |-> IF k = j THEN z ELSE H[k]]
<1>1. Alters(G, H, j, z)
  BY DEF Alters
<1> HIDE DEF G
<1> QED BY <1>1

-----------------------------------------------------------------------------
(* A body that is being written, and what it may become. *)

Guided == {"if", "loop", "twig", "otherwise"}

(* v is a body that w, with the statements fs open, can become. *)
Completes(v, w, fs) ==
  /\ Whole(v) /\ Len(w) <= Len(v)
  /\ \A i \in 1 .. Len(w) :
       /\ v[i].kind = w[i].kind
       /\ w[i].to # 0 \/ w[i].kind = "end" => v[i].to = w[i].to
  /\ BetweenTwigs(fs) => v[fs[Len(fs)].at].to = Len(w) + 1

(* The statements that have not ended are those that are open. *)
Joints(w, fs) ==
  /\ \A i \in 1 .. Len(w) : w[i].kind \in Linkable =>
       \/ w[i].to = 0 /\ \E k \in 1 .. Len(fs) : fs[k].at = i
       \/ w[i].to \in i + 1 .. Len(w)
  /\ \A k \in 1 .. Len(fs) :
       /\ w[fs[k].at].kind \in Linkable
       /\ fs[k].kind \in Guided => w[fs[k].at].kind = fs[k].kind

LEMMA WrittenTokens ==
  ASSUME Building, NEW kind \in Kinds, NEW reads \in Nat, body' = Written(kind, 0, reads)
  PROVE  /\ Len(body') = Here /\ Here = Len(body) + 1 /\ Len(body) \in Nat
         /\ \A i \in 1 .. Len(body) : body'[i] = body[i]
         /\ body'[Here].kind = kind /\ body'[Here].to = 0
<1>1. body \in Seq(Token) /\ Len(body) \in Nat
  BY DEF Building
<1>2. body' = Append(body, [kind |-> kind, to |-> 0, reads |-> reads])
  BY DEF Written
<1>3. [kind |-> kind, to |-> 0, reads |-> reads] \in Token
  BY DEF Token
<1> QED BY <1>1, <1>2, <1>3 DEF Here

LEMMA LinkedTokens ==
  ASSUME Building, open # <<>>, NEW kind \in Kinds, NEW to \in Nat, body' = Linked(kind, to)
  PROVE  /\ Len(body') = Here /\ Here = Len(body) + 1 /\ Len(body) \in Nat
         /\ Top.at \in 1 .. Len(body)
         /\ \A i \in 1 .. Len(body) :
              body'[i].kind = body[i].kind /\ (i # Top.at => body'[i].to = body[i].to)
         /\ body'[Top.at].to = Here
         /\ body'[Here].kind = kind /\ body'[Here].to = to
<1>1. body \in Seq(Token) /\ Len(body) \in Nat
  BY DEF Building
<1> DEFINE x == [kind |-> kind, to |-> to, reads |-> 0]
           w == Append(body, x)
           a == Top.at
<1>2. a \in 1 .. Len(body)
  BY TopKnown
<1>3. x \in Token /\ x.kind = kind /\ x.to = to
  BY DEF Token
<1>4. body' = [w EXCEPT ![a].to = Here]
  BY DEF Linked, Written
<1> HIDE DEF x, a
<1>5. /\ w \in Seq(Token) /\ Len(w) = Len(body) + 1 /\ w[Len(body) + 1] = x
      /\ \A i \in 1 .. Len(body) : w[i] = body[i]
  BY <1>1, <1>3
<1>6. DOMAIN w = 1 .. Len(body) + 1 /\ Len(body) + 1 \in 1 .. Len(body) + 1
      /\ \A i \in 1 .. Len(body) : i \in 1 .. Len(body) + 1 /\ i # Len(body) + 1
  BY <1>1, <1>5
<1>7. \A i \in 1 .. Len(body) + 1 : w[i] \in Token
  BY <1>5, <1>6
<1> HIDE DEF w
<1>8. Len(body') = Len(body) + 1
  BY <1>1, <1>4, <1>5
<1>9. \A i \in 1 .. Len(body) + 1 :
        body'[i] = IF i = a THEN [w[i] EXCEPT !.to = Here] ELSE w[i]
  BY <1>4, <1>6
<1>10. \A i \in 1 .. Len(body) + 1 :
        /\ [w[i] EXCEPT !.to = Here].kind = w[i].kind
        /\ [w[i] EXCEPT !.to = Here].to = Here
  BY <1>7 DEF Token
<1>11. Len(body) + 1 # a
  BY <1>1, <1>2
<1>12. body'[Top.at].to = Here
  BY <1>2, <1>6, <1>9, <1>10, Zenon DEF a
<1>13. body'[Here].kind = kind /\ body'[Here].to = to
  BY <1>3, <1>5, <1>6, <1>9, <1>11, Zenon DEF Here
<1>14. \A i \in 1 .. Len(body) :
         body'[i].kind = body[i].kind /\ (i # Top.at => body'[i].to = body[i].to)
  BY <1>5, <1>6, <1>9, <1>10, Zenon DEF a
<1> QED BY <1>1, <1>2, <1>8, <1>12, <1>13, <1>14, Zenon DEF a, Here

LEMMA WrittenCompletes ==
  ASSUME Building, InBlock, NEW kind \in Kinds, NEW reads \in Nat, body' = Written(kind, 0, reads),
         NEW v, NEW fs, Completes(v, body', fs)
  PROVE  /\ Completes(v, body, open) /\ Whole(v)
         /\ Here \in 1 .. Len(v) /\ v[Here].kind = kind
         /\ Len(body') = Here /\ Here \in Nat
<1>1. /\ Len(body') = Here /\ Here = Len(body) + 1 /\ Len(body) \in Nat
      /\ \A i \in 1 .. Len(body) : body'[i] = body[i]
      /\ body'[Here].kind = kind /\ body'[Here].to = 0
  BY WrittenTokens
<1>2. ~BetweenTwigs(open)
  BY InBlockEven
<1>3. /\ Whole(v) /\ Len(body') <= Len(v)
      /\ \A i \in 1 .. Len(body') :
           /\ v[i].kind = body'[i].kind
           /\ body'[i].to # 0 \/ body'[i].kind = "end" => v[i].to = body'[i].to
  BY Zenon DEF Completes
<1>4. Len(v) \in Nat
  BY <1>3 DEF Whole
<1>5. /\ Len(body) <= Len(v) /\ Here \in 1 .. Len(v) /\ Here \in 1 .. Len(body')
      /\ \A i \in 1 .. Len(body) : i \in 1 .. Len(body')
  BY <1>1, <1>3, <1>4
<1>6. Completes(v, body, open)
  BY <1>1, <1>2, <1>3, <1>5, Zenon DEF Completes
<1> QED BY <1>1, <1>3, <1>5, <1>6

LEMMA LinkedCompletes ==
  ASSUME Building, Joints(body, open), open # <<>>, NEW kind \in {"end", "twig", "otherwise"},
         NEW to \in Nat, body' = Linked(kind, to), NEW v, NEW fs, Completes(v, body', fs)
  PROVE  /\ Completes(v, body, open) /\ Whole(v)
         /\ Here \in 1 .. Len(v) /\ v[Here].kind = kind /\ (kind = "end" => v[Here].to = to)
         /\ v[Top.at].to = Here
         /\ Len(body') = Here /\ Here \in Nat
<1>0. kind \in Kinds
  BY DEF Kinds, Conditions
<1>1. /\ Len(body') = Here /\ Here = Len(body) + 1 /\ Len(body) \in Nat
      /\ Top.at \in 1 .. Len(body)
      /\ \A i \in 1 .. Len(body) :
           body'[i].kind = body[i].kind /\ (i # Top.at => body'[i].to = body[i].to)
      /\ body'[Top.at].to = Here
      /\ body'[Here].kind = kind /\ body'[Here].to = to
  BY <1>0, LinkedTokens
<1>3. /\ Whole(v) /\ Len(body') <= Len(v)
      /\ \A i \in 1 .. Len(body') :
           /\ v[i].kind = body'[i].kind
           /\ body'[i].to # 0 \/ body'[i].kind = "end" => v[i].to = body'[i].to
  BY Zenon DEF Completes
<1>4. Len(v) \in Nat
  BY <1>3 DEF Whole
<1>5. /\ Len(body) <= Len(v) /\ Here \in 1 .. Len(v) /\ Here \in 1 .. Len(body')
      /\ \A i \in 1 .. Len(body) : i \in 1 .. Len(body')
      /\ Here # 0
  BY <1>1, <1>3, <1>4
<1>6. v[Top.at].to = Here
  BY <1>1, <1>3, <1>5, Zenon
<1>7. body[Top.at].to = 0 /\ body[Top.at].kind # "end"
  <2>1. body[Top.at].kind \in Linkable
    <3>1. Len(open) \in 1 .. Len(open)
      <4>1. open \in Seq(Frame)
        BY DEF Building
      <4> QED BY <4>1
    <3> QED BY <3>1, Zenon DEF Joints, Top
  <2>2. body[Top.at].to = 0
    BY TopKnown
  <2> QED BY <2>1, <2>2 DEF Linkable
<1>8. \A i \in 1 .. Len(body) :
           /\ v[i].kind = body[i].kind
           /\ body[i].to # 0 \/ body[i].kind = "end" => v[i].to = body[i].to
  <2> TAKE i \in 1 .. Len(body)
  <2>1. i \in 1 .. Len(body') /\ body'[i].kind = body[i].kind
    BY <1>1, <1>5
  <2>2. v[i].kind = body[i].kind
    BY <1>3, <2>1, Zenon
  <2>3. ASSUME body[i].to # 0 \/ body[i].kind = "end"
        PROVE  v[i].to = body[i].to
    <3>1. i # Top.at
      BY <1>7, <2>3, Zenon
    <3>2. body'[i].to = body[i].to
      BY <1>1, <3>1, Zenon
    <3> QED BY <1>3, <2>1, <2>3, <3>2, Zenon
  <2> QED BY <2>2, <2>3, Zenon
<1>9. BetweenTwigs(open) => v[open[Len(open)].at].to = Len(body) + 1
  BY <1>1, <1>6, Zenon DEF Top
<1>10. Completes(v, body, open)
  BY <1>3, <1>5, <1>8, <1>9, Zenon DEF Completes
<1>11. body'[Here].kind = "end" => v[Here].to = body'[Here].to
  BY <1>3, <1>5, Zenon
<1>12. v[Here].kind = kind
  BY <1>1, <1>3, <1>5, Zenon
<1> QED BY <1>1, <1>3, <1>5, <1>6, <1>10, <1>11, <1>12

LEMMA TopToken ==
  ASSUME Building, Joints(body, open), open # <<>>, NEW v, Completes(v, body, open)
  PROVE  /\ Top.at \in 1 .. Len(v) /\ v[Top.at].kind \in Linkable
         /\ Top.kind \in Guided => v[Top.at].kind = Top.kind
<1>1. Top.at \in 1 .. Len(body)
  BY TopKnown
<1>2. Len(open) \in 1 .. Len(open)
  <2>1. open \in Seq(Frame)
    BY DEF Building
  <2> QED BY <2>1
<1>3. /\ body[Top.at].kind \in Linkable
      /\ Top.kind \in Guided => body[Top.at].kind = Top.kind
  BY <1>2, Zenon DEF Joints, Top
<1>4. v[Top.at].kind = body[Top.at].kind /\ Len(body) <= Len(v) /\ Whole(v)
  BY <1>1, Zenon DEF Completes
<1>5. Len(v) \in Nat /\ Len(body) \in Nat
  BY <1>4 DEF Whole, Building
<1> QED BY <1>1, <1>3, <1>4, <1>5

(* A simple statement, or a statement that opens. *)
LEMMA WrittenJoints ==
  ASSUME Building, Joints(body, open), NEW kind \in Kinds, NEW reads \in Nat,
         body' = Written(kind, 0, reads),
         \/ kind \notin Linkable /\ open' = open
         \/ /\ kind \in Linkable
            /\ \E f \in Frame : f.at = Here /\ f.kind = kind /\ open' = Append(open, f)
  PROVE  Joints(body', open')
<1>1. /\ Len(body') = Here /\ Here = Len(body) + 1 /\ Len(body) \in Nat
      /\ \A i \in 1 .. Len(body) : body'[i] = body[i]
      /\ body'[Here].kind = kind /\ body'[Here].to = 0
  BY WrittenTokens
<1>2. open \in Seq(Frame) /\ Len(open) \in Nat /\ Words(body, open)
  BY DEF Building
<1>3. ASSUME NEW k \in 1 .. Len(open)
      PROVE  /\ body'[open[k].at].kind \in Linkable
             /\ open[k].kind \in Guided => body'[open[k].at].kind = open[k].kind
  <2>1. open[k].at \in 1 .. Len(body)
    BY <1>2 DEF Words
  <2> QED BY <1>1, <2>1, Zenon DEF Joints
<1>4. ASSUME NEW i \in 1 .. Len(body), body[i].kind \in Linkable
      PROVE  \/ body'[i].to = 0 /\ \E k \in 1 .. Len(open) : open[k].at = i
             \/ body'[i].to \in i + 1 .. Len(body')
  <2>1. \/ body[i].to = 0 /\ \E k \in 1 .. Len(open) : open[k].at = i
        \/ body[i].to \in i + 1 .. Len(body)
    BY <1>4, Zenon DEF Joints
  <2>2. i + 1 .. Len(body) \subseteq i + 1 .. Len(body')
    BY <1>1
  <2> QED BY <1>1, <2>1, <2>2, Zenon
<1>5. \A i \in 1 .. Len(body') : i \in 1 .. Len(body) \/ i = Here
  BY <1>1
<1>6. CASE kind \notin Linkable /\ open' = open
  BY <1>1, <1>3, <1>4, <1>5, <1>6, Zenon DEF Joints
<1>7. ASSUME kind \in Linkable, NEW f \in Frame, f.at = Here, f.kind = kind, open' = Append(open, f)
      PROVE  Joints(body', open')
  <2>1. /\ Len(open') = Len(open) + 1 /\ open'[Len(open) + 1] = f
        /\ \A k \in 1 .. Len(open) : open'[k] = open[k]
    BY <1>2, <1>7
  <2>2. /\ \A k \in 1 .. Len(open') : k \in 1 .. Len(open) \/ k = Len(open) + 1
        /\ \A k \in 1 .. Len(open) : k \in 1 .. Len(open')
        /\ Len(open) + 1 \in 1 .. Len(open')
    BY <1>2, <2>1
  <2>3. ASSUME NEW k \in 1 .. Len(open')
        PROVE  /\ body'[open'[k].at].kind \in Linkable
               /\ open'[k].kind \in Guided => body'[open'[k].at].kind = open'[k].kind
    <3>1. CASE k = Len(open) + 1
      BY <1>1, <1>7, <2>1, <3>1
    <3>2. CASE k \in 1 .. Len(open)
      BY <1>3, <2>1, <3>2, Zenon
    <3> QED BY <2>2, <3>1, <3>2
  <2>4. ASSUME NEW i \in 1 .. Len(body'), body'[i].kind \in Linkable
        PROVE  \/ body'[i].to = 0 /\ \E k \in 1 .. Len(open') : open'[k].at = i
               \/ body'[i].to \in i + 1 .. Len(body')
    <3>1. CASE i = Here
      BY <1>1, <1>7, <2>1, <2>2, <3>1, Zenon
    <3>2. CASE i \in 1 .. Len(body)
      <4>1. \/ body'[i].to = 0 /\ \E k \in 1 .. Len(open) : open[k].at = i
            \/ body'[i].to \in i + 1 .. Len(body')
        BY <1>1, <1>4, <2>4, <3>2, Zenon
      <4> QED BY <2>1, <2>2, <4>1, Zenon
    <3> QED BY <1>5, <3>1, <3>2
  <2> QED BY <2>3, <2>4, Zenon DEF Joints
<1> QED BY <1>6, <1>7

(* A statement that ends, or goes on with its next part. *)
LEMMA LinkedJoints ==
  ASSUME Building, Joints(body, open), open # <<>>, NEW kind \in {"end", "twig", "otherwise"},
         NEW to \in Nat, kind # "end" => to = 0, body' = Linked(kind, to),
         \/ kind = "end" /\ open' = Below
         \/ /\ kind # "end"
            /\ \E f \in Frame : f.at = Here /\ f.kind = kind /\ open' = Append(Below, f)
  PROVE  Joints(body', open')
<1>0. kind \in Kinds
  BY DEF Kinds, Conditions
<1>1. /\ Len(body') = Here /\ Here = Len(body) + 1 /\ Len(body) \in Nat
      /\ Top.at \in 1 .. Len(body)
      /\ \A i \in 1 .. Len(body) :
           body'[i].kind = body[i].kind /\ (i # Top.at => body'[i].to = body[i].to)
      /\ body'[Top.at].to = Here
      /\ body'[Here].kind = kind /\ body'[Here].to = to
  BY <1>0, LinkedTokens
<1>2. open \in Seq(Frame) /\ Words(body, open)
  BY DEF Building
<1>3. /\ Below \in Seq(Frame) /\ Len(Below) \in Nat /\ Len(open) = Len(Below) + 1
      /\ \A k \in 1 .. Len(Below) : Below[k] = open[k]
  <2>1. Len(open) \in Nat /\ Len(open) - 1 \in 0 .. Len(open)
    BY <1>2
  <2>2. /\ Below \in Seq(Frame) /\ Len(Below) = Len(open) - 1
        /\ \A k \in 1 .. Len(open) - 1 : Below[k] = open[k]
    BY <1>2, <2>1, UpTo DEF Below
  <2> QED BY <2>1, <2>2
<1>4. /\ \A k \in 1 .. Len(open) : k \in 1 .. Len(Below) \/ k = Len(open)
      /\ \A j \in 1 .. Len(Below) : j \in 1 .. Len(open)
  BY <1>3
<1>5. ASSUME NEW k \in 1 .. Len(Below)
      PROVE  /\ body'[Below[k].at].kind \in Linkable
             /\ Below[k].kind \in Guided => body'[Below[k].at].kind = Below[k].kind
  <2>1. k \in 1 .. Len(open) /\ Below[k] = open[k]
    BY <1>3, <1>4
  <2>2. open[k].at \in 1 .. Len(body)
    BY <1>2, <2>1 DEF Words
  <2>3. /\ body[open[k].at].kind \in Linkable
        /\ open[k].kind \in Guided => body[open[k].at].kind = open[k].kind
    BY <2>1, Zenon DEF Joints
  <2>4. body'[open[k].at].kind = body[open[k].at].kind
    BY <1>1, <2>2, Zenon
  <2> QED BY <2>1, <2>3, <2>4, Zenon
<1>6. ASSUME NEW i \in 1 .. Len(body), body[i].kind \in Linkable
      PROVE  \/ body'[i].to = 0 /\ \E k \in 1 .. Len(Below) : Below[k].at = i
             \/ body'[i].to \in i + 1 .. Len(body')
  <2>1. CASE i = Top.at
    <3>1. Here \in i + 1 .. Len(body')
      BY <1>1
    <3> QED BY <1>1, <2>1, <3>1
  <2>2. CASE i # Top.at
    <3>1. \/ body[i].to = 0 /\ \E k \in 1 .. Len(open) : open[k].at = i
          \/ body[i].to \in i + 1 .. Len(body)
      BY <1>6, Zenon DEF Joints
    <3>2. i + 1 .. Len(body) \subseteq i + 1 .. Len(body')
      BY <1>1
    <3>3. \A k \in 1 .. Len(open) : open[k].at = i => k \in 1 .. Len(Below) /\ Below[k].at = i
      BY <1>3, <1>4, <2>2, Zenon DEF Top
    <3> QED BY <1>1, <2>2, <3>1, <3>2, <3>3, Zenon
  <2> QED BY <2>1, <2>2
<1>7. \A i \in 1 .. Len(body') : i \in 1 .. Len(body) \/ i = Here
  BY <1>1
<1>8. CASE kind = "end" /\ open' = Below
  <2>1. body'[Here].kind \notin Linkable
    BY <1>1, <1>8 DEF Linkable
  <2> QED BY <1>1, <1>5, <1>6, <1>7, <1>8, <2>1, Zenon DEF Joints
<1>9. ASSUME kind # "end", NEW f \in Frame, f.at = Here, f.kind = kind, open' = Append(Below, f)
      PROVE  Joints(body', open')
  <2>0. kind \in Linkable
    BY <1>9 DEF Linkable
  <2>1. /\ Len(open') = Len(Below) + 1 /\ open'[Len(Below) + 1] = f
        /\ \A k \in 1 .. Len(Below) : open'[k] = Below[k]
    BY <1>3, <1>9
  <2>2. /\ \A k \in 1 .. Len(open') : k \in 1 .. Len(Below) \/ k = Len(Below) + 1
        /\ \A k \in 1 .. Len(Below) : k \in 1 .. Len(open')
        /\ Len(Below) + 1 \in 1 .. Len(open')
    BY <1>3, <2>1
  <2>3. ASSUME NEW k \in 1 .. Len(open')
        PROVE  /\ body'[open'[k].at].kind \in Linkable
               /\ open'[k].kind \in Guided => body'[open'[k].at].kind = open'[k].kind
    <3>1. CASE k = Len(Below) + 1
      BY <1>1, <1>9, <2>0, <2>1, <3>1
    <3>2. CASE k \in 1 .. Len(Below)
      BY <1>5, <2>1, <3>2, Zenon
    <3> QED BY <2>2, <3>1, <3>2
  <2>4. ASSUME NEW i \in 1 .. Len(body'), body'[i].kind \in Linkable
        PROVE  \/ body'[i].to = 0 /\ \E k \in 1 .. Len(open') : open'[k].at = i
               \/ body'[i].to \in i + 1 .. Len(body')
    <3>1. CASE i = Here
      BY <1>1, <1>9, <2>1, <2>2, <3>1, Zenon
    <3>2. CASE i \in 1 .. Len(body)
      <4>1. \/ body'[i].to = 0 /\ \E k \in 1 .. Len(Below) : Below[k].at = i
            \/ body'[i].to \in i + 1 .. Len(body')
        BY <1>1, <1>6, <2>4, <3>2, Zenon
      <4> QED BY <2>1, <2>2, <4>1, Zenon
    <3> QED BY <1>7, <3>1, <3>2
  <2> QED BY <2>3, <2>4, Zenon DEF Joints
<1> QED BY <1>8, <1>9

-----------------------------------------------------------------------------
(* The marks of the blocks that are being built, for a body v that the function can get. *)

FrameFlows(v, N, E, f) ==
  /\ f.kind \in Guarding => E[f.eval] = Forks(v, f.at) /\ N[f.start] = Reach(v)[f.at + 1]
  /\ f.kind = "loop" => N[f.eval] = f.at
  /\ \A d \in f.dones : E[d] = Both(Reach(v)[IF f.kind = "branch" THEN v[f.at].to ELSE f.at])

FramesFlow(v, N, E, fs) == \A k \in 1 .. Len(fs) : FrameFlows(v, N, E, fs[k])

(* The next event at the insert point. *)
Expected(v, fs, w) ==
  IF BetweenTwigs(fs) THEN Failing(v, fs[Len(fs)].at) ELSE Reach(v)[Len(w) + 1]

Marks(v, N, E, bs, b, fs, w) ==
  /\ N[1] = Reach(v)[1]
  /\ Flow(v, N, E, bs)
  /\ FramesFlow(v, N, E, fs)
  /\ E[b] = Both(Expected(v, fs, w))

LEMMA FrameAgrees ==
  ASSUME NEW n \in Nat, NEW v, NEW N, NEW E, NEW M, NEW F, NEW p,
         \A b \in 1 .. n : M[b] = N[b] /\ (b # p => F[b] = E[b]),
         NEW f, FrameOK(f, n), ~Awaits(f, p), FrameFlows(v, N, E, f)
  PROVE  FrameFlows(v, M, F, f)
<1>1. f.kind \in Guarding => f.eval \in 1 .. n /\ f.start \in 1 .. n /\ f.eval # p
  <2>1. \A i \in 2 .. n : i \in 1 .. n
    OBVIOUS
  <2> QED BY <2>1, Zenon DEF FrameOK, Awaits
<1>2. \A d \in f.dones : d \in 1 .. n /\ d # p
  <2>1. \A i \in 2 .. n : i \in 1 .. n
    OBVIOUS
  <2>2. f.dones \subseteq 2 .. n
    BY DEF FrameOK
  <2> QED BY <2>1, <2>2, Zenon DEF Awaits
<1>3. f.kind = "loop" => f.kind \in Guarding
  BY DEF Guarding
<1> QED BY <1>1, <1>2, <1>3, Zenon DEF FrameFlows

LEMMA FramesAgree ==
  ASSUME NEW n \in Nat, NEW v, NEW N, NEW E, NEW M, NEW F, NEW p,
         \A b \in 1 .. n : M[b] = N[b] /\ (b # p => F[b] = E[b]),
         NEW fs, OpenOK(fs, n), NoneAwait(fs, p), FramesFlow(v, N, E, fs)
  PROVE  FramesFlow(v, M, F, fs)
<1>1. ASSUME NEW k \in 1 .. Len(fs) PROVE FrameFlows(v, M, F, fs[k])
  <2>1. FrameOK(fs[k], n) /\ ~Awaits(fs[k], p) /\ FrameFlows(v, N, E, fs[k])
    BY DEF OpenOK, NoneAwait, FramesFlow
  <2> QED BY <2>1, FrameAgrees
<1> QED BY <1>1 DEF FramesFlow

LEMMA FlowsPushed ==
  ASSUME NEW v, NEW N, NEW E, NEW fs \in Seq(Frame), NEW f \in Frame,
         FramesFlow(v, N, E, fs), FrameFlows(v, N, E, f)
  PROVE  FramesFlow(v, N, E, Append(fs, f))
BY FramesPushed, Zenon DEF FramesFlow

LEMMA FlowsPopped ==
  ASSUME Building, open # <<>>, NEW v, NEW N, NEW E, FramesFlow(v, N, E, open)
  PROVE  /\ FramesFlow(v, N, E, Below) /\ FrameFlows(v, N, E, Top)
         /\ ~BetweenTwigs(Below) /\ Below \in Seq(Frame)
<1>1. open \in Seq(Frame) /\ Nested(open)
  BY DEF Building
<1> QED BY <1>1, FramesPopped, Zenon DEF FramesFlow, Top, BetweenTwigs

(* What is known while the body is built, when it is to become v. *)
Noted(v, N, E) ==
  /\ Building /\ BlocksOK(blocks, Len(blocks)) /\ Joints(body, open)
  /\ Completes(v, body, open) /\ Marks(v, N, E, blocks, insert, open, body)

LEMMA NotedFacts ==
  ASSUME NEW v, NEW N, NEW E, Noted(v, N, E)
  PROVE  /\ Building /\ Joints(body, open) /\ Completes(v, body, open) /\ Whole(v)
         /\ N[1] = Reach(v)[1] /\ Flow(v, N, E, blocks) /\ FramesFlow(v, N, E, open)
         /\ blocks \in Seq(Seq(Instruction)) /\ Len(blocks) \in Nat /\ Len(blocks) >= 2
         /\ insert \in 1 .. Len(blocks) /\ insert \in Nat
         /\ open \in Seq(Frame) /\ OpenOK(open, Len(blocks)) /\ NoneAwait(open, insert)
         /\ ~BetweenTwigs(open) => E[insert] = Both(Reach(v)[Here])
         /\ BetweenTwigs(open) => E[insert] = Both(Failing(v, Top.at))
<1>1. /\ Building /\ Joints(body, open) /\ Completes(v, body, open)
      /\ Marks(v, N, E, blocks, insert, open, body)
  BY DEF Noted
<1>2. Whole(v)
  BY <1>1, Zenon DEF Completes
<1>3. /\ blocks \in Seq(Seq(Instruction)) /\ Len(blocks) \in Nat /\ insert \in 2 .. Len(blocks)
      /\ open \in Seq(Frame) /\ OpenOK(open, Len(blocks)) /\ NoneAwait(open, insert)
  BY <1>1 DEF Building
<1>4. Len(blocks) >= 2 /\ insert \in 1 .. Len(blocks) /\ insert \in Nat
  BY <1>3
<1>5. /\ N[1] = Reach(v)[1] /\ Flow(v, N, E, blocks) /\ FramesFlow(v, N, E, open)
      /\ E[insert] = Both(Expected(v, open, body))
  BY <1>1, Zenon DEF Marks
<1>6. /\ ~BetweenTwigs(open) => Expected(v, open, body) = Reach(v)[Here]
      /\ BetweenTwigs(open) => Expected(v, open, body) = Failing(v, Top.at)
  BY Zenon DEF Expected, Here, Top
<1> QED BY <1>1, <1>2, <1>3, <1>4, <1>5, <1>6, Zenon

(* In a block the next event is the one at Here; so it is behind the step. *)
LEMMA NextMarks ==
  ASSUME NEW v, NEW N, NEW E, NEW bs, NEW b, NEW fs, NEW w, NEW here, here = Len(w) + 1,
         N[1] = Reach(v)[1], Flow(v, N, E, bs), FramesFlow(v, N, E, fs),
         ~BetweenTwigs(fs), E[b] = Both(Reach(v)[here])
  PROVE  Marks(v, N, E, bs, b, fs, w)
BY Zenon DEF Marks, Expected

(* A statement without blocks of its own. *)
LEMMA AppendingFlows ==
  ASSUME NEW v, NEW N, NEW E, Noted(v, N, E), InBlock, UNCHANGED <<open, insert>>,
         Len(body') = Here, NEW code \in Seq(Instruction),
         Path(v, N, code, Both(Reach(v)[Here]), Both(Reach(v)[Here + 1])),
         blocks' = Emit(blocks, insert, code)
  PROVE  \E F : Marks(v, N, F, blocks', insert', open', body')
<1>1. /\ N[1] = Reach(v)[1] /\ Flow(v, N, E, blocks) /\ FramesFlow(v, N, E, open)
      /\ blocks \in Seq(Seq(Instruction)) /\ Len(blocks) \in Nat
      /\ insert \in 1 .. Len(blocks) /\ insert \in Nat
      /\ OpenOK(open, Len(blocks)) /\ NoneAwait(open, insert) /\ Building
      /\ ~BetweenTwigs(open) => E[insert] = Both(Reach(v)[Here])
  BY NotedFacts
<1>2. ~BetweenTwigs(open)
  BY <1>1, InBlockEven
<1>3. PICK t : t = Both(Reach(v)[Here + 1])
  OBVIOUS
<1>4. PICK F : Alters(F, E, insert, t)
  BY <1>1, Changed
<1>5. /\ \A i \in 1 .. Len(blocks) : i # insert => F[i] = E[i]
      /\ \A i \in 1 .. Len(blocks) : N[i] = N[i] /\ (i # insert => F[i] = E[i])
      /\ F[insert] = t
  BY <1>1, <1>4 DEF Alters
<1>6. Path(v, N, code, E[insert], F[insert])
  BY <1>1, <1>2, <1>3, <1>5
<1>7. Flow(v, N, F, Emit(blocks, insert, code))
  BY <1>1, <1>5, <1>6, FlowTurned
<1>8. FramesFlow(v, N, F, open)
  BY <1>1, <1>5, FramesAgree
<1>9. Marks(v, N, F, blocks', insert', open', body')
  <2>1. PICK bs, p, fs, w, here :
           bs = blocks' /\ p = insert' /\ fs = open' /\ w = body' /\ here = Here + 1
    OBVIOUS
  <2>2. /\ here = Len(w) + 1 /\ Flow(v, N, F, bs) /\ FramesFlow(v, N, F, fs)
        /\ ~BetweenTwigs(fs) /\ F[p] = Both(Reach(v)[here])
    BY <1>2, <1>3, <1>5, <1>7, <1>8, <2>1
  <2>3. Marks(v, N, F, bs, p, fs, w)
    BY <1>1, <2>2, NextMarks
  <2> QED BY <2>1, <2>3
<1> QED BY <1>9

LEMMA PathsOn ==
  ASSUME NEW v, NEW N, NEW x \in Instruction, NEW y \in Instruction, NEW s, NEW t, NEW u,
         Path(v, N, <<x>>, s, t), Path(v, N, <<y>>, t, u)
  PROVE  <<x, y>> \in Seq(Instruction) /\ Path(v, N, <<x, y>>, s, u)
<1>1. <<x>> \in Seq(Instruction) /\ <<y>> \in Seq(Instruction) /\ <<x>> \o <<y>> = <<x, y>>
  BY Pair
<1>2. Path(v, N, <<x>> \o <<y>>, s, u)
  BY <1>1, PathJoined
<1>3. <<x, y>> \in Seq(Instruction)
  OBVIOUS
<1> QED BY <1>1, <1>2, <1>3

LEMMA PlainTyped ==
  ASSUME NEW op \in {"eval", "alloca", "save", "restore", "ret"}, NEW at \in Nat
  PROVE  Plain(op, at) \in Instruction /\ <<Plain(op, at)>> \in Seq(Instruction)
<1>1. Plain(op, at) \in Instruction
  BY DEF Plain, Instruction, Terminators
<1> QED BY <1>1

LEMMA SimpleFlows ==
  ASSUME NEW v, NEW N, NEW E, Noted(v, N, E), Here \in 1 .. Len(v), Here \in Nat,
         v[Here].kind \in {"do", "let", "ret"}
  PROVE  /\ v[Here].kind # "ret" =>
              /\ <<Plain("eval", Here)>> \in Seq(Instruction)
              /\ Path(v, N, <<Plain("eval", Here)>>, Both(Reach(v)[Here]), Both(Reach(v)[Here + 1]))
              /\ <<Plain("alloca", Here), Plain("eval", Here)>> \in Seq(Instruction)
              /\ Path(v, N, <<Plain("alloca", Here), Plain("eval", Here)>>,
                      Both(Reach(v)[Here]), Both(Reach(v)[Here + 1]))
         /\ v[Here].kind = "ret" =>
              /\ GiveBack \o <<Plain("eval", Here), Plain("ret", Here)>> \in Seq(Instruction)
              /\ Path(v, N, GiveBack \o <<Plain("eval", Here), Plain("ret", Here)>>,
                      Both(Reach(v)[Here]), Both(Reach(v)[Here + 1]))
<1>1. PICK h : h = Here
  OBVIOUS
<1>2. Whole(v)
  BY NotedFacts
<1>3. Reach(v)[h] = h
  BY <1>1, <1>2, ReachFacts
<1>4. PICK s, t : s = Both(h) /\ t = Both(Reach(v)[h + 1])
  OBVIOUS
<1>5. v[h].kind # "ret" => Forks(v, h) = t
  BY <1>1, <1>4 DEF Forks, Both, Conditions
<1>6. /\ Path(v, N, <<Plain("alloca", h)>>, s, s)
      /\ Path(v, N, <<Plain("restore", 0)>>, s, s)
      /\ v[h].kind # "ret" => Path(v, N, <<Plain("eval", h)>>, s, t)
      /\ v[h].kind = "ret" => Path(v, N, <<Plain("eval", h)>>, s, s)
      /\ Path(v, N, <<Plain("ret", h)>>, s, t)
  BY <1>1, <1>4, <1>5, PlainLeads
<1>7. /\ Plain("alloca", h) \in Instruction /\ Plain("eval", h) \in Instruction
      /\ Plain("ret", h) \in Instruction /\ <<Plain("restore", 0)>> \in Seq(Instruction)
      /\ <<Plain("eval", h)>> \in Seq(Instruction)
  BY <1>1, PlainTyped
<1>8. CASE v[h].kind # "ret"
  <2>1. /\ <<Plain("alloca", h), Plain("eval", h)>> \in Seq(Instruction)
        /\ Path(v, N, <<Plain("alloca", h), Plain("eval", h)>>, s, t)
    BY <1>6, <1>7, <1>8, PathsOn
  <2> QED BY <1>1, <1>3, <1>4, <1>6, <1>7, <1>8, <2>1
<1>9. CASE v[h].kind = "ret"
  <2>1. PICK d : d = <<Plain("eval", h), Plain("ret", h)>>
    OBVIOUS
  <2>2. d \in Seq(Instruction) /\ Path(v, N, d, s, t)
    BY <1>6, <1>7, <1>9, <2>1, PathsOn
  <2>3. GiveBack \in Seq(Instruction) /\ Path(v, N, GiveBack, s, s)
    BY <1>6, <1>7 DEF GiveBack
  <2>4. GiveBack \o d \in Seq(Instruction) /\ Path(v, N, GiveBack \o d, s, t)
    BY <2>2, <2>3, PathJoined
  <2> QED BY <1>1, <1>3, <1>4, <1>9, <2>1, <2>4
<1> QED BY <1>8, <1>9

LEMMA StatementFlows ==
  ASSUME NEW v, NEW N, NEW E, Noted(v, N, E), Completes(v, body', open'),
         InBlock, UNCHANGED <<open, insert>>,
         NEW kind \in {"do", "let", "ret"}, NEW reads \in Nat, body' = Written(kind, 0, reads),
         NEW code, blocks' = Emit(blocks, insert, code),
         kind = "do" => code = <<Plain("eval", Here)>>,
         kind = "let" => code = <<Plain("alloca", Here), Plain("eval", Here)>>,
         kind = "ret" => code = GiveBack \o <<Plain("eval", Here), Plain("ret", Here)>>
  PROVE  \E F : Marks(v, N, F, blocks', insert', open', body')
<1>1. kind \in Kinds
  BY DEF Kinds
<1>2. Building
  BY NotedFacts
<1>3. Here \in 1 .. Len(v) /\ v[Here].kind = kind /\ Len(body') = Here /\ Here \in Nat
  BY <1>1, <1>2, WrittenCompletes
<1>4. code \in Seq(Instruction) /\ Path(v, N, code, Both(Reach(v)[Here]), Both(Reach(v)[Here + 1]))
  <2>1. v[Here].kind \in {"do", "let", "ret"}
    BY <1>3
  <2>2. /\ v[Here].kind # "ret" =>
             /\ <<Plain("eval", Here)>> \in Seq(Instruction)
             /\ Path(v, N, <<Plain("eval", Here)>>, Both(Reach(v)[Here]), Both(Reach(v)[Here + 1]))
             /\ <<Plain("alloca", Here), Plain("eval", Here)>> \in Seq(Instruction)
             /\ Path(v, N, <<Plain("alloca", Here), Plain("eval", Here)>>,
                     Both(Reach(v)[Here]), Both(Reach(v)[Here + 1]))
        /\ v[Here].kind = "ret" =>
             /\ GiveBack \o <<Plain("eval", Here), Plain("ret", Here)>> \in Seq(Instruction)
             /\ Path(v, N, GiveBack \o <<Plain("eval", Here), Plain("ret", Here)>>,
                     Both(Reach(v)[Here]), Both(Reach(v)[Here + 1]))
    BY <1>3, <2>1, SimpleFlows, Zenon
  <2>3. CASE kind = "do"
    BY <1>3, <2>2, <2>3
  <2>4. CASE kind = "let"
    BY <1>3, <2>2, <2>4
  <2>5. CASE kind = "ret"
    BY <1>3, <2>2, <2>5
  <2> QED BY <2>3, <2>4, <2>5
<1> QED BY <1>3, <1>4, AppendingFlows

LEMMA PushedMarks ==
  ASSUME NEW v, NEW N, NEW E, NEW bs, NEW b, NEW fs \in Seq(Frame), NEW f \in Frame, NEW w,
         NEW here, here = Len(w) + 1,
         N[1] = Reach(v)[1], Flow(v, N, E, bs), FramesFlow(v, N, E, fs), FrameFlows(v, N, E, f),
         f.kind # "branch" => E[b] = Both(Reach(v)[here]),
         f.kind = "branch" => E[b] = Both(Failing(v, f.at))
  PROVE  Marks(v, N, E, bs, b, Append(fs, f), w)
<1> DEFINE gs == Append(fs, f)
<1>1. gs # <<>> /\ gs[Len(gs)] = f
  BY FramesPushed
<1>2. FramesFlow(v, N, E, gs)
  BY FlowsPushed
<1> HIDE DEF gs
<1>3. BetweenTwigs(gs) <=> f.kind = "branch"
  BY <1>1 DEF BetweenTwigs
<1>4. E[b] = Both(Expected(v, gs, w))
  <2>1. CASE f.kind = "branch"
    BY <1>1, <1>3, <2>1 DEF Expected
  <2>2. CASE f.kind # "branch"
    BY <1>1, <1>3, <2>2 DEF Expected
  <2> QED BY <2>1, <2>2
<1>5. Marks(v, N, E, bs, b, gs, w)
  BY <1>2, <1>4 DEF Marks
<1> QED BY <1>5 DEF gs

LEMMA OpenBraceFlows ==
  ASSUME NEW v, NEW N, NEW E, Noted(v, N, E), Completes(v, body', open'), InBlock,
         UNCHANGED <<blocks, insert>>, NEW kind \in {"block", "branch"},
         body' = Written(kind, 0, 0), open' = Append(open, Opened(kind, 0, 0))
  PROVE  Marks(v, N, E, blocks', insert', open', body')
<1>1. /\ N[1] = Reach(v)[1] /\ Flow(v, N, E, blocks) /\ FramesFlow(v, N, E, open)
      /\ open \in Seq(Frame) /\ Building /\ Whole(v)
      /\ ~BetweenTwigs(open) => E[insert] = Both(Reach(v)[Here])
  BY NotedFacts
<1>2. kind \in Kinds /\ 0 \in Nat /\ kind \in FrameKinds
  BY DEF Kinds, FrameKinds
<1>3. Here \in 1 .. Len(v) /\ v[Here].kind = kind /\ Len(body') = Here /\ Here \in Nat
  BY <1>1, <1>2, WrittenCompletes
<1>4. PICK f : f = Opened(kind, 0, 0)
  OBVIOUS
<1>5. f \in Frame /\ f.kind = kind /\ f.at = Here /\ f.dones = {}
  BY <1>2, <1>3, <1>4 DEF Opened, Frame, FrameKinds
<1>6. FrameFlows(v, N, E, f)
  BY <1>5 DEF FrameFlows, Guarding
<1>7. E[insert] = Both(Reach(v)[Here])
  BY <1>1, InBlockEven
<1>8. /\ kind = "block" => Reach(v)[Here] = Reach(v)[Here + 1]
      /\ kind = "branch" => Reach(v)[Here] = Failing(v, Here)
  BY <1>1, <1>3, ReachFacts
<1>9. PICK w, here : w = body' /\ here = Here + 1
  OBVIOUS
<1>10. Marks(v, N, E, blocks, insert, Append(open, f), w)
  <2>1. here = Len(w) + 1
    BY <1>3, <1>9
  <2>2. /\ f.kind # "branch" => E[insert] = Both(Reach(v)[here])
        /\ f.kind = "branch" => E[insert] = Both(Failing(v, f.at))
    BY <1>5, <1>7, <1>8, <1>9
  <2> QED BY <1>1, <1>5, <1>6, <2>1, <2>2, PushedMarks
<1> QED BY <1>4, <1>9, <1>10

LEMMA CloseBlockFlows ==
  ASSUME NEW v, NEW N, NEW E, Noted(v, N, E), Completes(v, body', open'), CloseBlock
  PROVE  Marks(v, N, E, blocks', insert', open', body')
<1>0. /\ InBlockOf("block") /\ body' = Linked("end", 0) /\ open' = Below
      /\ UNCHANGED <<blocks, insert>>
  BY DEF CloseBlock
<1>1. /\ N[1] = Reach(v)[1] /\ Flow(v, N, E, blocks) /\ FramesFlow(v, N, E, open)
      /\ Building /\ Whole(v) /\ Joints(body, open)
      /\ ~BetweenTwigs(open) => E[insert] = Both(Reach(v)[Here])
  BY NotedFacts
<1>2. open # <<>> /\ Top.kind = "block"
  BY <1>0 DEF InBlockOf
<1>3. /\ Here \in 1 .. Len(v) /\ v[Here].kind = "end" /\ v[Here].to = 0
      /\ Len(body') = Here /\ Here \in Nat
  BY <1>0, <1>1, <1>2, LinkedCompletes
<1>4. Reach(v)[Here] = Reach(v)[Here + 1]
  BY <1>1, <1>3, ReachFacts
<1>5. ~BetweenTwigs(open)
  BY <1>2 DEF BetweenTwigs, Top
<1>6. FramesFlow(v, N, E, Below) /\ ~BetweenTwigs(Below)
  BY <1>1, <1>2, FlowsPopped
<1>7. PICK w, here, fs : w = body' /\ here = Here + 1 /\ fs = Below
  OBVIOUS
<1>8. Marks(v, N, E, blocks, insert, fs, w)
  <2>1. here = Len(w) + 1 /\ FramesFlow(v, N, E, fs) /\ ~BetweenTwigs(fs)
        /\ E[insert] = Both(Reach(v)[here])
    BY <1>1, <1>3, <1>4, <1>5, <1>6, <1>7
  <2> QED BY <1>1, <2>1, NextMarks
<1> QED BY <1>0, <1>7, <1>8

(* Marks for two blocks that do not exist yet. *)
Prolongs(v, N, E, M, F, n, p, q, s, t) ==
  /\ Reaches(M, N, n, p, q) /\ Reaches(F, E, n, s, t)
  /\ M[1] = Reach(v)[1] /\ Flow(v, M, F, blocks) /\ FramesFlow(v, M, F, open)

LEMMA Prolonging ==
  ASSUME NEW v, NEW N, NEW E, Noted(v, N, E), NEW n, n = Len(blocks),
         NEW p, NEW q, NEW s, NEW t
  PROVE  \E M, F : Prolongs(v, N, E, M, F, n, p, q, s, t)
<1>1. /\ N[1] = Reach(v)[1] /\ Flow(v, N, E, blocks) /\ FramesFlow(v, N, E, open)
      /\ Len(blocks) \in Nat /\ Len(blocks) >= 2
      /\ OpenOK(open, Len(blocks)) /\ NoneAwait(open, insert)
  BY NotedFacts
<1>2. BlocksOK(blocks, Len(blocks))
  BY DEF Noted
<1>3. PICK M : Reaches(M, N, n, p, q)
  BY <1>1, Further
<1>4. PICK F : Reaches(F, E, n, s, t)
  BY <1>1, Further
<1>5. /\ \A b \in 1 .. n : M[b] = N[b] /\ F[b] = E[b]
      /\ \A b \in 1 .. n : M[b] = N[b] /\ (b # insert => F[b] = E[b])
  BY <1>3, <1>4 DEF Reaches
<1>6. Flow(v, M, F, blocks)
  BY <1>1, <1>2, <1>5, FlowAgrees
<1>7. FramesFlow(v, M, F, open)
  BY <1>1, <1>5, FramesAgree
<1>8. M[1] = Reach(v)[1]
  BY <1>1, <1>5
<1> QED BY <1>3, <1>4, <1>6, <1>7, <1>8 DEF Prolongs

LEMMA ProlongsFacts ==
  ASSUME NEW v, NEW N, NEW E, NEW M, NEW F, NEW n, NEW p, NEW q, NEW s, NEW t,
         Prolongs(v, N, E, M, F, n, p, q, s, t)
  PROVE  /\ M[n + 1] = p /\ M[n + 2] = q /\ F[n + 1] = s /\ F[n + 2] = t
         /\ \A b \in 1 .. n : M[b] = N[b] /\ F[b] = E[b]
         /\ M[1] = Reach(v)[1] /\ Flow(v, M, F, blocks) /\ FramesFlow(v, M, F, open)
BY Zenon DEF Prolongs, Reaches

(* Br and CondBr as code. *)
LEMMA JumpCodeTyped ==
  ASSUME NEW b \in Nat, NEW c \in Nat, NEW at \in Nat
  PROVE  <<Br(b)>> \in Seq(Instruction) /\ <<CondBr(at, b, c)>> \in Seq(Instruction)
<1>1. Br(b) \in Instruction /\ CondBr(at, b, c) \in Instruction
  BY DEF Br, CondBr, Instruction, Terminators
<1> QED BY <1>1

(* The block that evaluates a condition, and the one that the condition guards. *)
Guards(v, N, E, M, F, n, h, t, bs) ==
  /\ Prolongs(v, N, E, M, F, n, h, t, Forks(v, h), Both(t))
  /\ Flow(v, M, F, bs)
  /\ bs \in Seq(Seq(Instruction)) /\ Len(bs) = n + 2

LEMMA GuardFlows ==
  ASSUME NEW v, NEW N, NEW E, Noted(v, N, E), InBlock, NEW n, n = Len(blocks),
         NEW h, h = Here, h \in 1 .. Len(v), h \in Nat, v[h].kind \in {"if", "loop"},
         NEW t, t = Reach(v)[h + 1],
         NEW bs,
         bs = New(Emit(New(Emit(blocks, insert, <<Br(n + 1)>>)), n + 1, <<Plain("eval", h)>>))
  PROVE  \E M, F : Guards(v, N, E, M, F, n, h, t, bs)
<1>1. /\ blocks \in Seq(Seq(Instruction)) /\ n \in Nat /\ insert \in 1 .. n /\ Whole(v) /\ Building
      /\ ~BetweenTwigs(open) => E[insert] = Both(Reach(v)[Here])
  BY NotedFacts
<1>2. PICK M, F : Prolongs(v, N, E, M, F, n, h, t, Forks(v, h), Both(t))
  <2>1. PICK x, y : x = Forks(v, h) /\ y = Both(t)
    OBVIOUS
  <2>2. \E M, F : Prolongs(v, N, E, M, F, n, h, t, x, y)
    BY Prolonging
  <2> QED BY <2>1, <2>2
<1>3. /\ M[n + 1] = h /\ M[n + 2] = t /\ F[n + 1] = Forks(v, h) /\ F[n + 2] = Both(t)
      /\ \A b \in 1 .. n : M[b] = N[b] /\ F[b] = E[b]
      /\ Flow(v, M, F, blocks)
  BY <1>2, ProlongsFacts
<1>4. F[insert] = Both(M[n + 1])
  <2>1. ~BetweenTwigs(open)
    BY <1>1, InBlockEven
  <2>2. Reach(v)[h] = h
    BY <1>1, ReachFacts
  <2> QED BY <1>1, <1>3, <2>1, <2>2
<1>5. PICK br, code : br = <<Br(n + 1)>> /\ code = <<Plain("eval", h)>>
  OBVIOUS
<1>6. br \in Seq(Instruction) /\ code \in Seq(Instruction)
  <2>1. n + 1 \in Nat
    BY <1>1
  <2>2. <<Br(n + 1)>> \in Seq(Instruction)
    BY <2>1, JumpCodeTyped
  <2>3. <<Plain("eval", h)>> \in Seq(Instruction)
    BY PlainTyped
  <2> QED BY <1>5, <2>2, <2>3, Zenon
<1>7. Path(v, M, br, F[insert], F[insert])
  BY <1>4, <1>5, BrLeads
<1>8. Path(v, M, code, Both(M[n + 1]), F[n + 1])
  <2>1. v[h].kind # "ret"
    OBVIOUS
  <2>2. Path(v, M, <<Plain("eval", h)>>, Both(h), Forks(v, h))
    BY <2>1, PlainLeads, Zenon
  <2> QED BY <1>3, <1>5, <2>2, Zenon
<1>9. PICK cs : cs = Emit(blocks, insert, br)
  OBVIOUS
<1>10. Flow(v, M, F, cs) /\ cs \in Seq(Seq(Instruction)) /\ Len(cs) = n
  BY <1>1, <1>3, <1>6, <1>7, <1>9, FlowEmit
<1>11. PICK ds, m : ds = Emit(New(cs), m, code) /\ m = n + 1
  OBVIOUS
<1>12. Flow(v, M, F, ds) /\ ds \in Seq(Seq(Instruction)) /\ Len(ds) = m
  <2>1. m = Len(cs) + 1 /\ Path(v, M, code, Both(M[m]), F[m])
    BY <1>8, <1>10, <1>11
  <2> QED BY <1>6, <1>10, <1>11, <2>1, FlowFresh
<1>13. bs = New(ds)
  BY <1>5, <1>9, <1>11
<1>14. Len(ds) + 1 = n + 2 /\ F[Len(ds) + 1] = Both(M[Len(ds) + 1])
  <2>1. Len(ds) = n + 1 /\ n \in Nat
    BY <1>1, <1>11, <1>12, Zenon
  <2>2. Len(ds) + 1 = n + 2
    BY <2>1
  <2> QED BY <1>3, <2>1, <2>2
<1>15. Flow(v, M, F, bs) /\ bs \in Seq(Seq(Instruction)) /\ Len(bs) = n + 2
  BY <1>12, <1>13, <1>14, FlowNew
<1> QED BY <1>2, <1>15, Zenon DEF Guards

(* The frame of a conditional or a loop. *)
LEMMA GuardMarks ==
  ASSUME NEW v, NEW N, NEW E, Noted(v, N, E), NEW n, n = Len(blocks),
         NEW kind \in {"if", "loop"}, NEW h, h = Here, h \in Nat, NEW t, t = Reach(v)[h + 1],
         NEW M, NEW F, Prolongs(v, N, E, M, F, n, h, t, Forks(v, h), Both(t)),
         NEW bs, Flow(v, M, F, bs), NEW w, Len(w) = h,
         NEW f, f = Opened(kind, n + 1, n + 2)
  PROVE  Marks(v, M, F, bs, n + 2, Append(open, f), w)
<1>1. n \in Nat /\ open \in Seq(Frame)
  BY NotedFacts
<1>2. /\ M[n + 1] = h /\ M[n + 2] = t /\ F[n + 1] = Forks(v, h) /\ F[n + 2] = Both(t)
      /\ M[1] = Reach(v)[1] /\ FramesFlow(v, M, F, open)
  BY ProlongsFacts
<1>3. /\ f \in Frame /\ f.kind = kind /\ f.at = h /\ f.eval = n + 1 /\ f.start = n + 2
      /\ f.dones = {}
  BY <1>1 DEF Opened, Frame
<1>4. FrameFlows(v, M, F, f)
  BY <1>2, <1>3 DEF FrameFlows
<1>5. PICK here, b : here = h + 1 /\ b = n + 2
  OBVIOUS
<1>6. here = Len(w) + 1 /\ f.kind # "branch" /\ F[b] = Both(Reach(v)[here])
  BY <1>2, <1>3, <1>5
<1>7. Marks(v, M, F, bs, b, Append(open, f), w)
  BY <1>1, <1>2, <1>3, <1>4, <1>6, PushedMarks
<1> QED BY <1>5, <1>7

LEMMA OpenConditionalFlows ==
  ASSUME NEW v, NEW N, NEW E, Noted(v, N, E), Completes(v, body', open'), OpenConditional
  PROVE  \E M, F : Marks(v, M, F, blocks', insert', open', body')
<1>0. PICK n, h, t : n = Len(blocks) /\ h = Here /\ t = Reach(v)[h + 1]
  OBVIOUS
<1>1. /\ InBlock /\ body' = Written("if", 0, 0) /\ insert' = n + 2
      /\ open' = Append(open, Opened("if", n + 1, n + 2))
      /\ blocks' = New(Emit(New(Emit(blocks, insert, <<Br(n + 1)>>)), n + 1, <<Plain("eval", h)>>))
  BY <1>0 DEF OpenConditional
<1>2. Building /\ "if" \in Kinds /\ 0 \in Nat
  BY NotedFacts DEF Kinds, Conditions
<1>3. h \in 1 .. Len(v) /\ v[h].kind = "if" /\ Len(body') = h /\ h \in Nat
  BY <1>0, <1>1, <1>2, WrittenCompletes
<1>4. v[h].kind \in {"if", "loop"}
  BY <1>3
<1>5. PICK bs : bs = blocks'
  OBVIOUS
<1>6. PICK M, F : Prolongs(v, N, E, M, F, n, h, t, Forks(v, h), Both(t)) /\ Flow(v, M, F, bs)
  <2>1. bs = New(Emit(New(Emit(blocks, insert, <<Br(n + 1)>>)), n + 1, <<Plain("eval", h)>>))
    BY <1>1, <1>5
  <2>2. \E M, F : Guards(v, N, E, M, F, n, h, t, bs)
    BY <1>0, <1>1, <1>3, <1>4, <2>1, GuardFlows, Zenon
  <2> QED BY <2>2, Zenon DEF Guards
<1>7. PICK f, w, kind :
        f = Opened(kind, n + 1, n + 2) /\ w = body' /\ kind = "if"
  OBVIOUS
<1>8. Marks(v, M, F, bs, n + 2, Append(open, f), w)
  <2>1. Len(w) = h /\ kind \in {"if", "loop"}
    BY <1>3, <1>7
  <2> QED BY <1>0, <1>3, <1>6, <1>7, <2>1, GuardMarks
<1> QED BY <1>1, <1>5, <1>7, <1>8

LEMMA OpenLoopFlows ==
  ASSUME NEW v, NEW N, NEW E, Noted(v, N, E), Completes(v, body', open'), OpenLoop
  PROVE  \E M, F : Marks(v, M, F, blocks', insert', open', body')
<1>0. PICK n, h, t, bs, code :
        /\ n = Len(blocks) /\ h = Here /\ t = Reach(v)[h + 1] /\ code = <<Plain("save", h)>>
        /\ bs = New(Emit(New(Emit(blocks, insert, <<Br(n + 1)>>)), n + 1, <<Plain("eval", h)>>))
  OBVIOUS
<1>1. /\ InBlock /\ body' = Written("loop", 0, 0) /\ insert' = n + 2
      /\ open' = Append(open, Opened("loop", n + 1, n + 2))
      /\ blocks' = Emit(bs, n + 2, code)
  BY <1>0 DEF OpenLoop
<1>2. Building /\ "loop" \in Kinds /\ 0 \in Nat
  BY NotedFacts DEF Kinds, Conditions
<1>3. h \in 1 .. Len(v) /\ v[h].kind = "loop" /\ Len(body') = h /\ h \in Nat
  BY <1>0, <1>1, <1>2, WrittenCompletes
<1>4. v[h].kind \in {"if", "loop"}
  BY <1>3
<1>6. PICK M, F : /\ Prolongs(v, N, E, M, F, n, h, t, Forks(v, h), Both(t)) /\ Flow(v, M, F, bs)
                  /\ bs \in Seq(Seq(Instruction)) /\ Len(bs) = n + 2
  <2>2. \E M, F : Guards(v, N, E, M, F, n, h, t, bs)
    BY <1>0, <1>1, <1>3, <1>4, GuardFlows, Zenon
  <2> QED BY <2>2, Zenon DEF Guards
<1>7. PICK f, w, kind, b, ds :
        /\ f = Opened(kind, n + 1, n + 2) /\ w = body' /\ kind = "loop"
        /\ b = n + 2 /\ ds = Emit(bs, b, code)
  OBVIOUS
<1>8. n \in Nat /\ b \in 1 .. Len(bs)
  <2>1. n \in Nat
    BY <1>0, NotedFacts
  <2> QED BY <1>6, <1>7, <2>1
<1>9. code \in Seq(Instruction) /\ Path(v, M, code, F[b], F[b])
  BY <1>0, <1>3, PlainTyped, PlainLeads
<1>10. Flow(v, M, F, ds)
  BY <1>6, <1>7, <1>8, <1>9, FlowEmit
<1>11. Marks(v, M, F, ds, n + 2, Append(open, f), w)
  <2>1. Len(w) = h /\ kind \in {"if", "loop"}
    BY <1>3, <1>7
  <2> QED BY <1>0, <1>3, <1>6, <1>7, <1>10, <2>1, GuardMarks
<1> QED BY <1>1, <1>7, <1>11

-----------------------------------------------------------------------------
(* Statements end. *)

(* The jump of a condition, when the block for its failure is known. *)
LEMMA GuardPath ==
  ASSUME NEW v, NEW N, NEW E, Noted(v, N, E), open # <<>>, Top.kind \in Guarding,
         NEW M, NEW F, \A b \in 1 .. Len(blocks) : M[b] = N[b] /\ F[b] = E[b],
         NEW e \in Nat, M[e] = Failing(v, Top.at)
  PROVE  /\ <<CondBr(Top.at, Top.start, e)>> \in Seq(Instruction)
         /\ Path(v, M, <<CondBr(Top.at, Top.start, e)>>, F[Top.eval], F[Top.eval])
         /\ Top.eval \in 1 .. Len(blocks)
<1>1. /\ Building /\ Joints(body, open) /\ Completes(v, body, open) /\ FramesFlow(v, N, E, open)
  BY NotedFacts
<1>2. /\ Top.eval \in 2 .. Len(blocks) /\ Top.start \in 2 .. Len(blocks) /\ Top.at \in Nat
  BY <1>1, TopKnown
<1>3. Top.eval \in 1 .. Len(blocks) /\ Top.start \in 1 .. Len(blocks) /\ Top.start \in Nat
  BY <1>2
<1>4. FrameFlows(v, N, E, Top)
  BY <1>1, FlowsPopped
<1>5. E[Top.eval] = Forks(v, Top.at) /\ N[Top.start] = Reach(v)[Top.at + 1]
  BY <1>4 DEF FrameFlows
<1>6. v[Top.at].kind \in Conditions
  <2>1. Top.kind \in Guided => v[Top.at].kind = Top.kind
    BY <1>1, TopToken
  <2> QED BY <2>1 DEF Guarding, Guided, Conditions
<1>7. F[Top.eval] = [yes |-> M[Top.start], no |-> M[e]]
  BY <1>3, <1>5, <1>6 DEF Forks
<1>8. Path(v, M, <<CondBr(Top.at, Top.start, e)>>, F[Top.eval], F[Top.eval])
  BY <1>7, CondBrLeads
<1>9. <<CondBr(Top.at, Top.start, e)>> \in Seq(Instruction)
  BY <1>2, <1>3, JumpCodeTyped
<1> QED BY <1>3, <1>8, <1>9

LEMMA PoppedMarks ==
  ASSUME NEW v, NEW N, NEW E, Noted(v, N, E), open # <<>>, NEW M, NEW F,
         FramesFlow(v, M, F, open), M[1] = Reach(v)[1], NEW bs, Flow(v, M, F, bs),
         NEW b, NEW w, Len(w) = Here, F[b] = Both(Reach(v)[Here + 1])
  PROVE  Marks(v, M, F, bs, b, Below, w)
<1>1. Building
  BY NotedFacts
<1>2. FramesFlow(v, M, F, Below) /\ ~BetweenTwigs(Below)
  BY <1>1, FlowsPopped
<1>3. PICK here, fs : here = Here + 1 /\ fs = Below
  OBVIOUS
<1>4. /\ here = Len(w) + 1 /\ FramesFlow(v, M, F, fs) /\ ~BetweenTwigs(fs)
      /\ F[b] = Both(Reach(v)[here])
  BY <1>2, <1>3
<1>5. Marks(v, M, F, bs, b, fs, w)
  BY <1>4, NextMarks
<1> QED BY <1>3, <1>5

(* The end of the statement on top, which is not a branch. *)
LEMMA EndReached ==
  ASSUME NEW v, NEW N, NEW E, Noted(v, N, E), Completes(v, body', open'), open # <<>>,
         NEW to \in Nat, body' = Linked("end", to)
  PROVE  /\ to = 0 => Reach(v)[Here] = Reach(v)[Here + 1]
         /\ to # 0 => Reach(v)[Here] = to
         /\ Failing(v, Top.at) = Reach(v)[Here + 1] /\ v[Top.at].to = Here
         /\ Len(body') = Here /\ Here \in Nat
         /\ Top.kind # "branch" => E[insert] = Both(Reach(v)[Here])
         /\ Top.kind = "branch" => E[insert] = Both(Reach(v)[Here + 1])
         /\ Top.kind = "otherwise" => Reach(v)[Top.at] = Reach(v)[Here]
<1>1. /\ Building /\ Whole(v) /\ Joints(body, open) /\ Completes(v, body, open)
      /\ ~BetweenTwigs(open) => E[insert] = Both(Reach(v)[Here])
      /\ BetweenTwigs(open) => E[insert] = Both(Failing(v, Top.at))
  BY NotedFacts
<1>2. /\ Here \in 1 .. Len(v) /\ v[Here].kind = "end" /\ v[Here].to = to
      /\ v[Top.at].to = Here /\ Len(body') = Here /\ Here \in Nat
  BY <1>1, LinkedCompletes
<1>3. /\ to = 0 => Reach(v)[Here] = Reach(v)[Here + 1]
      /\ to # 0 => Reach(v)[Here] = to
  BY <1>1, <1>2, ReachFacts
<1>4. Failing(v, Top.at) = Reach(v)[Here + 1]
  BY <1>2 DEF Failing
<1>5. BetweenTwigs(open) <=> Top.kind = "branch"
  BY DEF BetweenTwigs, Top
<1>6. Top.kind = "otherwise" => Reach(v)[Top.at] = Reach(v)[Here]
  <2>1. /\ Top.at \in 1 .. Len(v)
        /\ Top.kind \in Guided => v[Top.at].kind = Top.kind
    BY <1>1, TopToken
  <2>2. v[Top.at].kind \in {"twig", "otherwise"} => Reach(v)[Top.at] = Reach(v)[v[Top.at].to]
    <3>1. PICK i, k : i = Top.at /\ k = v[i].kind
      OBVIOUS
    <3> QED BY <1>1, <2>1, <3>1, ReachFacts
  <2> QED BY <1>2, <2>1, <2>2 DEF Guided
<1> QED BY <1>1, <1>2, <1>3, <1>4, <1>5, <1>6

LEMMA CloseConditionalFlows ==
  ASSUME NEW v, NEW N, NEW E, Noted(v, N, E), Completes(v, body', open'), CloseConditional
  PROVE  \E M, F : Marks(v, M, F, blocks', insert', open', body')
<1>0. PICK n, e, t, br, code, at, ev, st :
        /\ n = Len(blocks) /\ e = n + 1 /\ t = Reach(v)[Here + 1] /\ br = <<Br(e)>>
        /\ code = <<CondBr(Top.at, Top.start, e)>> /\ at = Top.at /\ ev = Top.eval /\ st = Top.start
  OBVIOUS
<1>1. /\ InBlockOf("if") /\ body' = Linked("end", 0) /\ insert' = e /\ open' = Below
      /\ blocks' = Emit(EmitIfOpen(New(blocks), insert, br), ev, code)
  BY <1>0 DEF CloseConditional
<1>2. open # <<>> /\ Top.kind = "if"
  BY <1>1 DEF InBlockOf
<1>3. /\ Reach(v)[Here] = t /\ Failing(v, Top.at) = t
      /\ Len(body') = Here /\ Here \in Nat /\ E[insert] = Both(t)
  BY <1>0, <1>1, <1>2, EndReached
<1>4. PICK M, F : Prolongs(v, N, E, M, F, n, t, t, Both(t), Both(t))
  <2>1. PICK x : x = Both(t)
    OBVIOUS
  <2>2. \E M, F : Prolongs(v, N, E, M, F, n, t, t, x, x)
    BY <1>0, Prolonging
  <2> QED BY <2>1, <2>2
<1>5. /\ M[e] = t /\ F[e] = Both(t)
      /\ \A b \in 1 .. n : M[b] = N[b] /\ F[b] = E[b]
      /\ M[1] = Reach(v)[1] /\ Flow(v, M, F, blocks) /\ FramesFlow(v, M, F, open)
  BY <1>0, <1>4, ProlongsFacts
<1>6. /\ blocks \in Seq(Seq(Instruction)) /\ n \in Nat /\ insert \in 1 .. n
  BY <1>0, NotedFacts
<1>7. /\ code \in Seq(Instruction) /\ Path(v, M, code, F[ev], F[ev]) /\ ev \in 1 .. n
  <2>1. e \in Nat /\ Top.kind \in Guarding /\ M[e] = Failing(v, Top.at)
    BY <1>0, <1>2, <1>3, <1>5, <1>6 DEF Guarding
  <2> QED BY <1>0, <1>2, <1>5, <2>1, GuardPath
<1>8. br \in Seq(Instruction) /\ Path(v, M, br, F[insert], F[insert])
  <2>1. F[insert] = Both(M[e]) /\ e \in Nat
    BY <1>0, <1>3, <1>5, <1>6
  <2> QED BY <1>0, <2>1, BrLeads, JumpCodeTyped
<1>9. PICK bs, cs, ds :
         bs = New(blocks) /\ cs = EmitIfOpen(bs, insert, br) /\ ds = Emit(cs, ev, code)
  OBVIOUS
<1>10. Flow(v, M, F, bs) /\ bs \in Seq(Seq(Instruction)) /\ Len(bs) = e
  <2>1. F[Len(blocks) + 1] = Both(M[Len(blocks) + 1])
    BY <1>0, <1>5
  <2> QED BY <1>0, <1>5, <1>6, <1>9, <2>1, FlowNew
<1>11. insert \in 1 .. Len(bs) /\ ev \in 1 .. Len(bs)
  BY <1>0, <1>6, <1>7, <1>10
<1>12. Flow(v, M, F, cs) /\ cs \in Seq(Seq(Instruction)) /\ Len(cs) = Len(bs)
  BY <1>8, <1>9, <1>10, <1>11, FlowEmit
<1>13. Flow(v, M, F, ds)
  <2>1. ev \in 1 .. Len(cs)
    BY <1>11, <1>12
  <2> QED BY <1>7, <1>9, <1>12, <2>1, FlowEmit
<1>14. PICK w : w = body'
  OBVIOUS
<1>15. Marks(v, M, F, ds, e, Below, w)
  <2>1. Len(w) = Here /\ F[e] = Both(Reach(v)[Here + 1])
    BY <1>0, <1>3, <1>5, <1>14
  <2> QED BY <1>2, <1>5, <1>13, <2>1, PoppedMarks
<1> QED BY <1>1, <1>9, <1>14, <1>15

LEMMA CloseLoopFlows ==
  ASSUME NEW v, NEW N, NEW E, Noted(v, N, E), Completes(v, body', open'), CloseLoop
  PROVE  \E M, F : Marks(v, M, F, blocks', insert', open', body')
<1>0. PICK n, e, g, t, at, ev, give, br, back, code :
        /\ n = Len(blocks) /\ g = n + 1 /\ e = n + 2 /\ t = Reach(v)[Here + 1]
        /\ at = Top.at /\ ev = Top.eval
        /\ give = RestoreRound /\ br = <<Br(g)>> /\ back = <<Br(ev)>>
        /\ code = <<CondBr(Top.at, Top.start, e)>>
  OBVIOUS
<1>1. /\ InBlockOf("loop") /\ body' = Linked("end", at) /\ insert' = e /\ open' = Below
      /\ blocks' = Emit(New(Emit(EmitIfOpen(New(Emit(blocks, insert, give)), insert, br), g, back)),
                        ev, code)
  BY <1>0 DEF CloseLoop
<1>2. open # <<>> /\ Top.kind = "loop" /\ Building /\ FramesFlow(v, N, E, open)
  BY <1>1, NotedFacts DEF InBlockOf
<1>3. at \in Nat /\ at # 0 /\ ev \in 2 .. n
  <2>1. Top.at \in 1 .. Len(body) /\ Len(body) \in Nat
    BY <1>2, TopKnown DEF Building
  <2>2. Top.eval \in 2 .. Len(blocks)
    BY <1>2, TopKnown DEF Guarding
  <2> QED BY <1>0, <2>1, <2>2
<1>4. /\ Reach(v)[Here] = at /\ Failing(v, Top.at) = t
      /\ Len(body') = Here /\ Here \in Nat /\ E[insert] = Both(at)
  BY <1>0, <1>1, <1>2, <1>3, EndReached
<1>5. PICK M, F : Prolongs(v, N, E, M, F, n, at, t, Both(at), Both(t))
  <2>1. PICK x, y : x = Both(at) /\ y = Both(t)
    OBVIOUS
  <2>2. \E M, F : Prolongs(v, N, E, M, F, n, at, t, x, y)
    BY <1>0, Prolonging
  <2> QED BY <2>1, <2>2
<1>6. /\ M[g] = at /\ F[g] = Both(at) /\ M[e] = t /\ F[e] = Both(t)
      /\ \A b \in 1 .. n : M[b] = N[b] /\ F[b] = E[b]
      /\ M[1] = Reach(v)[1] /\ Flow(v, M, F, blocks) /\ FramesFlow(v, M, F, open)
  BY <1>0, <1>5, ProlongsFacts
<1>7. blocks \in Seq(Seq(Instruction)) /\ n \in Nat /\ insert \in 1 .. n
  BY <1>0, NotedFacts
<1>8. code \in Seq(Instruction) /\ Path(v, M, code, F[ev], F[ev])
  <2>1. e \in Nat /\ Top.kind \in Guarding /\ M[e] = Failing(v, Top.at)
    BY <1>0, <1>2, <1>4, <1>6, <1>7 DEF Guarding
  <2> QED BY <1>0, <1>2, <1>6, <2>1, GuardPath
<1>9. F[insert] = Both(M[g]) /\ F[g] = Both(M[ev])
  <2>1. N[ev] = at
    BY <1>0, <1>2, FlowsPopped DEF FrameFlows
  <2>2. ev \in 1 .. n
    BY <1>3, <1>7
  <2> QED BY <1>4, <1>6, <1>7, <2>1, <2>2
<1>10. /\ br \in Seq(Instruction) /\ Path(v, M, br, F[insert], F[insert])
       /\ back \in Seq(Instruction) /\ Path(v, M, back, F[g], F[g])
  <2>1. g \in Nat /\ ev \in Nat
    BY <1>0, <1>3, <1>7
  <2> QED BY <1>0, <1>9, <2>1, BrLeads, JumpCodeTyped
<1>11. give \in Seq(Instruction) /\ Path(v, M, give, F[insert], F[insert])
  <2>1. give = <<Plain("restore", at)>>
    BY <1>0 DEF RestoreRound
  <2> QED BY <1>3, <2>1, PlainTyped, PlainLeads
<1>12. PICK as, bs, cs, ds, es, fs :
         /\ as = Emit(blocks, insert, give) /\ bs = New(as) /\ cs = EmitIfOpen(bs, insert, br)
         /\ ds = Emit(cs, g, back) /\ es = New(ds) /\ fs = Emit(es, ev, code)
  OBVIOUS
<1>13. Flow(v, M, F, as) /\ as \in Seq(Seq(Instruction)) /\ Len(as) = n
  BY <1>0, <1>6, <1>7, <1>11, <1>12, FlowEmit
<1>14. Flow(v, M, F, bs) /\ bs \in Seq(Seq(Instruction)) /\ Len(bs) = g
  <2>1. Len(as) + 1 = g
    BY <1>0, <1>13
  <2>2. F[Len(as) + 1] = Both(M[Len(as) + 1])
    BY <1>6, <2>1
  <2> QED BY <1>12, <1>13, <2>1, <2>2, FlowNew
<1>15. insert \in 1 .. Len(bs) /\ g \in 1 .. g /\ ev \in 1 .. e
  <2>1. insert \in 1 .. g /\ g \in 1 .. g /\ ev \in 1 .. e
    BY <1>0, <1>3, <1>7
  <2>2. Len(bs) = g
    BY <1>14
  <2> QED BY <2>1, <2>2
<1>16. Flow(v, M, F, cs) /\ cs \in Seq(Seq(Instruction)) /\ Len(cs) = g
  BY <1>10, <1>12, <1>14, <1>15, FlowEmit
<1>17. Flow(v, M, F, ds) /\ ds \in Seq(Seq(Instruction)) /\ Len(ds) = g
  BY <1>10, <1>12, <1>15, <1>16, FlowEmit
<1>18. Flow(v, M, F, es) /\ es \in Seq(Seq(Instruction)) /\ Len(es) = e
  <2>1. Len(ds) + 1 = e
    BY <1>0, <1>7, <1>17
  <2>2. F[Len(ds) + 1] = Both(M[Len(ds) + 1])
    BY <1>6, <2>1
  <2> QED BY <1>12, <1>17, <2>1, <2>2, FlowNew
<1>19. Flow(v, M, F, fs)
  BY <1>8, <1>12, <1>15, <1>18, FlowEmit
<1>20. PICK w : w = body'
  OBVIOUS
<1>21. Marks(v, M, F, fs, e, Below, w)
  <2>1. Len(w) = Here /\ F[e] = Both(Reach(v)[Here + 1])
    BY <1>0, <1>4, <1>6, <1>20
  <2> QED BY <1>2, <1>6, <1>19, <2>1, PoppedMarks
<1> QED BY <1>1, <1>12, <1>20, <1>21

(* A branch that ends. *)
LEMMA CloseBranchFlows ==
  ASSUME NEW v, NEW N, NEW E, Noted(v, N, E), Completes(v, body', open'), CloseBranch
  PROVE  \E M, F : Marks(v, M, F, blocks', insert', open', body')
<1>0. PICK n, e, t : n = Len(blocks) /\ e = n + 1 /\ t = Reach(v)[Here + 1]
  OBVIOUS
<1>1. /\ Between /\ body' = Linked("end", 0) /\ insert' = e /\ open' = Below
      /\ blocks' = Joined(blocks, Top.dones, insert)
  BY <1>0 DEF CloseBranch
<1>2. open # <<>> /\ Top.kind = "branch" /\ Building /\ FramesFlow(v, N, E, open)
  BY <1>1, NotedFacts DEF Between
<1>3. /\ Reach(v)[Here] = t /\ v[Top.at].to = Here
      /\ Len(body') = Here /\ Here \in Nat /\ E[insert] = Both(t)
  BY <1>0, <1>1, <1>2, EndReached
<1>4. PICK M, F : Prolongs(v, N, E, M, F, n, t, t, Both(t), Both(t))
  <2>1. PICK x : x = Both(t)
    OBVIOUS
  <2>2. \E M, F : Prolongs(v, N, E, M, F, n, t, t, x, x)
    BY <1>0, Prolonging
  <2> QED BY <2>1, <2>2
<1>5. /\ M[e] = t /\ F[e] = Both(t)
      /\ \A b \in 1 .. n : M[b] = N[b] /\ F[b] = E[b]
      /\ M[1] = Reach(v)[1] /\ Flow(v, M, F, blocks) /\ FramesFlow(v, M, F, open)
  BY <1>0, <1>4, ProlongsFacts
<1>6. blocks \in Seq(Seq(Instruction)) /\ n \in Nat /\ insert \in 1 .. n
  BY <1>0, NotedFacts
<1>7. \A d \in Top.dones : E[d] = Both(t)
  <2>1. FrameFlows(v, N, E, Top)
    BY <1>2, FlowsPopped
  <2> QED BY <1>2, <1>3, <2>1 DEF FrameFlows
<1>8. \A b \in 1 .. Len(blocks) : b \in Top.dones \cup {insert} => F[b] = Both(M[e])
  BY <1>0, <1>3, <1>5, <1>7
<1>9. Flow(v, M, F, Joined(blocks, Top.dones, insert))
  <2>1. PICK dones, from : dones = Top.dones /\ from = insert
    OBVIOUS
  <2>2. \A b \in 1 .. Len(blocks) : b \in dones \cup {from} => F[b] = Both(M[e])
    BY <1>8, <2>1
  <2>3. e = Len(blocks) + 1 /\ F[e] = Both(M[e])
    BY <1>0, <1>5
  <2>4. Flow(v, M, F, Joined(blocks, dones, from))
    BY <1>5, <1>6, <2>2, <2>3, FlowJoined
  <2> QED BY <2>1, <2>4
<1>10. PICK bs, w : bs = blocks' /\ w = body'
  OBVIOUS
<1>11. Marks(v, M, F, bs, e, Below, w)
  <2>1. Len(w) = Here /\ F[e] = Both(Reach(v)[Here + 1]) /\ Flow(v, M, F, bs)
    BY <1>0, <1>1, <1>3, <1>5, <1>9, <1>10
  <2> QED BY <1>2, <1>5, <2>1, PoppedMarks
<1> QED BY <1>1, <1>10, <1>11

LEMMA CloseOtherwiseFlows ==
  ASSUME NEW v, NEW N, NEW E, Noted(v, N, E), Completes(v, body', open'), CloseOtherwise
  PROVE  \E M, F : Marks(v, M, F, blocks', insert', open', body')
<1>0. PICK n, g, e, t, bs, dones :
        /\ n = Len(blocks) /\ g = n + 1 /\ e = n + 2 /\ t = Reach(v)[Here + 1]
        /\ bs = New(blocks) /\ dones = Top.dones \cup {insert}
  OBVIOUS
<1>1. /\ InBlockOf("otherwise") /\ body' = Linked("end", 0) /\ insert' = e /\ open' = Below
      /\ blocks' = Joined(bs, dones, g)
  BY <1>0 DEF CloseOtherwise
<1>2. open # <<>> /\ Top.kind = "otherwise" /\ Building /\ FramesFlow(v, N, E, open)
  BY <1>1, NotedFacts DEF InBlockOf
<1>3. /\ Reach(v)[Here] = t /\ Reach(v)[Top.at] = t
      /\ Len(body') = Here /\ Here \in Nat /\ E[insert] = Both(t)
  BY <1>0, <1>1, <1>2, EndReached
<1>4. PICK M, F : Prolongs(v, N, E, M, F, n, t, t, Both(t), Both(t))
  <2>1. PICK x : x = Both(t)
    OBVIOUS
  <2>2. \E M, F : Prolongs(v, N, E, M, F, n, t, t, x, x)
    BY <1>0, Prolonging
  <2> QED BY <2>1, <2>2
<1>5. /\ M[g] = t /\ F[g] = Both(t) /\ M[e] = t /\ F[e] = Both(t)
      /\ \A b \in 1 .. n : M[b] = N[b] /\ F[b] = E[b]
      /\ M[1] = Reach(v)[1] /\ Flow(v, M, F, blocks) /\ FramesFlow(v, M, F, open)
  BY <1>0, <1>4, ProlongsFacts
<1>6. blocks \in Seq(Seq(Instruction)) /\ n \in Nat /\ insert \in 1 .. n
  BY <1>0, NotedFacts
<1>7. \A d \in Top.dones : E[d] = Both(t)
  <2>1. FrameFlows(v, N, E, Top)
    BY <1>2, FlowsPopped
  <2> QED BY <1>2, <1>3, <2>1 DEF FrameFlows
<1>8. Flow(v, M, F, bs) /\ bs \in Seq(Seq(Instruction)) /\ Len(bs) = g
  <2>1. F[Len(blocks) + 1] = Both(M[Len(blocks) + 1])
    BY <1>0, <1>5
  <2> QED BY <1>0, <1>5, <1>6, <2>1, FlowNew
<1>9. \A b \in 1 .. Len(bs) : b \in dones \cup {g} => F[b] = Both(M[e])
  <2>1. \A b \in 1 .. Len(bs) : b \in 1 .. n \/ b = g
    BY <1>0, <1>6, <1>8
  <2>2. \A b \in dones : E[b] = Both(t)
    BY <1>0, <1>3, <1>7
  <2> QED BY <1>5, <2>1, <2>2
<1>10. Flow(v, M, F, Joined(bs, dones, g))
  <2>1. e = Len(bs) + 1 /\ F[e] = Both(M[e])
    BY <1>0, <1>5, <1>6, <1>8
  <2> QED BY <1>8, <1>9, <2>1, FlowJoined
<1>11. PICK cs, w : cs = blocks' /\ w = body'
  OBVIOUS
<1>12. Marks(v, M, F, cs, e, Below, w)
  <2>1. Len(w) = Here /\ F[e] = Both(Reach(v)[Here + 1]) /\ Flow(v, M, F, cs)
    BY <1>0, <1>1, <1>3, <1>5, <1>10, <1>11
  <2> QED BY <1>2, <1>5, <2>1, PoppedMarks
<1> QED BY <1>1, <1>11, <1>12

(* A branch goes on. *)
LEMMA TwigCompletes ==
  ASSUME Building, CloseTwig, NEW v, Completes(v, body', open')
  PROVE  /\ Completes(v, body, open) /\ Whole(v) /\ v[Top.at].to = Here
         /\ \E f \in Frame : /\ open' = Append(Below, f) /\ f.kind = "branch" /\ f.at = Top.at
                             /\ f.dones = Top.dones \cup {insert}
<1>1. /\ InBlockOf("twig") /\ body' = body
      /\ open' = Append(Below, [Top EXCEPT !.kind = "branch", !.dones = @ \cup {insert}])
  BY DEF CloseTwig
<1>2. open # <<>> /\ Top.kind = "twig"
  BY <1>1 DEF InBlockOf
<1>3. ~BetweenTwigs(open)
  BY <1>2 DEF BetweenTwigs, Top
<1>4. Completes(v, body, open) /\ Whole(v)
  <2>1. /\ Whole(v) /\ Len(body') <= Len(v)
        /\ \A i \in 1 .. Len(body') :
             /\ v[i].kind = body'[i].kind
             /\ body'[i].to # 0 \/ body'[i].kind = "end" => v[i].to = body'[i].to
    BY Zenon DEF Completes
  <2> QED BY <1>1, <1>3, <2>1 DEF Completes
<1>5. PICK f : f = [Top EXCEPT !.kind = "branch", !.dones = @ \cup {insert}]
  OBVIOUS
<1>6. Top \in Frame /\ insert \in Nat
  <2>1. Top \in Frame
    BY <1>2, TopKnown
  <2>2. insert \in 2 .. Len(blocks) /\ Len(blocks) \in Nat
    BY DEF Building
  <2> QED BY <2>1, <2>2
<1>7. /\ f \in Frame /\ f.kind = "branch" /\ f.at = Top.at
      /\ f.dones = Top.dones \cup {insert}
  BY <1>5, <1>6 DEF Frame
<1>8. open' = Append(Below, f)
  BY <1>1, <1>5
<1>9. Below \in Seq(Frame)
  <2>1. open \in Seq(Frame) /\ Nested(open)
    BY DEF Building
  <2> QED BY <1>2, <2>1, FramesPopped
<1>10. open'[Len(open')] = f /\ open' # <<>>
  BY <1>7, <1>8, <1>9, FramesPushed
<1>11. v[Top.at].to = Here
  <2>1. BetweenTwigs(open')
    BY <1>7, <1>10 DEF BetweenTwigs
  <2>2. v[open'[Len(open')].at].to = Len(body') + 1
    BY <2>1, Zenon DEF Completes
  <2> QED BY <1>1, <1>7, <1>10, <2>2 DEF Here
<1> QED BY <1>4, <1>7, <1>8, <1>11

LEMMA CloseTwigFlows ==
  ASSUME NEW v, NEW N, NEW E, Noted(v, N, E), Completes(v, body', open'), CloseTwig
  PROVE  \E M, F : Marks(v, M, F, blocks', insert', open', body')
<1>0. PICK n, e, t, ev, code :
        /\ n = Len(blocks) /\ e = n + 1 /\ t = Failing(v, Top.at) /\ ev = Top.eval
        /\ code = <<CondBr(Top.at, Top.start, e)>>
  OBVIOUS
<1>1. /\ InBlockOf("twig") /\ body' = body /\ insert' = e
      /\ blocks' = Emit(New(blocks), ev, code)
  BY <1>0 DEF CloseTwig
<1>2. open # <<>> /\ Top.kind = "twig" /\ Building /\ Joints(body, open)
  BY <1>1, NotedFacts DEF InBlockOf
<1>3. Whole(v) /\ v[Top.at].to = Here /\ Completes(v, body, open)
  BY <1>2, TwigCompletes
<1>4. PICK f \in Frame : /\ open' = Append(Below, f) /\ f.kind = "branch" /\ f.at = Top.at
                         /\ f.dones = Top.dones \cup {insert}
  BY <1>2, TwigCompletes
<1>5. PICK M, F : Prolongs(v, N, E, M, F, n, t, t, Both(t), Both(t))
  <2>1. PICK x : x = Both(t)
    OBVIOUS
  <2>2. \E M, F : Prolongs(v, N, E, M, F, n, t, t, x, x)
    BY <1>0, Prolonging
  <2> QED BY <2>1, <2>2
<1>6. /\ M[e] = t /\ F[e] = Both(t)
      /\ \A b \in 1 .. n : M[b] = N[b] /\ F[b] = E[b]
      /\ M[1] = Reach(v)[1] /\ Flow(v, M, F, blocks) /\ FramesFlow(v, M, F, open)
  BY <1>0, <1>5, ProlongsFacts
<1>7. /\ blocks \in Seq(Seq(Instruction)) /\ n \in Nat /\ insert \in 1 .. n
      /\ ~BetweenTwigs(open) => E[insert] = Both(Reach(v)[Here])
  BY <1>0, NotedFacts
<1>8. /\ code \in Seq(Instruction) /\ Path(v, M, code, F[ev], F[ev]) /\ ev \in 1 .. n
  <2>1. e \in Nat /\ Top.kind \in Guarding /\ M[e] = Failing(v, Top.at)
    BY <1>0, <1>2, <1>6, <1>7 DEF Guarding
  <2>2. \A b \in 1 .. Len(blocks) : M[b] = N[b] /\ F[b] = E[b]
    BY <1>0, <1>6
  <2>3. /\ <<CondBr(Top.at, Top.start, e)>> \in Seq(Instruction)
        /\ Path(v, M, <<CondBr(Top.at, Top.start, e)>>, F[Top.eval], F[Top.eval])
        /\ Top.eval \in 1 .. Len(blocks)
    BY <1>2, <2>1, <2>2, GuardPath
  <2> QED BY <1>0, <2>3, Zenon
<1>9. PICK bs, cs : bs = New(blocks) /\ cs = Emit(bs, ev, code)
  OBVIOUS
<1>10. Flow(v, M, F, bs) /\ bs \in Seq(Seq(Instruction)) /\ Len(bs) = e
  <2>1. F[Len(blocks) + 1] = Both(M[Len(blocks) + 1])
    BY <1>0, <1>6
  <2> QED BY <1>0, <1>6, <1>7, <1>9, <2>1, FlowNew
<1>11. Flow(v, M, F, cs)
  <2>1. ev \in 1 .. Len(bs)
    BY <1>0, <1>7, <1>8, <1>10
  <2> QED BY <1>8, <1>9, <1>10, <2>1, FlowEmit
<1>12. FramesFlow(v, M, F, Below) /\ FrameFlows(v, M, F, Top) /\ Below \in Seq(Frame)
  BY <1>2, <1>6, FlowsPopped
<1>13. Reach(v)[Top.at] = Reach(v)[Here]
  <2>1. Top.at \in 1 .. Len(v) /\ v[Top.at].kind = "twig"
    BY <1>2, <1>3, TopToken DEF Guided
  <2>2. PICK i, k : i = Top.at /\ k = v[i].kind
    OBVIOUS
  <2> QED BY <1>3, <2>1, <2>2, ReachFacts
<1>14. F[insert] = Both(Reach(v)[Here])
  <2>1. ~BetweenTwigs(open)
    BY <1>2 DEF BetweenTwigs, Top
  <2> QED BY <1>6, <1>7, <2>1
<1>15. FrameFlows(v, M, F, f)
  <2>1. \A d \in Top.dones : F[d] = Both(Reach(v)[Here])
    BY <1>2, <1>12, <1>13 DEF FrameFlows
  <2>2. \A d \in f.dones : F[d] = Both(Reach(v)[v[f.at].to])
    BY <1>3, <1>4, <1>14, <2>1
  <2> QED BY <1>4, <2>2 DEF FrameFlows, Guarding
<1>16. PICK w, here : w = body' /\ here = Len(w) + 1
  OBVIOUS
<1>17. Marks(v, M, F, cs, e, Append(Below, f), w)
  <2>1. f.kind = "branch" /\ F[e] = Both(Failing(v, f.at))
    BY <1>0, <1>4, <1>6
  <2> QED BY <1>6, <1>11, <1>12, <1>15, <1>16, <2>1, PushedMarks
<1> QED BY <1>1, <1>4, <1>9, <1>16, <1>17

(* The next part of a branch. *)
LEMMA PartMarks ==
  ASSUME NEW v, NEW N, NEW E, Noted(v, N, E), open # <<>>, Top.kind = "branch",
         NEW kind \in {"twig", "otherwise"}, body' = Linked(kind, 0), Completes(v, body', open'),
         NEW M, NEW F, FramesFlow(v, M, F, Below), M[1] = Reach(v)[1],
         \A d \in Top.dones : F[d] = Both(Reach(v)[Here]),
         NEW bs, Flow(v, M, F, bs), NEW b, F[b] = Both(Reach(v)[Here + 1]),
         NEW f \in Frame, f.kind = kind, f.at = Here, f.dones = Top.dones,
         kind = "twig" => F[f.eval] = Forks(v, Here) /\ M[f.start] = Reach(v)[Here + 1],
         NEW w, w = body'
  PROVE  Marks(v, M, F, bs, b, Append(Below, f), w)
<1>1. Building /\ Joints(body, open) /\ FramesFlow(v, N, E, open)
  BY NotedFacts
<1>2. Here \in 1 .. Len(v) /\ v[Here].kind = kind /\ Whole(v) /\ Len(body') = Here /\ Here \in Nat
  <2>1. kind \in {"end", "twig", "otherwise"} /\ 0 \in Nat
    OBVIOUS
  <2> QED BY <1>1, <2>1, LinkedCompletes
<1>3. Below \in Seq(Frame)
  BY <1>1, FlowsPopped
<1>4. Reach(v)[f.at] = Reach(v)[v[Here].to]
  <2>1. PICK i, k : i = Here /\ k = v[i].kind
    OBVIOUS
  <2> QED BY <1>2, <2>1, ReachFacts
<1>5. FrameFlows(v, M, F, f)
  BY DEF FrameFlows, Guarding
<1>6. PICK here : here = Here + 1
  OBVIOUS
<1>7. here = Len(w) + 1 /\ f.kind # "branch" /\ F[b] = Both(Reach(v)[here])
  BY <1>2, <1>6
<1> QED BY <1>3, <1>5, <1>7, PushedMarks

LEMMA OpenOtherwiseFlows ==
  ASSUME NEW v, NEW N, NEW E, Noted(v, N, E), Completes(v, body', open'), OpenOtherwise
  PROVE  \E M, F : Marks(v, M, F, blocks', insert', open', body')
<1>0. PICK n, e, t, br, f :
        /\ n = Len(blocks) /\ e = n + 1 /\ t = Reach(v)[Here + 1] /\ br = <<Br(e)>>
        /\ f = [Opened("otherwise", 0, 0) EXCEPT !.dones = Top.dones]
  OBVIOUS
<1>1. /\ Between /\ body' = Linked("otherwise", 0) /\ insert' = e /\ open' = Append(Below, f)
      /\ blocks' = Emit(New(blocks), insert, br)
  BY <1>0 DEF OpenOtherwise
<1>2. /\ open # <<>> /\ Top.kind = "branch" /\ Building /\ Joints(body, open)
      /\ FramesFlow(v, N, E, open)
      /\ BetweenTwigs(open) => E[insert] = Both(Failing(v, Top.at))
  BY <1>1, NotedFacts DEF Between
<1>3. /\ Here \in 1 .. Len(v) /\ v[Here].kind = "otherwise" /\ v[Top.at].to = Here /\ Here \in Nat
  <2>1. "otherwise" \in {"end", "twig", "otherwise"} /\ 0 \in Nat
    OBVIOUS
  <2>2. PICK kind : kind = "otherwise"
    OBVIOUS
  <2> QED BY <1>1, <1>2, <2>1, <2>2, LinkedCompletes
<1>4. E[insert] = Both(t)
  <2>1. Failing(v, Top.at) = t
    BY <1>0, <1>3 DEF Failing
  <2>2. BetweenTwigs(open)
    BY <1>2 DEF BetweenTwigs, Top
  <2> QED BY <1>2, <2>1, <2>2
<1>5. PICK M, F : Prolongs(v, N, E, M, F, n, t, t, Both(t), Both(t))
  <2>1. PICK x : x = Both(t)
    OBVIOUS
  <2>2. \E M, F : Prolongs(v, N, E, M, F, n, t, t, x, x)
    BY <1>0, Prolonging
  <2> QED BY <2>1, <2>2
<1>6. /\ M[e] = t /\ F[e] = Both(t)
      /\ \A b \in 1 .. n : M[b] = N[b] /\ F[b] = E[b]
      /\ M[1] = Reach(v)[1] /\ Flow(v, M, F, blocks) /\ FramesFlow(v, M, F, open)
  BY <1>0, <1>5, ProlongsFacts
<1>7. blocks \in Seq(Seq(Instruction)) /\ n \in Nat /\ insert \in 1 .. n
  BY <1>0, NotedFacts
<1>8. br \in Seq(Instruction) /\ Path(v, M, br, F[insert], F[insert])
  <2>1. F[insert] = Both(M[e]) /\ e \in Nat
    BY <1>0, <1>4, <1>6, <1>7
  <2> QED BY <1>0, <2>1, BrLeads, JumpCodeTyped
<1>9. PICK bs, cs : bs = New(blocks) /\ cs = Emit(bs, insert, br)
  OBVIOUS
<1>10. Flow(v, M, F, bs) /\ bs \in Seq(Seq(Instruction)) /\ Len(bs) = e
  <2>1. F[Len(blocks) + 1] = Both(M[Len(blocks) + 1])
    BY <1>0, <1>6
  <2> QED BY <1>0, <1>6, <1>7, <1>9, <2>1, FlowNew
<1>11. Flow(v, M, F, cs)
  <2>1. insert \in 1 .. Len(bs)
    BY <1>0, <1>7, <1>10
  <2> QED BY <1>8, <1>9, <1>10, <2>1, FlowEmit
<1>12. FramesFlow(v, M, F, Below) /\ FrameFlows(v, M, F, Top)
  BY <1>2, <1>6, FlowsPopped
<1>13. \A d \in Top.dones : F[d] = Both(Reach(v)[Here])
  BY <1>2, <1>3, <1>12 DEF FrameFlows
<1>14. f \in Frame /\ f.kind = "otherwise" /\ f.at = Here /\ f.dones = Top.dones
  <2>1. Top \in Frame
    BY <1>2, TopKnown
  <2> QED BY <1>0, <1>3, <2>1 DEF Opened, Frame
<1>15. PICK w, kind : w = body' /\ kind = "otherwise"
  OBVIOUS
<1>16. Marks(v, M, F, cs, e, Append(Below, f), w)
  <2>1. kind \in {"twig", "otherwise"} /\ body' = Linked(kind, 0) /\ f.kind = kind /\ kind # "twig"
    BY <1>1, <1>14, <1>15
  <2>2. F[e] = Both(Reach(v)[Here + 1])
    BY <1>0, <1>6
  <2> QED BY <1>2, <1>6, <1>11, <1>12, <1>13, <1>14, <1>15, <2>1, <2>2, PartMarks
<1> QED BY <1>1, <1>9, <1>15, <1>16

LEMMA OpenTwigFlows ==
  ASSUME NEW v, NEW N, NEW E, Noted(v, N, E), Completes(v, body', open'), OpenTwig
  PROVE  \E M, F : Marks(v, M, F, blocks', insert', open', body')
<1>0. PICK n, e, t, h, code, f :
        /\ n = Len(blocks) /\ e = n + 1 /\ t = Reach(v)[Here + 1] /\ h = Here
        /\ code = <<Plain("eval", h)>>
        /\ f = [Opened("twig", insert, e) EXCEPT !.dones = Top.dones]
  OBVIOUS
<1>1. /\ Between /\ body' = Linked("twig", 0) /\ insert' = e /\ open' = Append(Below, f)
      /\ blocks' = Emit(New(blocks), insert, code)
  BY <1>0 DEF OpenTwig
<1>2. /\ open # <<>> /\ Top.kind = "branch" /\ Building /\ Joints(body, open)
      /\ FramesFlow(v, N, E, open) /\ OpenOK(open, Len(blocks)) /\ NoneAwait(open, insert)
      /\ BetweenTwigs(open) => E[insert] = Both(Failing(v, Top.at))
  BY <1>1, NotedFacts DEF Between
<1>3. /\ h \in 1 .. Len(v) /\ v[h].kind = "twig" /\ v[Top.at].to = h /\ h \in Nat
  <2>1. PICK kind : kind = "twig"
    OBVIOUS
  <2>2. kind \in {"end", "twig", "otherwise"} /\ 0 \in Nat /\ body' = Linked(kind, 0)
    BY <1>1, <2>1
  <2> QED BY <1>0, <1>2, <2>1, <2>2, LinkedCompletes
<1>4. E[insert] = Both(h)
  <2>1. Failing(v, Top.at) = h
    BY <1>3 DEF Failing
  <2>2. BetweenTwigs(open)
    BY <1>2 DEF BetweenTwigs, Top
  <2> QED BY <1>2, <2>1, <2>2
<1>5. PICK M, G : Prolongs(v, N, E, M, G, n, t, t, Both(t), Both(t))
  <2>1. PICK x : x = Both(t)
    OBVIOUS
  <2>2. \E M, F : Prolongs(v, N, E, M, F, n, t, t, x, x)
    BY <1>0, Prolonging
  <2> QED BY <2>1, <2>2
<1>6. /\ M[e] = t /\ G[e] = Both(t)
      /\ \A b \in 1 .. n : M[b] = N[b] /\ G[b] = E[b]
      /\ M[1] = Reach(v)[1] /\ Flow(v, M, G, blocks) /\ FramesFlow(v, M, G, open)
  BY <1>0, <1>5, ProlongsFacts
<1>7. /\ blocks \in Seq(Seq(Instruction)) /\ n \in Nat /\ insert \in 1 .. n /\ insert \in Nat
      /\ e \in Nat
  BY <1>0, NotedFacts
<1>8. PICK s : s = Forks(v, h)
  OBVIOUS
<1>9. PICK F : Alters(F, G, insert, s)
  BY <1>7, Changed
<1>10. F[insert] = s /\ \A k \in Nat : k # insert => F[k] = G[k]
  BY <1>9 DEF Alters
<1>11. PICK bs, cs : bs = New(blocks) /\ cs = Emit(bs, insert, code)
  OBVIOUS
<1>12. Flow(v, M, G, bs) /\ bs \in Seq(Seq(Instruction)) /\ Len(bs) = e
  <2>1. G[Len(blocks) + 1] = Both(M[Len(blocks) + 1])
    BY <1>0, <1>6
  <2> QED BY <1>0, <1>6, <1>7, <1>11, <2>1, FlowNew
<1>13. Flow(v, M, F, cs)
  <2>1. insert \in 1 .. Len(bs)
    BY <1>0, <1>7, <1>12
  <2>2. \A i \in 1 .. Len(bs) : i # insert => F[i] = G[i]
    BY <1>7, <1>10, <1>12
  <2>3. code \in Seq(Instruction)
    BY <1>0, <1>3, PlainTyped
  <2>4. Path(v, M, code, G[insert], F[insert])
    <3>1. G[insert] = Both(h) /\ F[insert] = Forks(v, h) /\ v[h].kind # "ret"
      BY <1>3, <1>4, <1>6, <1>7, <1>8, <1>10
    <3> QED BY <1>0, <1>3, <3>1, PlainLeads
  <2> QED BY <1>11, <1>12, <2>1, <2>2, <2>3, <2>4, FlowTurned
<1>14. FramesFlow(v, M, F, open)
  <2>1. \A b \in 1 .. n : M[b] = M[b] /\ (b # insert => F[b] = G[b])
    BY <1>7, <1>10
  <2> QED BY <1>0, <1>2, <1>6, <1>7, <2>1, FramesAgree
<1>15. FramesFlow(v, M, F, Below) /\ FrameFlows(v, M, F, Top)
  BY <1>2, <1>14, FlowsPopped
<1>16. \A d \in Top.dones : F[d] = Both(Reach(v)[Here])
  BY <1>0, <1>2, <1>3, <1>15 DEF FrameFlows
<1>17. /\ f \in Frame /\ f.kind = "twig" /\ f.at = Here /\ f.dones = Top.dones
       /\ f.eval = insert /\ f.start = e
  <2>1. Top \in Frame
    BY <1>2, TopKnown
  <2>2. f = [kind |-> "twig", at |-> Here, eval |-> insert, start |-> e, dones |-> Top.dones]
    BY <1>0 DEF Opened
  <2>3. PICK dones : dones = Top.dones /\ dones \in SUBSET Nat
    BY <2>1 DEF Frame
  <2>4. /\ Here \in Nat
        /\ f = [kind |-> "twig", at |-> Here, eval |-> insert, start |-> e, dones |-> dones]
    BY <1>0, <1>3, <2>2, <2>3
  <2>5. f \in Frame
    BY <1>7, <2>3, <2>4 DEF Frame
  <2> QED BY <2>3, <2>4, <2>5
<1>18. PICK w, kind : w = body' /\ kind = "twig"
  OBVIOUS
<1>19. F[e] = Both(t)
  <2>1. e # insert
    BY <1>0, <1>7
  <2> QED BY <1>6, <1>7, <1>10, <2>1
<1>20. Marks(v, M, F, cs, e, Append(Below, f), w)
  <2>1. kind \in {"twig", "otherwise"} /\ body' = Linked(kind, 0) /\ f.kind = kind
    BY <1>1, <1>17, <1>18
  <2>2. F[e] = Both(Reach(v)[Here + 1])
    BY <1>0, <1>19
  <2>3. F[f.eval] = Forks(v, Here) /\ M[f.start] = Reach(v)[Here + 1]
    BY <1>0, <1>6, <1>8, <1>10, <1>17
  <2> QED BY <1>2, <1>6, <1>13, <1>15, <1>16, <1>17, <1>18, <2>1, <2>2, <2>3, PartMarks
<1> QED BY <1>1, <1>11, <1>18, <1>20

-----------------------------------------------------------------------------
(* Every step of the builder. *)

Followed(v) == \E N, E : Marks(v, N, E, blocks, insert, open, body)

LEMMA Notes ==
  ASSUME BuildInv, Building, Joints(body, open), NEW v, Completes(v, body, open), Followed(v)
  PROVE  \E N, E : Noted(v, N, E)
<1>1. PICK N, E : Marks(v, N, E, blocks, insert, open, body)
  BY DEF Followed
<1>2. Noted(v, N, E)
  BY <1>1 DEF Noted, BuildInv
<1> QED BY <1>2

LEMMA WritingKnown ==
  ASSUME BuildInv, Building, Joints(body, open), NEW v,
         Completes(v, body, open) => Followed(v),
         BuildSimple \/ BuildDeclaration \/ BuildReturn
  PROVE  Joints(body', open') /\ (Completes(v, body', open') => Followed(v)')
<1>0. PICK kind, reads, code :
        /\ kind \in {"do", "let", "ret"} /\ reads \in Nat /\ body' = Written(kind, 0, reads)
        /\ InBlock /\ UNCHANGED <<open, insert>>
        /\ blocks' = Emit(blocks, insert, code)
        /\ kind = "do" => code = <<Plain("eval", Here)>>
        /\ kind = "let" => code = <<Plain("alloca", Here), Plain("eval", Here)>>
        /\ kind = "ret" => code = GiveBack \o <<Plain("eval", Here), Plain("ret", Here)>>
  <2>0. \A d \in Visible \cup {0} : d \in Nat
    BY VisibleFacts DEF BuildInv
  <2>1. CASE BuildSimple
    <3>1. PICK d \in Visible \cup {0} : body' = Written("do", 0, d)
      BY <2>1 DEF BuildSimple
    <3> QED BY <2>0, <2>1, <3>1 DEF BuildSimple
  <2>2. CASE BuildDeclaration
    BY <2>2 DEF BuildDeclaration
  <2>3. CASE BuildReturn
    <3>1. PICK d \in Visible \cup {0} : body' = Written("ret", 0, d)
      BY <2>3 DEF BuildReturn
    <3> QED BY <2>0, <2>3, <3>1 DEF BuildReturn
  <2> QED BY <2>1, <2>2, <2>3
<1>1. kind \in Kinds /\ kind \notin Linkable
  BY <1>0 DEF Kinds, Linkable
<1>2. Joints(body', open')
  BY <1>0, <1>1, WrittenJoints
<1> SUFFICES ASSUME Completes(v, body', open') PROVE Followed(v)'
  BY <1>2
<1>3. Completes(v, body, open)
  BY <1>0, <1>1, WrittenCompletes
<1>4. PICK N, E : Noted(v, N, E)
  BY <1>3, Notes
<1>5. \E F : Marks(v, N, F, blocks', insert', open', body')
  BY <1>0, <1>4, StatementFlows
<1> QED BY <1>5, Zenon DEF Followed

LEMMA OpeningKnown ==
  ASSUME BuildInv, Building, Joints(body, open), NEW v,
         Completes(v, body, open) => Followed(v),
         OpenBlock \/ OpenBranch \/ OpenConditional \/ OpenLoop
  PROVE  Joints(body', open') /\ (Completes(v, body', open') => Followed(v)')
<1>0. PICK kind, f :
        /\ kind \in {"block", "branch", "if", "loop"} /\ f \in Frame /\ f.at = Here /\ f.kind = kind
        /\ body' = Written(kind, 0, 0) /\ InBlock /\ open' = Append(open, f)
        /\ kind = "block" => OpenBlock
        /\ kind = "branch" => OpenBranch
        /\ kind = "if" => OpenConditional
        /\ kind = "loop" => OpenLoop
  <2>0. /\ Here \in Nat /\ Len(blocks) \in Nat
        /\ \A kind \in {"block", "branch", "if", "loop"} : \A eval, start \in Nat :
             /\ Opened(kind, eval, start) \in Frame
             /\ Opened(kind, eval, start).at = Here /\ Opened(kind, eval, start).kind = kind
    <3>1. Here \in Nat /\ Len(blocks) \in Nat
      BY DEF Building
    <3> QED BY <3>1 DEF Opened, Frame
  <2>1. CASE OpenBlock
    <3>1. body' = Written("block", 0, 0) /\ InBlock /\ open' = Append(open, Opened("block", 0, 0))
      BY <2>1 DEF OpenBlock
    <3> QED BY <2>0, <2>1, <3>1
  <2>2. CASE OpenBranch
    <3>1. body' = Written("branch", 0, 0) /\ InBlock /\ open' = Append(open, Opened("branch", 0, 0))
      BY <2>2 DEF OpenBranch
    <3> QED BY <2>0, <2>2, <3>1
  <2>3. CASE OpenConditional
    <3>1. /\ body' = Written("if", 0, 0) /\ InBlock
          /\ open' = Append(open, Opened("if", Len(blocks) + 1, Len(blocks) + 2))
      BY <2>3 DEF OpenConditional
    <3>2. Len(blocks) + 1 \in Nat /\ Len(blocks) + 2 \in Nat
      BY <2>0
    <3>3. /\ Opened("if", Len(blocks) + 1, Len(blocks) + 2) \in Frame
          /\ Opened("if", Len(blocks) + 1, Len(blocks) + 2).at = Here
          /\ Opened("if", Len(blocks) + 1, Len(blocks) + 2).kind = "if"
      BY <2>0, <3>2
    <3> QED BY <2>3, <3>1, <3>3
  <2>4. CASE OpenLoop
    <3>1. /\ body' = Written("loop", 0, 0) /\ InBlock
          /\ open' = Append(open, Opened("loop", Len(blocks) + 1, Len(blocks) + 2))
      BY <2>4 DEF OpenLoop
    <3>2. Len(blocks) + 1 \in Nat /\ Len(blocks) + 2 \in Nat
      BY <2>0
    <3>3. /\ Opened("loop", Len(blocks) + 1, Len(blocks) + 2) \in Frame
          /\ Opened("loop", Len(blocks) + 1, Len(blocks) + 2).at = Here
          /\ Opened("loop", Len(blocks) + 1, Len(blocks) + 2).kind = "loop"
      BY <2>0, <3>2
    <3> QED BY <2>4, <3>1, <3>3
  <2> QED BY <2>1, <2>2, <2>3, <2>4
<1>1. kind \in Kinds /\ kind \in Linkable /\ 0 \in Nat
  BY <1>0 DEF Kinds, Conditions, Linkable
<1>2. Joints(body', open')
  BY <1>0, <1>1, WrittenJoints
<1> SUFFICES ASSUME Completes(v, body', open') PROVE Followed(v)'
  BY <1>2
<1>3. Completes(v, body, open)
  BY <1>0, <1>1, WrittenCompletes
<1>4. PICK N, E : Noted(v, N, E)
  BY <1>3, Notes
<1>5. \E M, F : Marks(v, M, F, blocks', insert', open', body')
  <2>1. CASE kind \in {"block", "branch"}
    <3>1. PICK q \in {"block", "branch"} : q = kind
      BY <2>1
    <3>2. /\ UNCHANGED <<blocks, insert>> /\ body' = Written(q, 0, 0)
          /\ open' = Append(open, Opened(q, 0, 0))
      BY <1>0, <3>1 DEF OpenBlock, OpenBranch
    <3>3. Marks(v, N, E, blocks', insert', open', body')
      BY <1>0, <1>4, <3>2, OpenBraceFlows
    <3> QED BY <3>3
  <2>2. CASE kind = "if"
    BY <1>0, <1>4, <2>2, OpenConditionalFlows
  <2>3. CASE kind = "loop"
    BY <1>0, <1>4, <2>3, OpenLoopFlows
  <2> QED BY <1>0, <2>1, <2>2, <2>3
<1> QED BY <1>5, Zenon DEF Followed

LEMMA ClosingKnown ==
  ASSUME BuildInv, Building, Joints(body, open), NEW v,
         Completes(v, body, open) => Followed(v),
         CloseBlock \/ CloseConditional \/ CloseLoop \/ CloseBranch \/ CloseOtherwise
  PROVE  Joints(body', open') /\ (Completes(v, body', open') => Followed(v)')
<1>0. PICK to, kind : /\ kind = "end" /\ to \in Nat /\ body' = Linked(kind, to)
                      /\ open # <<>> /\ open' = Below
  <2>1. CASE CloseBlock \/ CloseConditional \/ CloseOtherwise
    BY <2>1 DEF CloseBlock, CloseConditional, CloseOtherwise, InBlockOf
  <2>2. CASE CloseBranch
    BY <2>2 DEF CloseBranch, Between
  <2>3. CASE CloseLoop
    <3>1. open # <<>> /\ body' = Linked("end", Top.at) /\ open' = Below
      BY <2>3 DEF CloseLoop, InBlockOf
    <3>2. Top.at \in Nat
      BY <3>1, TopKnown
    <3> QED BY <3>1, <3>2
  <2> QED BY <2>1, <2>2, <2>3
<1>1. kind \in {"end", "twig", "otherwise"} /\ (kind # "end" => to = 0)
  BY <1>0
<1>2. Joints(body', open')
  BY <1>0, <1>1, LinkedJoints
<1> SUFFICES ASSUME Completes(v, body', open') PROVE Followed(v)'
  BY <1>2
<1>3. Completes(v, body, open)
  BY <1>0, <1>1, LinkedCompletes
<1>4. PICK N, E : Noted(v, N, E)
  BY <1>3, Notes
<1>5. \E M, F : Marks(v, M, F, blocks', insert', open', body')
  <2>1. CASE CloseBlock
    <3>1. Marks(v, N, E, blocks', insert', open', body')
      BY <1>4, <2>1, CloseBlockFlows
    <3> QED BY <3>1
  <2> QED BY <1>4, <2>1, CloseConditionalFlows, CloseLoopFlows,
         CloseBranchFlows, CloseOtherwiseFlows
<1> QED BY <1>5, Zenon DEF Followed

LEMMA NextPartKnown ==
  ASSUME BuildInv, Building, Joints(body, open), NEW v,
         Completes(v, body, open) => Followed(v),
         OpenTwig \/ OpenOtherwise
  PROVE  Joints(body', open') /\ (Completes(v, body', open') => Followed(v)')
<1>0. PICK kind, f : /\ kind \in {"twig", "otherwise"} /\ body' = Linked(kind, 0) /\ open # <<>>
                     /\ f \in Frame /\ f.at = Here /\ f.kind = kind /\ open' = Append(Below, f)
  <2>0. insert \in Nat /\ Len(blocks) \in Nat /\ Here \in Nat
    <3>1. insert \in 2 .. Len(blocks) /\ Len(blocks) \in Nat /\ Here \in Nat
      BY DEF Building
    <3> QED BY <3>1
  <2>1. open # <<>> => Top.dones \in SUBSET Nat
    BY TopKnown DEF Frame
  <2>2. CASE OpenTwig
    <3>1. PICK g : g = [Opened("twig", insert, Len(blocks) + 1) EXCEPT !.dones = Top.dones]
      OBVIOUS
    <3>2. open # <<>> /\ body' = Linked("twig", 0) /\ open' = Append(Below, g)
      BY <2>2, <3>1 DEF OpenTwig, Between
    <3>3. g = [kind |-> "twig", at |-> Here, eval |-> insert, start |-> Len(blocks) + 1,
               dones |-> Top.dones]
      BY <3>1 DEF Opened
    <3>4. g \in Frame /\ g.at = Here /\ g.kind = "twig"
      BY <2>0, <2>1, <3>2, <3>3 DEF Frame
    <3> QED BY <3>2, <3>4
  <2>3. CASE OpenOtherwise
    <3>1. PICK g : g = [Opened("otherwise", 0, 0) EXCEPT !.dones = Top.dones]
      OBVIOUS
    <3>2. open # <<>> /\ body' = Linked("otherwise", 0) /\ open' = Append(Below, g)
      BY <2>3, <3>1 DEF OpenOtherwise, Between
    <3>3. g = [kind |-> "otherwise", at |-> Here, eval |-> 0, start |-> 0, dones |-> Top.dones]
      BY <3>1 DEF Opened
    <3>4. g \in Frame /\ g.at = Here /\ g.kind = "otherwise"
      BY <2>0, <2>1, <3>2, <3>3 DEF Frame
    <3> QED BY <3>2, <3>4
  <2> QED BY <2>2, <2>3
<1>1. kind \in {"end", "twig", "otherwise"} /\ 0 \in Nat /\ kind # "end"
  BY <1>0
<1>2. Joints(body', open')
  BY <1>0, <1>1, LinkedJoints
<1> SUFFICES ASSUME Completes(v, body', open') PROVE Followed(v)'
  BY <1>2
<1>3. Completes(v, body, open)
  BY <1>0, <1>1, LinkedCompletes
<1>4. PICK N, E : Noted(v, N, E)
  BY <1>3, Notes
<1>5. \E M, F : Marks(v, M, F, blocks', insert', open', body')
  BY <1>4, OpenTwigFlows, OpenOtherwiseFlows
<1> QED BY <1>5, Zenon DEF Followed

LEMMA TwigKnown ==
  ASSUME BuildInv, Building, Joints(body, open), NEW v,
         Completes(v, body, open) => Followed(v), CloseTwig
  PROVE  Completes(v, body', open') => Followed(v)'
<1> SUFFICES ASSUME Completes(v, body', open') PROVE Followed(v)'
  OBVIOUS
<1>1. Completes(v, body, open)
  BY TwigCompletes
<1>2. PICK N, E : Noted(v, N, E)
  BY <1>1, Notes
<1>3. \E M, F : Marks(v, M, F, blocks', insert', open', body')
  BY <1>2, CloseTwigFlows
<1> QED BY <1>3, Zenon DEF Followed

LEMMA TwigJoints ==
  ASSUME Building, Joints(body, open), CloseTwig
  PROVE  Joints(body', open')
<1>1. /\ body' = body /\ open # <<>>
      /\ open' = Append(Below, [Top EXCEPT !.kind = "branch", !.dones = @ \cup {insert}])
  BY DEF CloseTwig, InBlockOf
<1>2. PICK f : f = [Top EXCEPT !.kind = "branch", !.dones = @ \cup {insert}]
  OBVIOUS
<1>3. f \in Frame /\ f.kind = "branch" /\ f.at = Top.at
  <2>1. Top \in Frame
    BY <1>1, TopKnown
  <2>2. insert \in 2 .. Len(blocks) /\ Len(blocks) \in Nat
    BY DEF Building
  <2>3. insert \in Nat
    BY <2>2
  <2> QED BY <1>2, <2>1, <2>3 DEF Frame
<1>4. open \in Seq(Frame) /\ Nested(open)
  BY DEF Building
<1>5. /\ Below \in Seq(Frame) /\ Len(open) \in 1 .. Len(open)
      /\ \A k \in 1 .. Len(Below) : Below[k] = open[k] /\ k \in 1 .. Len(open)
      /\ Len(open) = Len(Below) + 1 /\ Len(Below) \in Nat
  <2>1. Len(open) \in Nat /\ Len(open) - 1 \in 0 .. Len(open)
    BY <1>1, <1>4
  <2>2. Len(Below) = Len(open) - 1
    BY <1>4, <2>1, UpTo DEF Below
  <2>3. Len(open) = Len(Below) + 1 /\ Len(Below) \in Nat
    BY <1>1, <1>4, <2>2
  <2> QED BY <1>1, <1>4, <2>3, FramesPopped
<1>6. PICK gs : gs = open'
  OBVIOUS
<1>7. /\ Len(gs) = Len(open) /\ gs[Len(open)] = f
      /\ \A k \in 1 .. Len(Below) : gs[k] = open[k]
  <2>1. gs = Append(Below, f)
    BY <1>1, <1>2, <1>6
  <2> QED BY <1>3, <1>5, <2>1, AppendProperties
<1>8. \A k \in 1 .. Len(open) : k \in 1 .. Len(Below) \/ k = Len(open)
  BY <1>5
<1>9. \A k \in 1 .. Len(open) : gs[k].at = open[k].at
  BY <1>3, <1>7, <1>8 DEF Top
<1>10. ASSUME NEW k \in 1 .. Len(open), gs[k].kind \in Guided PROVE body[gs[k].at].kind = gs[k].kind
  <2>1. k # Len(open)
    BY <1>3, <1>7, <1>10 DEF Guided
  <2>2. gs[k] = open[k]
    BY <1>7, <1>8, <2>1
  <2> QED BY <1>10, <2>2 DEF Joints
<1>11. Joints(body, gs)
  <2>1. ASSUME NEW i \in 1 .. Len(body), body[i].kind \in Linkable
        PROVE  \/ body[i].to = 0 /\ \E k \in 1 .. Len(gs) : gs[k].at = i
               \/ body[i].to \in i + 1 .. Len(body)
    <3>1. \/ body[i].to = 0 /\ \E k \in 1 .. Len(open) : open[k].at = i
          \/ body[i].to \in i + 1 .. Len(body)
      BY <2>1, Zenon DEF Joints
    <3> QED BY <1>7, <1>9, <3>1, Zenon
  <2>2. \A k \in 1 .. Len(open) : body[open[k].at].kind \in Linkable
    BY Zenon DEF Joints
  <2>3. ASSUME NEW k \in 1 .. Len(gs)
        PROVE  /\ body[gs[k].at].kind \in Linkable
               /\ gs[k].kind \in Guided => body[gs[k].at].kind = gs[k].kind
    BY <1>7, <1>9, <1>10, <2>2, <2>3, Zenon
  <2> QED BY <2>1, <2>3, Zenon DEF Joints
<1> QED BY <1>1, <1>6, <1>11

(* A statement with nothing open begins with the entry. *)
LEMMA InitKnown ==
  ASSUME Init, NEW v, Completes(v, body, open)
  PROVE  Followed(v)
<1>1. body = <<>> /\ open = <<>> /\ insert = 2 /\ blocks = <<Entry, <<>>>>
  BY DEF Init, Entry
<1>2. PICK r, bs, none : r = Reach(v)[1] /\ bs = blocks /\ none = <<>>
  OBVIOUS
<1> DEFINE N == [b \in 1 .. 2 |-> r]
           E == [b \in 1 .. 2 |-> Both(r)]
<1>3. N[1] = r /\ N[2] = r /\ E[1] = Both(r) /\ E[2] = Both(r)
  OBVIOUS
<1> HIDE DEF N, E
<1>4. Len(bs) = 2 /\ bs[1] = Entry /\ bs[2] = none
  BY <1>1, <1>2
<1>5. Path(v, N, none, Both(N[2]), E[2])
  BY <1>2, <1>3, NoPath
<1>6. Path(v, N, Entry, Both(N[1]), E[1])
  <2>1. PICK s : s = Both(r)
    OBVIOUS
  <2> DEFINE a == [i \in Nat |-> s]
  <2>2. a[1] = s /\ a[Len(Entry) + 1] = s /\ \A i \in 1 .. Len(Entry) : a[i] = s /\ a[i + 1] = s
    BY DEF Entry
  <2> HIDE DEF a
  <2>3. \A i \in 1 .. Len(Entry) : Entry[i] \in {Plain("save", 0), Plain("alloca", 0), Br(2)}
    BY DEF Entry
  <2>4. /\ Plain("save", 0).op = "save" /\ Plain("alloca", 0).op = "alloca"
        /\ Br(2).op = "br" /\ Br(2).yes = 2
    BY DEF Plain, Br
  <2>5. \A x \in {Plain("save", 0), Plain("alloca", 0), Br(2)} : Leads(v, N, x, s, s)
    BY <1>3, <2>1, <2>4 DEF Leads
  <2>6. LeadsAlong(v, N, Entry, a)
    BY <2>2, <2>3, <2>5 DEF LeadsAlong
  <2>7. Path(v, N, Entry, s, s)
    BY <2>2, <2>6 DEF Path
  <2> QED BY <1>3, <2>1, <2>7
<1>7. Flow(v, N, E, bs)
  <2>1. \A b \in 1 .. Len(bs) : b = 1 \/ b = 2
    BY <1>4
  <2> QED BY <1>4, <1>5, <1>6, <2>1 DEF Flow
<1>8. FramesFlow(v, N, E, open)
  <2>1. \A k \in 1 .. Len(open) : FALSE
    BY <1>1
  <2> QED BY <2>1 DEF FramesFlow
<1>9. Expected(v, open, body) = r
  <2>1. Len(body) + 1 = 1 /\ ~BetweenTwigs(open)
    BY <1>1 DEF BetweenTwigs
  <2> QED BY <1>2, <2>1 DEF Expected
<1>10. Marks(v, N, E, blocks, insert, open, body)
  BY <1>1, <1>2, <1>3, <1>7, <1>8, <1>9 DEF Marks
<1> QED BY <1>10 DEF Followed

(* The marks of a finished function. *)
Finished(N, E) == N[1] = Reach(body)[1] /\ Flow(body, N, E, blocks)

LEMMA FinishKnown ==
  ASSUME BuildInv, Building, Joints(body, open), FinishFunction,
         Completes(body, body, open) => Followed(body)
  PROVE  (\E N, E : Finished(N, E))'
<1>1. /\ open = <<>> /\ body' = body
      /\ blocks' = EmitIfOpen(blocks, insert, GiveBack \o <<Plain("ret", Here)>>)
  BY DEF FinishFunction
<1>2. Whole(body)
  <2>1. ASSUME NEW i \in 1 .. Len(body), body[i].kind \in Linkable
        PROVE  body[i].to \in i + 1 .. Len(body)
    <3>1. ~ \E k \in 1 .. Len(open) : open[k].at = i
      BY <1>1
    <3> QED BY <2>1, <3>1, Zenon DEF Joints
  <2> QED BY <2>1 DEF Whole, BuildInv
<1>3. ~BetweenTwigs(open)
  BY <1>1 DEF BetweenTwigs
<1>4. Completes(body, body, open)
  <2>1. Len(body) <= Len(body)
    BY DEF BuildInv
  <2> QED BY <1>2, <1>3, <2>1, Zenon DEF Completes
<1>5. PICK N, E : Noted(body, N, E)
  BY <1>4, Notes
<1>6. /\ N[1] = Reach(body)[1] /\ Flow(body, N, E, blocks) /\ blocks \in Seq(Seq(Instruction))
      /\ insert \in 1 .. Len(blocks) /\ E[insert] = Both(Reach(body)[Here])
  <2>1. PICK v : v = body
    OBVIOUS
  <2>2. Noted(v, N, E)
    BY <1>5, <2>1
  <2>3. /\ N[1] = Reach(v)[1] /\ Flow(v, N, E, blocks) /\ blocks \in Seq(Seq(Instruction))
        /\ insert \in 1 .. Len(blocks) /\ E[insert] = Both(Reach(v)[Here])
    BY <1>3, <2>2, NotedFacts
  <2> QED BY <2>1, <2>3
<1>7. Reach(body)[Here] = Here /\ Here \in Nat
  <2>1. Reach(body)[Len(body) + 1] = Len(body) + 1
    BY <1>2, ReachEnd
  <2> QED BY <2>1, Sizes DEF Here
<1>8. PICK v, s, give, ret, code :
        /\ v = body /\ s = Both(Here) /\ give = GiveBack /\ ret = <<Plain("ret", Here)>>
        /\ code = give \o ret
  OBVIOUS
<1>9. /\ give \in Seq(Instruction) /\ ret \in Seq(Instruction)
      /\ Path(v, N, give, s, s) /\ Path(v, N, ret, s, s)
  <2>1. <<Plain("restore", 0)>> \in Seq(Instruction) /\ <<Plain("ret", Here)>> \in Seq(Instruction)
    BY <1>7, PlainTyped
  <2>2. Path(v, N, <<Plain("restore", 0)>>, s, s) /\ Path(v, N, <<Plain("ret", Here)>>, s, s)
    BY <1>8, PlainLeads
  <2> QED BY <1>8, <2>1, <2>2 DEF GiveBack
<1>10. code \in Seq(Instruction) /\ Path(v, N, code, s, s)
  <2>1. give \o ret \in Seq(Instruction)
    BY <1>9
  <2>2. Path(v, N, give \o ret, s, s)
    BY <1>9, PathJoined
  <2> QED BY <1>8, <2>1, <2>2
<1>11. Flow(v, N, E, EmitIfOpen(blocks, insert, code))
  <2>1. E[insert] = s /\ Flow(v, N, E, blocks)
    BY <1>6, <1>7, <1>8
  <2> QED BY <1>6, <1>10, <2>1, FlowEmit
<1>12. N[1] = Reach(body')[1] /\ Flow(body', N, E, blocks')
  BY <1>1, <1>6, <1>8, <1>11
<1> QED BY <1>12, Zenon DEF Finished

-----------------------------------------------------------------------------
(* A call: the mark in front of its next instruction names the event that the source
   performs next. *)

Due(s) ==
  /\ ~Returned(body, last)
  /\ After(body, last) = IF last.yes THEN s.yes ELSE s.no

Calling(N) ==
  \E a : /\ a[1] = Both(N[pc.block]) /\ LeadsAlong(body, N, blocks[pc.block], a)
         /\ Due(a[pc.index])

SourceInv ==
  /\ phase = "build" => Joints(body, open) /\ \A v : Completes(v, body, open) => Followed(v)
  /\ phase \in {"built", "run"} => \E N, E : Finished(N, E) /\ (phase = "run" => Calling(N))
  /\ running <=> phase \in {"run", "returned"}
  /\ phase \in {"build", "built"} => last = Start

LEMMA SourceAgrees ==
  ASSUME NEW b, NEW e
  PROVE  /\ Source!After(b, e) = After(b, e)
         /\ Source!Returned(b, e) <=> Returned(b, e)
         /\ Source!Token = Token /\ Source!Start = Start
         /\ \A i : Source!Outcomes(b, i) = Outcomes(b, i)
         /\ \A i, yes : Source!Performed(e, i, yes) = Performed(e, i, yes)
<1>1. Source!Conditions = Conditions
  BY DEF Source!Conditions, Conditions
<1>2. Source!Kinds = Kinds
  BY <1>1 DEF Source!Kinds, Kinds
<1>3. Source!Reach(b) = Reach(b)
  BY DEF Source!Reach, Reach
<1>4. Source!After(b, e) = After(b, e)
  BY <1>1, <1>3, Zenon DEF Source!After, After
<1>5. Source!Returned(b, e) <=> Returned(b, e)
  BY DEF Source!Returned, Returned
<1>6. Source!Token = Token /\ Source!Start = Start
  BY <1>2 DEF Source!Token, Token, Source!Start, Start
<1>7. \A i : Source!Outcomes(b, i) = Outcomes(b, i)
  BY <1>1, Zenon DEF Source!Outcomes, Outcomes
<1>8. \A i, yes : Source!Performed(e, i, yes) = Performed(e, i, yes)
  BY Zenon DEF Source!Performed, Performed
<1> QED BY <1>4, <1>5, <1>6, <1>7, <1>8

(* What is due after an event is what its token forks to. *)
LEMMA ForksDue ==
  ASSUME body' = body, NEW i \in 1 .. Len(body), body[i].kind # "ret", Len(body) \in Nat,
         NEW yes \in BOOLEAN, last' = Performed(last, i, yes), NEW s, s = Forks(body, i)
  PROVE  Due(s)'
<1>1. last'.at = i /\ last'.yes = yes
  BY DEF Performed
<1>2. i # 0 /\ i \in Nat /\ ~(i > Len(body))
  OBVIOUS
<1>3. ~Returned(body, last')
  BY <1>1, <1>2 DEF Returned
<1>4. After(body, last') = IF yes THEN s.yes ELSE s.no
  BY <1>1, <1>2 DEF After, Forks, Failing
<1>5. ~Returned(body', last') /\ After(body', last') = IF last'.yes THEN s.yes ELSE s.no
  BY <1>1, <1>3, <1>4
<1> QED BY <1>5 DEF Due

LEMMA BothDue ==
  ASSUME NEW s, NEW m, s = Both(m), Due(s)
  PROVE  ~Returned(body, last) /\ After(body, last) = m
BY DEF Due, Both

(* A step inside a block and a step to another block. *)
LEMMA SteppingDue ==
  ASSUME NEW N, NEW E, Finished(N, E), UNCHANGED <<body, blocks>>, phase' = "run",
         UNCHANGED running, running,
         NEW a, a[1] = Both(N[pc.block]), LeadsAlong(body, N, blocks[pc.block], a),
         pc \in [block : Nat, index : Nat], Step, NEW t, t = a[pc.index + 1], Due(t)'
  PROVE  SourceInv'
<1>1. pc'.block = pc.block /\ pc'.index = pc.index + 1
  BY DEF Step
<1>4. a[1] = Both(N[pc'.block]) /\ LeadsAlong(body', N, blocks'[pc'.block], a)
  BY <1>1
<1>5. ~Returned(body', last') /\ After(body', last') = IF last'.yes THEN t.yes ELSE t.no
  BY DEF Due
<1>6. a[pc'.index] = t
  BY <1>1
<1>7. /\ ~Returned(body', last')
      /\ After(body', last') = IF last'.yes THEN a[pc'.index].yes ELSE a[pc'.index].no
  BY <1>5, <1>6
<1>8. Calling(N)'
  BY <1>4, <1>7, Zenon DEF Calling, Due
<1>9. Finished(N, E)'
  BY DEF Finished
<1> QED BY <1>8, <1>9 DEF SourceInv

LEMMA JumpingDue ==
  ASSUME BuildInv, NEW N, NEW E, Finished(N, E), UNCHANGED <<body, blocks, last>>, phase' = "run",
         UNCHANGED running, running,
         NEW b \in 1 .. Len(blocks), Jump(b), Due(Both(N[b]))
  PROVE  SourceInv'
<1>1. pc'.block = b /\ pc'.index = 1
  BY DEF Jump
<1>2. PICK a : a[1] = Both(N[b]) /\ LeadsAlong(body, N, blocks[b], a)
  BY DEF Finished, Flow, Path
<1>3. /\ ~Returned(body', last')
      /\ After(body', last') = IF last'.yes THEN a[pc'.index].yes ELSE a[pc'.index].no
  <2>1. Due(a[1])
    BY <1>2
  <2> QED BY <1>1, <2>1 DEF Due
<1>4. a[1] = Both(N[pc'.block]) /\ LeadsAlong(body', N, blocks'[pc'.block], a)
  BY <1>1, <1>2
<1>5. Calling(N)'
  BY <1>3, <1>4, Zenon DEF Calling, Due
<1>6. Finished(N, E)'
  BY DEF Finished
<1> QED BY <1>5, <1>6 DEF SourceInv

LEMMA RunPerforms ==
  ASSUME BuildInv, RunInv, SourceInv, Run
  PROVE  SourceInv' /\ [Source!Next]_<<body, running, last>>
<1>1. phase = "run" /\ UNCHANGED <<body, blocks, running>>
  BY DEF Run, Evaluate, Allocate, SaveStack, RestoreStack, Branch, BranchIf, Return, Running, built
<1>2. running /\ running' /\ phase = "run"
  BY <1>1 DEF SourceInv
<1>3. PICK N, E : Finished(N, E) /\ Calling(N)
  BY <1>1 DEF SourceInv
<1>4. PICK a : /\ a[1] = Both(N[pc.block]) /\ LeadsAlong(body, N, blocks[pc.block], a)
               /\ Due(a[pc.index])
  BY <1>3 DEF Calling
<1>5. PICK b, i, x : b = pc.block /\ i = pc.index /\ x = blocks[b][i]
  OBVIOUS
<1>6. /\ b \in 1 .. Len(blocks) /\ i \in 1 .. Len(blocks[b]) /\ Len(blocks) \in Nat
      /\ x \in Instruction /\ Instr = x
      /\ x.op \in {"br", "condbr"} => x.yes \in 2 .. Len(blocks)
      /\ x.op = "condbr" => x.no \in 2 .. Len(blocks)
  BY <1>1, <1>5, AtInstruction
<1>7. pc \in [block : Nat, index : Nat] /\ Len(body) \in Nat
  BY DEF RunInv, BuildInv
<1>8. PICK s, t : s = a[i] /\ t = a[i + 1]
  OBVIOUS
<1>9. Leads(body, N, x, s, t) /\ Due(s)
  BY <1>4, <1>5, <1>6, <1>8 DEF LeadsAlong
<1>10. x.op # "eval" /\ x.op # "ret" => x.op \in {"alloca", "save", "restore", "br", "condbr"}
  BY <1>6 DEF Instruction, Terminators
<1>11. CASE UNCHANGED last /\ Step /\ phase' = "run" /\ t = s
  <2>1. Due(t)'
    <3>1. ~Returned(body, last) /\ After(body, last) = IF last.yes THEN t.yes ELSE t.no
      BY <1>9, <1>11 DEF Due
    <3>2. ~Returned(body', last') /\ After(body', last') = IF last'.yes THEN t.yes ELSE t.no
      BY <1>1, <1>11, <3>1
    <3> QED BY <3>2 DEF Due
  <2>2. t = a[pc.index + 1]
    BY <1>5, <1>8
  <2>3. SourceInv'
    BY <1>1, <1>2, <1>3, <1>4, <1>7, <1>11, <2>1, <2>2, SteppingDue
  <2> QED BY <1>1, <1>11, <2>3
<1>12. CASE Evaluate
  <2>1. /\ x.op = "eval" /\ phase' = "run" /\ Step
        /\ IF body[x.at].kind = "ret" THEN last' = last
           ELSE \E yes \in Outcomes(body, x.at) : last' = Performed(last, x.at, yes)
    BY <1>1, <1>6, <1>12 DEF Evaluate, Running
  <2>2. /\ x.at \in 1 .. Len(body) /\ s = Both(x.at)
        /\ t = IF body[x.at].kind = "ret" THEN s ELSE Forks(body, x.at)
    BY <1>9, <2>1 DEF Leads
  <2>3. CASE body[x.at].kind = "ret"
    BY <1>11, <2>1, <2>2, <2>3
  <2>4. CASE body[x.at].kind # "ret"
    <3>1. PICK yes \in Outcomes(body, x.at) : last' = Performed(last, x.at, yes)
      BY <2>1, <2>4
    <3>2. yes \in BOOLEAN
      BY <3>1 DEF Outcomes
    <3>3. ~Returned(body, last) /\ After(body, last) = x.at
      BY <1>9, <2>2, BothDue
    <3>4. PICK j : j = x.at
      OBVIOUS
    <3>5. Due(t)'
      <4>1. t = Forks(body, j) /\ j \in 1 .. Len(body) /\ body[j].kind # "ret"
        BY <2>2, <2>4, <3>4
      <4>2. last' = Performed(last, j, yes)
        BY <3>1, <3>4
      <4> QED BY <1>1, <1>7, <3>2, <4>1, <4>2, ForksDue
    <3>6. t = a[pc.index + 1]
      BY <1>5, <1>8
    <3>7. SourceInv'
      BY <1>1, <1>2, <1>3, <1>4, <1>7, <2>1, <3>5, <3>6, SteppingDue
    <3>8. Source!Perform
      BY <1>1, <1>2, <3>1, <3>3, SourceAgrees DEF Source!Perform
    <3> QED BY <3>7, <3>8 DEF Source!Next
  <2> QED BY <2>3, <2>4
<1>13. CASE Allocate \/ SaveStack \/ RestoreStack
  <2>1. x.op \in {"alloca", "save", "restore"} /\ UNCHANGED last /\ Step /\ phase' = "run"
    BY <1>1, <1>6, <1>13 DEF Allocate, SaveStack, RestoreStack, Running
  <2>2. t = s
    BY <1>9, <2>1 DEF Leads
  <2> QED BY <1>11, <2>1, <2>2
<1>14. CASE Branch
  <2>1. x.op = "br" /\ UNCHANGED last /\ Jump(x.yes) /\ phase' = "run"
    BY <1>1, <1>6, <1>14 DEF Branch, Running
  <2>2. s = Both(N[x.yes])
    BY <1>9, <2>1 DEF Leads
  <2>3. PICK c : c = x.yes
    OBVIOUS
  <2>4. c \in 1 .. Len(blocks) /\ Jump(c) /\ Due(Both(N[c]))
    BY <1>6, <1>9, <2>1, <2>2, <2>3
  <2>5. SourceInv'
    BY <1>1, <1>2, <1>3, <2>1, <2>4, JumpingDue
  <2> QED BY <1>1, <2>1, <2>5
<1>15. CASE BranchIf
  <2>1. x.op = "condbr" /\ UNCHANGED last /\ phase' = "run"
        /\ Jump(IF last.yes THEN x.yes ELSE x.no)
    BY <1>1, <1>6, <1>15 DEF BranchIf, Running
  <2>2. s.yes = N[x.yes] /\ s.no = N[x.no]
    BY <1>9, <2>1 DEF Leads
  <2>3. PICK c : c = IF last.yes THEN x.yes ELSE x.no
    OBVIOUS
  <2>4. c \in 1 .. Len(blocks) /\ Jump(c)
    BY <1>6, <2>1, <2>3
  <2>5. Due(Both(N[c]))
    <3>1. ~Returned(body, last) /\ After(body, last) = N[c]
      BY <1>9, <2>2, <2>3 DEF Due
    <3> QED BY <3>1 DEF Due, Both
  <2>6. SourceInv'
    BY <1>1, <1>2, <1>3, <2>1, <2>4, <2>5, JumpingDue
  <2> QED BY <1>1, <2>1, <2>6
<1>16. CASE Return
  <2>1. x.op = "ret" /\ phase' = "returned" /\ last' = Performed(last, x.at, TRUE)
    BY <1>1, <1>6, <1>16 DEF Return, Running
  <2>2. s = Both(x.at)
    BY <1>9, <2>1 DEF Leads
  <2>3. ~Returned(body, last) /\ After(body, last) = x.at
    BY <1>9, <2>2, BothDue
  <2>4. TRUE \in Outcomes(body, x.at)
    BY DEF Outcomes
  <2>5. Source!Perform
    BY <1>1, <1>2, <2>1, <2>3, <2>4, SourceAgrees DEF Source!Perform
  <2>6. SourceInv'
    BY <1>2, <2>1 DEF SourceInv
  <2> QED BY <2>5, <2>6 DEF Source!Next
<1> QED BY <1>12, <1>13, <1>14, <1>15, <1>16, Zenon DEF Run

LEMMA CallBegins ==
  ASSUME BuildInv, RunInv, SourceInv, CallFunction
  PROVE  SourceInv' /\ [Source!Next]_<<body, running, last>>
<1>1. /\ phase = "built" /\ phase' = "run" /\ running' = TRUE
      /\ UNCHANGED <<body, blocks, last, pc>>
  BY DEF CallFunction, built
<1>2. PICK N, E : Finished(N, E)
  BY <1>1 DEF SourceInv
<1>3. ~running /\ last = Start /\ pc.block = 1 /\ pc.index = 1
  BY <1>1 DEF SourceInv, RunInv
<1>4. Len(blocks) \in Nat /\ 1 \in 1 .. Len(blocks)
  BY Sizes
<1>5. PICK a : a[1] = Both(N[1]) /\ LeadsAlong(body, N, blocks[1], a)
  BY <1>2, <1>4 DEF Finished, Flow, Path
<1>6. ~Returned(body, Start) /\ After(body, Start) = N[1]
  <2>1. Start.at = 0 /\ 0 + 1 = 1
    BY DEF Start
  <2> QED BY <1>2, <2>1 DEF Returned, After, Finished
<1>7. Due(a[1])
  BY <1>3, <1>5, <1>6 DEF Due, Both
<1>8. Calling(N)
  BY <1>3, <1>5, <1>7 DEF Calling
<1>9. Calling(N)' /\ Finished(N, E)'
  <2>1. Due(a[1])'
    BY <1>1, <1>7 DEF Due
  <2>2. a[1] = Both(N[pc'.block]) /\ LeadsAlong(body', N, blocks'[pc'.block], a)
    BY <1>1, <1>3, <1>5
  <2>3. Calling(N)'
    <3>1. /\ ~Returned(body', last')
          /\ After(body', last') = IF last'.yes THEN a[pc'.index].yes ELSE a[pc'.index].no
      BY <1>1, <1>3, <2>1 DEF Due
    <3> QED BY <2>2, <3>1, Zenon DEF Calling, Due
  <2> QED BY <1>1, <1>2, <2>3 DEF Finished
<1>10. SourceInv'
  BY <1>1, <1>9 DEF SourceInv
<1>11. Source!Call
  BY <1>1, <1>3 DEF Source!Call
<1> QED BY <1>10, <1>11 DEF Source!Next

-----------------------------------------------------------------------------
LEMMA BuildWrites ==
  ASSUME BuildInv, BuildInv', Shaped, TidyInv, SourceInv, Build
  PROVE  SourceInv' /\ [Source!Next]_<<body, running, last>>
<1>1. phase = "build" /\ phase' \in {"build", "built", "crashed"} /\ UNCHANGED <<running, last>>
  <2>1. CASE FinishFunction \/ BuildBareReturn
    BY <2>1 DEF FinishFunction, BuildBareReturn, called, InBlock
  <2>2. CASE BuildSimple \/ BuildDeclaration \/ BuildReturn \/ OpenBlock \/ CloseBlock
    BY <2>2 DEF BuildSimple, BuildDeclaration, BuildReturn, OpenBlock, CloseBlock,
                InBlock, InBlockOf, called
  <2>3. CASE OpenConditional \/ CloseConditional \/ OpenLoop \/ CloseLoop
    BY <2>3 DEF OpenConditional, CloseConditional, OpenLoop, CloseLoop, InBlock, InBlockOf, called
  <2>4. CASE \/ OpenBranch \/ OpenTwig \/ CloseTwig
             \/ OpenOtherwise \/ CloseOtherwise \/ CloseBranch
    BY <2>4 DEF OpenBranch, OpenTwig, CloseTwig, OpenOtherwise, CloseOtherwise, CloseBranch,
                InBlock, InBlockOf, Between, called
  <2> QED BY <2>1, <2>2, <2>3, <2>4, Zenon DEF Build
<1>2. Building
  BY <1>1, AtBuild
<1>3. /\ Joints(body, open) /\ \A v : Completes(v, body, open) => Followed(v)
      /\ ~running /\ last = Start
  BY <1>1 DEF SourceInv
<1>4. ~running' /\ last' = Start
  BY <1>1, <1>3
<1>5. [Source!Next]_<<body, running, last>>
  <2>1. body' \in Seq(Token)
    BY DEF BuildInv
  <2>2. Source!Write
    BY <1>1, <1>3, <2>1, SourceAgrees DEF Source!Write
  <2> QED BY <2>2 DEF Source!Next
<1>6. CASE BuildBareReturn
  <2>1. phase' = "crashed"
    BY <1>6 DEF BuildBareReturn
  <2> QED BY <1>4, <1>5, <2>1 DEF SourceInv
<1>7. CASE FinishFunction
  <2>1. phase' = "built"
    BY <1>7 DEF FinishFunction
  <2>2. (\E N, E : Finished(N, E))'
    BY <1>2, <1>3, <1>7, FinishKnown
  <2> QED BY <1>4, <1>5, <2>1, <2>2 DEF SourceInv
<1>8. ASSUME ~BuildBareReturn, ~FinishFunction
      PROVE  SourceInv'
  <2>1. phase' = "build"
    <3>1. CASE BuildSimple \/ BuildDeclaration \/ BuildReturn \/ OpenBlock \/ CloseBlock
      BY <1>1, <3>1 DEF BuildSimple, BuildDeclaration, BuildReturn, OpenBlock, CloseBlock
    <3>2. CASE OpenConditional \/ CloseConditional \/ OpenLoop \/ CloseLoop
      BY <1>1, <3>2 DEF OpenConditional, CloseConditional, OpenLoop, CloseLoop
    <3>3. CASE \/ OpenBranch \/ OpenTwig \/ CloseTwig
               \/ OpenOtherwise \/ CloseOtherwise \/ CloseBranch
      BY <1>1, <3>3 DEF OpenBranch, OpenTwig, CloseTwig, OpenOtherwise, CloseOtherwise, CloseBranch
    <3> QED BY <1>8, <3>1, <3>2, <3>3, Zenon DEF Build
  <2>2. \A v : Completes(v, body, open) => Followed(v)
    BY <1>3
  <2>3. CASE CloseTwig
    <3>1. Joints(body', open')
      BY <1>2, <1>3, <2>3, TwigJoints
    <3>2. ASSUME NEW v PROVE Completes(v, body', open') => Followed(v)'
      BY <1>2, <1>3, <2>3, TwigKnown
    <3> QED BY <1>4, <2>1, <3>1, <3>2, Zenon DEF SourceInv
  <2>4. CASE ~CloseTwig
    <3>1. ASSUME NEW v
          PROVE  Joints(body', open') /\ (Completes(v, body', open') => Followed(v)')
      <4>1. Completes(v, body, open) => Followed(v)
        BY <2>2
      <4>2. CASE BuildSimple \/ BuildDeclaration \/ BuildReturn
        BY <1>2, <1>3, <4>1, <4>2, WritingKnown, Zenon
      <4>3. CASE OpenBlock \/ OpenBranch \/ OpenConditional \/ OpenLoop
        BY <1>2, <1>3, <4>1, <4>3, OpeningKnown, Zenon
      <4>4. CASE CloseBlock \/ CloseConditional \/ CloseLoop \/ CloseBranch \/ CloseOtherwise
        BY <1>2, <1>3, <4>1, <4>4, ClosingKnown, Zenon
      <4>5. CASE OpenTwig \/ OpenOtherwise
        BY <1>2, <1>3, <4>1, <4>5, NextPartKnown, Zenon
      <4> QED BY <1>8, <2>4, <4>2, <4>3, <4>4, <4>5, Zenon DEF Build
    <3>2. Joints(body', open')
      BY <3>1
    <3> QED BY <1>4, <2>1, <3>1, <3>2, Zenon DEF SourceInv
  <2> QED BY <2>3, <2>4
<1> QED BY <1>5, <1>6, <1>7, <1>8

LEMMA SourceStep ==
  ASSUME BuildInv, RunInv, Shaped, TidyInv, SourceInv, [Next]_vars
  PROVE  SourceInv' /\ [Source!Next]_<<body, running, last>>
<1>1. BuildInv'
  BY BuildKeeps
<1>2. CASE UNCHANGED vars
  <2>1. UNCHANGED <<body, open, blocks, insert, phase, running, last, pc>>
    BY <1>2 DEF vars, built, called
  <2>2. ASSUME NEW v, Followed(v) PROVE Followed(v)'
    BY <2>1, <2>2 DEF Followed
  <2>3. ASSUME NEW N, NEW E, Finished(N, E) PROVE Finished(N, E)'
    BY <2>1, <2>3 DEF Finished
  <2>4. ASSUME NEW N, Calling(N) PROVE Calling(N)'
    <3>1. PICK a : /\ a[1] = Both(N[pc.block]) /\ LeadsAlong(body, N, blocks[pc.block], a)
                   /\ Due(a[pc.index])
      BY <2>4 DEF Calling
    <3>2. PICK s : s = a[pc.index]
      OBVIOUS
    <3>3. ~Returned(body', last') /\ After(body', last') = IF last'.yes THEN s.yes ELSE s.no
      BY <2>1, <3>1, <3>2 DEF Due
    <3>4. /\ a[1] = Both(N[pc'.block]) /\ LeadsAlong(body', N, blocks'[pc'.block], a)
          /\ s = a[pc'.index]
      BY <2>1, <3>1, <3>2
    <3> QED BY <3>3, <3>4, Zenon DEF Calling, Due
  <2>5. phase = "build" => Joints(body', open') /\ \A v : Completes(v, body', open') => Followed(v)'
    <3>1. phase = "build" => Joints(body, open) /\ \A v : Completes(v, body, open) => Followed(v)
      BY DEF SourceInv
    <3> QED BY <2>1, <2>2, <3>1
  <2>6. phase \in {"built", "run"} =>
          \E N, E : Finished(N, E)' /\ (phase = "run" => Calling(N)')
    <3>1. phase \in {"built", "run"} => \E N, E : Finished(N, E) /\ (phase = "run" => Calling(N))
      BY DEF SourceInv
    <3> QED BY <2>3, <2>4, <3>1
  <2>7. /\ running' <=> phase \in {"run", "returned"}
        /\ phase \in {"build", "built"} => last' = Start
    BY <2>1 DEF SourceInv
  <2>8. SourceInv'
    BY <2>1, <2>5, <2>6, <2>7 DEF SourceInv
  <2> QED BY <2>1, <2>8
<1> QED BY <1>1, <1>2, BuildWrites, CallBegins, RunPerforms, Zenon DEF Next

LEMMA InitSource ==
  ASSUME Init
  PROVE  SourceInv /\ Source!Init
<1>1. body = <<>> /\ open = <<>> /\ phase = "build" /\ running = FALSE /\ last = Start
  BY DEF Init
<1>2. Joints(body, open)
  BY <1>1 DEF Joints
<1>3. \A v : Completes(v, body, open) => Followed(v)
  BY InitKnown
<1>4. SourceInv
  BY <1>1, <1>2, <1>3 DEF SourceInv
<1>5. Source!Init
  BY <1>1, SourceAgrees DEF Source!Init
<1> QED BY <1>4, <1>5

(* Whatever the body, its nesting, its length and the outcomes of its conditions: a call of  *)
(* the blocks that are built performs the events of the source in their order, and nothing   *)
(* after a return.                                                                           *)
THEOREM EventsInSourceOrder == Spec => ImplementsSource
<1>1. Init => BuildInv /\ RunInv /\ Shaped /\ TidyInv /\ SourceInv /\ Source!Init
  BY InitBuilds, InitRuns, InitShaped, InitTidy, InitSource
<1>2. BuildInv /\ RunInv /\ Shaped /\ TidyInv /\ SourceInv /\ [Next]_vars
        => /\ BuildInv' /\ RunInv' /\ Shaped' /\ TidyInv' /\ SourceInv'
           /\ [Source!Next]_<<body, running, last>>
  BY BuildKeeps, RunInvKeeps, ShapedKeeps, TidyKeeps, SourceStep
<1> QED BY <1>1, <1>2, PTL DEF Spec, ImplementsSource, Source!Safety
=============================================================================
