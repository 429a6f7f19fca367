--------------------------- MODULE CompilerProofs ---------------------------
(***************************************************************************)
(* For every set of files, every contents and any number of sessions, what *)
(* an executable holds and why a link fails.                               *)
(***************************************************************************)
EXTENDS CompilerProps, WellFoundedInduction, SequenceTheorems, TLAPS

-----------------------------------------------------------------------------
(* Least and greatest numbers. *)

LEMMA LeastNumber ==
  ASSUME NEW S \in SUBSET Nat, S # {}
  PROVE  \E i \in S : \A j \in S : i <= j
<1>1. PICK i \in S : \A j \in S : <<j, i>> \notin OpToRel(<, Nat)
  BY NatLessThanWellFounded, WFMin
<1>2. ASSUME NEW j \in S PROVE i <= j
  <2>1. <<j, i>> \notin OpToRel(<, Nat)
    BY <1>1
  <2>2. ~ (j < i)
    BY <2>1 DEF OpToRel
  <2> QED BY <2>2
<1> QED BY <1>2

LEMMA GreatestNumber ==
  ASSUME NEW n \in Nat, NEW S \in SUBSET (1 .. n), S # {}
  PROVE  \E i \in S : \A j \in S : j <= i
<1> DEFINE T == {n - i : i \in S}
<1>1. \A i \in S : n - i \in Nat
  OBVIOUS
<1>a. T \in SUBSET Nat /\ T # {}
  BY <1>1
<1> HIDE DEF T
<1>2. PICK k \in T : \A j \in T : k <= j
  BY <1>a, LeastNumber
<1>3. PICK i \in S : k = n - i
  BY DEF T
<1>4. ASSUME NEW j \in S PROVE j <= i
  BY <1>2, <1>3 DEF T
<1> QED BY <1>4
-----------------------------------------------------------------------------
(* Where a word is in a name, and the parts before and after it. *)

LEMMA LastOfFacts ==
  ASSUME NEW name \in Seq(Words), NEW word, NEW last, last = LastOf(word, name)
  PROVE  /\ last \in 0 .. Len(name)
         /\ last # 0 => name[last] = word
         /\ \A i \in 1 .. Len(name) : name[i] = word => i <= last
<1> DEFINE at == Positions(word, name)
<1>1. at \in SUBSET (1 .. Len(name)) /\ \A i \in 1 .. Len(name) : i \in at <=> name[i] = word
  BY DEF Positions
<1>2. last = IF at = {} THEN 0 ELSE CHOOSE i \in at : \A j \in at : j <= i
  BY Zenon DEF LastOf
<1>3. Len(name) \in Nat
  OBVIOUS
<1> HIDE DEF at
<1>4. CASE at = {}
  BY <1>1, <1>2, <1>3, <1>4
<1>5. CASE at # {}
  <2>1. \E i \in at : \A j \in at : j <= i
    BY <1>1, <1>3, <1>5, GreatestNumber
  <2>2. last \in at /\ \A j \in at : j <= last
    BY <1>2, <1>5, <2>1, Zenon
  <2> QED BY <1>1, <1>3, <2>2
<1> QED BY <1>4, <1>5

LEMMA FirstOfFacts ==
  ASSUME NEW name \in Seq(Words), NEW word, NEW k \in 1 .. Len(name),
         name[k] = word, \A i \in 1 .. k - 1 : name[i] # word
  PROVE  FirstOf(word, name) = k
<1> DEFINE at == Positions(word, name)
<1>1. at \in SUBSET (1 .. Len(name)) /\ \A i \in 1 .. Len(name) : i \in at <=> name[i] = word
  BY DEF Positions
<1>2. FirstOf(word, name) = IF at = {} THEN 0 ELSE CHOOSE i \in at : \A j \in at : i <= j
  BY Zenon DEF FirstOf
<1>3. Len(name) \in Nat
  OBVIOUS
<1> HIDE DEF at
<1>4. k \in at /\ \A j \in at : k <= j
  BY <1>1, <1>3
<1>5. \A i \in at : (\A j \in at : i <= j) => i = k
  BY <1>1, <1>3, <1>4
<1> DEFINE first == CHOOSE i \in at : \A j \in at : i <= j
<1>6. first \in at /\ \A j \in at : first <= j
  BY <1>4, Zenon
<1> QED BY <1>2, <1>4, <1>5, <1>6, Zenon

(* Parts of sequences of words. *)

LEMMA FromThird ==
  ASSUME NEW id \in Seq(Words), Len(id) >= 2
  PROVE  /\ SubSeq(id, 3, Len(id)) \in Seq(Words) /\ Len(SubSeq(id, 3, Len(id))) = Len(id) - 2
         /\ \A i \in 1 .. Len(id) - 2 : SubSeq(id, 3, Len(id))[i] = id[i + 2]
<1> DEFINE n == Len(id)
           path == SubSeq(id, 3, n)
<1>0. n \in Nat /\ n >= 2
  OBVIOUS
<1>1. path \in Seq(Words)
  BY SubSeqProperties
<1>2. Len(path) = IF 3 <= n THEN n - 3 + 1 ELSE 0
  BY SubSeqProperties
<1>3. \A i \in 1 .. n - 3 + 1 : path[i] = id[3 + i - 1]
  BY SubSeqProperties
<1> HIDE DEF path, n
<1>4. Len(path) = n - 2
  <2>1. PICK m : m = Len(path)
    OBVIOUS
  <2>2. m = n - 2
    BY <1>0, <1>2, <2>1
  <2> QED BY <2>1, <2>2
<1>5. \A i \in 1 .. n - 2 : path[i] = id[i + 2]
  BY <1>0, <1>3
<1> QED BY <1>1, <1>4, <1>5 DEF path, n

LEMMA UpTo ==
  ASSUME NEW id \in Seq(Words), NEW n \in 0 .. Len(id)
  PROVE  /\ SubSeq(id, 1, n) \in Seq(Words) /\ Len(SubSeq(id, 1, n)) = n
         /\ \A i \in 1 .. n : SubSeq(id, 1, n)[i] = id[i]
<1> DEFINE p == SubSeq(id, 1, n)
<1>1. p \in Seq(Words) /\ Len(p) = n
  BY SubSeqProperties
<1>2. \A i \in 1 .. n - 1 + 1 : p[i] = id[1 + i - 1]
  BY SubSeqProperties
<1> HIDE DEF p
<1>3. \A i \in 1 .. n : p[i] = id[i]
  BY <1>2
<1> QED BY <1>1, <1>3 DEF p

LEMMA Joined ==
  ASSUME NEW p \in Seq(Words), NEW t \in Seq(Words)
  PROVE  /\ p \o t \in Seq(Words) /\ Len(p \o t) = Len(p) + Len(t)
         /\ \A i \in 1 .. Len(p) : (p \o t)[i] = p[i]
         /\ \A i \in 1 .. Len(t) : (p \o t)[Len(p) + i] = t[i]
<1> DEFINE new == p \o t
<1>1. Len(p) \in Nat /\ Len(t) \in Nat
  OBVIOUS
<1>2. new \in Seq(Words) /\ Len(new) = Len(p) + Len(t)
  BY ConcatProperties
<1>3. \A i \in 1 .. Len(p) + Len(t) : new[i] = IF i <= Len(p) THEN p[i] ELSE t[i - Len(p)]
  BY ConcatProperties
<1> HIDE DEF new
<1>4. ASSUME NEW i \in 1 .. Len(p) PROVE new[i] = p[i]
  BY <1>1, <1>3
<1>5. ASSUME NEW i \in 1 .. Len(t) PROVE new[Len(p) + i] = t[i]
  <2>1. Len(p) + i \in 1 .. Len(p) + Len(t) /\ ~(Len(p) + i <= Len(p)) /\ Len(p) + i - Len(p) = i
    BY <1>1
  <2> QED BY <1>3, <2>1
<1> QED BY <1>2, <1>4, <1>5 DEF new

(* Names with a separator u at the second place; s is the other separator. *)

IsName(id, u, s) ==
  /\ id \in Seq(Words) /\ Len(id) >= 2
  /\ id[1] # u /\ id[1] # s /\ id[2] = u /\ u # s

Before(id, u, s) == SubSeq(id, 1, Larger(LastOf(u, id), LastOf(s, id)))
After(id, u) == SubSeq(id, FirstOf(u, id) + 1, Len(id))
NoOther(id, u) == \A i \in 3 .. Len(id) : id[i] # u

SameKind(id1, id2) == id1[1] = id2[1]

(* What follows the first u of a name. *)
LEMMA AfterFacts ==
  ASSUME NEW u, NEW s, NEW id, IsName(id, u, s)
  PROVE  /\ After(id, u) \in Seq(Words) /\ Len(After(id, u)) = Len(id) - 2
         /\ \A i \in 1 .. Len(id) - 2 : After(id, u)[i] = id[i + 2]
<1>1. id \in Seq(Words) /\ Len(id) \in Nat /\ Len(id) >= 2 /\ id[1] # u /\ id[2] = u
  BY DEF IsName
<1>2. 2 \in 1 .. Len(id) /\ \A i \in 1 .. 2 - 1 : id[i] # u
  BY <1>1
<1>3. FirstOf(u, id) = 2
  BY <1>1, <1>2, FirstOfFacts
<1>4. After(id, u) = SubSeq(id, 3, Len(id))
  BY <1>3 DEF After
<1> QED BY <1>1, <1>4, FromThird

(* The part of a name up to its last u or s has two words at least. *)
LEMMA BeforeFacts ==
  ASSUME NEW u, NEW s, NEW id, IsName(id, u, s)
  PROVE  /\ Larger(LastOf(u, id), LastOf(s, id)) \in 2 .. Len(id)
         /\ Before(id, u, s) \in Seq(Words)
         /\ Len(Before(id, u, s)) = Larger(LastOf(u, id), LastOf(s, id))
         /\ \A i \in 1 .. Larger(LastOf(u, id), LastOf(s, id)) : Before(id, u, s)[i] = id[i]
<1>1. id \in Seq(Words) /\ Len(id) \in Nat /\ Len(id) >= 2 /\ id[2] = u
  BY DEF IsName
<1>2. PICK under : under = LastOf(u, id)
  OBVIOUS
<1>3. PICK slash : slash = LastOf(s, id)
  OBVIOUS
<1>4. under \in 0 .. Len(id) /\ \A i \in 1 .. Len(id) : id[i] = u => i <= under
  BY <1>1, <1>2, LastOfFacts
<1>5. slash \in 0 .. Len(id)
  BY <1>1, <1>3, LastOfFacts
<1>6. under \in 2 .. Len(id)
  BY <1>1, <1>4
<1>7. Larger(under, slash) \in 2 .. Len(id) /\ Larger(under, slash) \in 0 .. Len(id)
  BY <1>1, <1>5, <1>6 DEF Larger
<1>8. Before(id, u, s) = SubSeq(id, 1, Larger(under, slash))
  BY <1>2, <1>3, Zenon DEF Before
<1> QED BY <1>1, <1>2, <1>3, <1>7, <1>8, UpTo, Zenon

(* Such a part with t after it is a name of the same kind. *)
LEMMA ExtendedName ==
  ASSUME NEW u, NEW s, NEW id, IsName(id, u, s), NEW t \in Seq(Words)
  PROVE  IsName(Before(id, u, s) \o t, u, s) /\ SameKind(Before(id, u, s) \o t, id)
<1> DEFINE n == Larger(LastOf(u, id), LastOf(s, id))
           p == Before(id, u, s)
           new == p \o t
<1>2. p \in Seq(Words) /\ n \in 2 .. Len(id) /\ Len(p) = n /\ \A i \in 1 .. n : p[i] = id[i]
  BY BeforeFacts
<1> HIDE DEF p, n
<1>3. /\ new \in Seq(Words) /\ Len(new) = Len(p) + Len(t)
      /\ \A i \in 1 .. Len(p) : new[i] = p[i]
  BY <1>2, Joined, Zenon
<1> HIDE DEF new
<1>4. Len(id) \in Nat /\ Len(t) \in Nat
  BY DEF IsName
<1>5. n + Len(t) >= 2 /\ 1 \in 1 .. n /\ 2 \in 1 .. n
  BY <1>2, <1>4
<1>a. Len(new) >= 2
  BY <1>2, <1>3, <1>5, Zenon
<1>b. 1 \in 1 .. Len(p) /\ 2 \in 1 .. Len(p)
  BY <1>2, <1>5, Zenon
<1>6. new[1] = id[1] /\ new[2] = id[2] /\ Len(new) >= 2
  <2>1. new[1] = p[1] /\ new[2] = p[2]
    BY <1>3, <1>b, Zenon
  <2>2. p[1] = id[1] /\ p[2] = id[2]
    BY <1>2, <1>5, Zenon
  <2> QED BY <1>a, <2>1, <2>2
<1>7. IsName(new, u, s)
  BY <1>3, <1>6, Zenon DEF IsName
<1>8. SameKind(new, id)
  BY <1>6, Zenon DEF SameKind
<1> QED BY <1>7, <1>8 DEF new, p

(* If the name has no other u, its last s is where what follows has the last s. *)
LEMMA DirectoryOfName ==
  ASSUME NEW u, NEW s, NEW id, IsName(id, u, s), NoOther(id, u)
  PROVE  /\ LastOf(s, After(id, u)) \in 0 .. Len(id) - 2
         /\ Larger(LastOf(u, id), LastOf(s, id)) = LastOf(s, After(id, u)) + 2
<1> DEFINE path  == After(id, u)
           under == LastOf(u, id)
           x     == LastOf(s, id)
           y     == LastOf(s, path)
           n     == Len(id)
<1>6. id \in Seq(Words) /\ n \in Nat /\ n >= 2 /\ id[1] # s /\ id[2] = u /\ u # s
  BY DEF IsName
<1>7. path \in Seq(Words) /\ Len(path) = n - 2 /\ \A i \in 1 .. n - 2 : path[i] = id[i + 2]
  <2>1. /\ After(id, u) \in Seq(Words) /\ Len(After(id, u)) = Len(id) - 2
        /\ \A i \in 1 .. Len(id) - 2 : After(id, u)[i] = id[i + 2]
    BY AfterFacts, SMT
  <2> QED BY <2>1
<1>8. /\ under \in 0 .. n /\ (under # 0 => id[under] = u)
      /\ \A i \in 1 .. n : id[i] = u => i <= under
  BY <1>6, LastOfFacts
<1>9. x \in 0 .. n /\ (x # 0 => id[x] = s) /\ \A i \in 1 .. n : id[i] = s => i <= x
  BY <1>6, LastOfFacts
<1>10. y \in 0 .. Len(path) /\ (y # 0 => path[y] = s) /\ \A i \in 1 .. Len(path) : path[i] = s => i <= y
  BY <1>7, LastOfFacts
<1>5. \A i \in 3 .. n : id[i] # u
  BY Zenon DEF NoOther
<1> HIDE DEF path, under, x, y, n
<1>a. y \in 0 .. n - 2 /\ (y # 0 => path[y] = s) /\ \A i \in 1 .. n - 2 : path[i] = s => i <= y
  BY <1>7, <1>10
<1>11. under = 2
  <2>1. under >= 2
    BY <1>6, <1>8
  <2>2. under \notin 3 .. n
    BY <1>5, <1>8
  <2> QED BY <1>6, <1>8, <2>1, <2>2
<1> DEFINE A == {i \in 1 .. n : id[i] = s}
           B == {i \in 1 .. n - 2 : path[i] = s}
<1>12. A \in SUBSET (3 .. n)
  <2>1. ASSUME NEW i \in A PROVE i \in 3 .. n
    <3>1. i \in 1 .. n /\ i # 1 /\ i # 2
      BY <1>6, <2>1
    <3> QED BY <1>6, <3>1
  <2> QED BY <2>1
<1>13. \A i \in 1 .. n - 2 : i \in B <=> i + 2 \in A
  <2>1. ASSUME NEW i \in 1 .. n - 2 PROVE i + 2 \in 1 .. n /\ path[i] = id[i + 2]
    BY <1>6, <1>7
  <2> QED BY <2>1
<1>14. (x # 0 => x \in A) /\ \A i \in A : i <= x
  BY <1>6, <1>9
<1>15. (y # 0 => y \in B) /\ \A i \in 1 .. n - 2 : i \in B => i <= y
  BY <1>6, <1>a
<1> HIDE DEF A, B
<1>16. IF x = 0 THEN y = 0 ELSE x = y + 2
  <2>1. CASE x = 0
    <3>1. ASSUME y # 0 PROVE FALSE
      <4>1. y \in 1 .. n - 2
        BY <1>6, <1>a, <3>1
      <4>2. y + 2 \in A
        BY <1>13, <1>15, <3>1, <4>1
      <4>3. y + 2 <= x
        BY <1>14, <4>2
      <4> QED BY <2>1, <4>1, <4>3
    <3> QED BY <2>1, <3>1
  <2>2. CASE x # 0
    <3>1. x \in A /\ x \in 3 .. n
      BY <1>12, <1>14, <2>2
    <3>2. x - 2 \in 1 .. n - 2 /\ x - 2 + 2 = x
      BY <1>6, <3>1
    <3>3. x - 2 \in B
      BY <1>13, <3>1, <3>2
    <3>4. x - 2 <= y
      BY <1>15, <3>2, <3>3
    <3>5. y \in 1 .. n - 2 /\ y # 0
      BY <1>6, <1>a, <3>1, <3>4
    <3>6. y + 2 \in A
      BY <1>13, <1>15, <3>5
    <3>7. y + 2 <= x
      BY <1>14, <3>6
    <3> QED BY <2>2, <3>1, <3>4, <3>5, <3>7
  <2> QED BY <2>1, <2>2
<1>17. x # 0 => x \in 3 .. n
  BY <1>12, <1>14
<1>18. Larger(under, x) = y + 2
  BY <1>6, <1>9, <1>a, <1>11, <1>16, <1>17 DEF Larger
<1> QED BY <1>a, <1>18, Zenon DEF path, under, x, y, n

(* Then what follows in the new name is t in the directory of what follows in the name. *)
LEMMA NeighbourName ==
  ASSUME NEW u, NEW s, NEW id, IsName(id, u, s), NoOther(id, u), NEW t \in Seq(Words)
  PROVE  After(Before(id, u, s) \o t, u)
           = SubSeq(After(id, u), 1, LastOf(s, After(id, u))) \o t
<1> DEFINE path  == After(id, u)
           dir   == LastOf(s, path)
           cut   == Larger(LastOf(u, id), LastOf(s, id))
           p     == Before(id, u, s)
           new   == p \o t
           left  == After(new, u)
           d     == SubSeq(path, 1, dir)
           right == d \o t
           n     == Len(id)
           k     == Len(t)
           q     == Len(p)
           m     == Len(new)
           e     == Len(d)
<1>1. n \in Nat /\ n >= 2 /\ k \in Nat /\ id \in Seq(Words)
  BY DEF IsName
<1>2. dir \in 0 .. n - 2 /\ cut = dir + 2
  BY DirectoryOfName, Zenon
<1>3. path \in Seq(Words) /\ Len(path) = n - 2 /\ \A i \in 1 .. n - 2 : path[i] = id[i + 2]
  <2>1. /\ After(id, u) \in Seq(Words) /\ Len(After(id, u)) = Len(id) - 2
        /\ \A i \in 1 .. Len(id) - 2 : After(id, u)[i] = id[i + 2]
    BY AfterFacts, SMT
  <2> QED BY <2>1
<1>4. p \in Seq(Words) /\ q = cut /\ \A i \in 1 .. cut : p[i] = id[i]
  BY BeforeFacts
<1>5. m = q + k /\ (\A i \in 1 .. q : new[i] = p[i]) /\ \A i \in 1 .. k : new[q + i] = t[i]
  BY <1>4, Joined, Zenon
<1>6. IsName(new, u, s)
  BY ExtendedName
<1>7. left \in Seq(Words) /\ Len(left) = m - 2 /\ \A i \in 1 .. m - 2 : left[i] = new[i + 2]
  <2> HIDE DEF path, dir, cut, p, new, left, d, right, n, k, q, m, e
  <2>1. /\ After(new, u) \in Seq(Words) /\ Len(After(new, u)) = Len(new) - 2
        /\ \A i \in 1 .. Len(new) - 2 : After(new, u)[i] = new[i + 2]
    BY <1>6, AfterFacts, SMT
  <2> QED BY <2>1 DEF left, m
<1>8. d \in Seq(Words) /\ e = dir /\ \A i \in 1 .. dir : d[i] = path[i]
  <2>1. dir \in 0 .. Len(path)
    BY <1>2, <1>3, Zenon
  <2> QED BY <1>3, <2>1, UpTo, Zenon
<1>9. /\ right \in Seq(Words) /\ Len(right) = e + k
      /\ \A i \in 1 .. e : right[i] = d[i]
      /\ \A i \in 1 .. k : right[e + i] = t[i]
  BY <1>8, Joined, Zenon
<1> HIDE DEF path, dir, cut, p, new, left, d, right, n, k, q, m, e
<1>10. /\ dir \in Nat /\ dir <= n - 2 /\ cut = dir + 2 /\ q = dir + 2 /\ m = dir + 2 + k
       /\ m - 2 = dir + k /\ e = dir
  BY <1>1, <1>2, <1>4, <1>5, <1>8
<1>11. ASSUME NEW i \in 1 .. dir PROVE left[i] = right[i]
  <2>1. /\ i \in 1 .. m - 2 /\ i + 2 \in 1 .. q /\ i + 2 \in 1 .. cut
        /\ i \in 1 .. n - 2 /\ i \in 1 .. e
    BY <1>1, <1>10
  <2>2. left[i] = new[i + 2] /\ new[i + 2] = p[i + 2]
    BY <1>5, <1>7, <2>1, Zenon
  <2>3. p[i + 2] = id[i + 2] /\ path[i] = id[i + 2]
    BY <1>3, <1>4, <2>1, Zenon
  <2>4. right[i] = d[i] /\ d[i] = path[i]
    BY <1>8, <1>9, <2>1, Zenon
  <2> QED BY <2>2, <2>3, <2>4, Zenon
<1>12. ASSUME NEW j \in 1 .. k PROVE left[dir + j] = right[dir + j]
  <2>1. dir + j \in 1 .. m - 2 /\ dir + j + 2 = q + j /\ dir + j = e + j
    BY <1>1, <1>10
  <2>2. left[dir + j] = new[q + j]
    BY <1>7, <2>1, Zenon
  <2>3. right[dir + j] = t[j]
    BY <1>9, <2>1, Zenon
  <2> QED BY <1>5, <2>2, <2>3, Zenon
<1>13. ASSUME NEW i \in 1 .. dir + k PROVE left[i] = right[i]
  <2>1. CASE i <= dir
    BY <1>1, <1>10, <1>11, <2>1
  <2>2. CASE ~(i <= dir)
    <3>1. i - dir \in 1 .. k /\ i = dir + (i - dir)
      BY <1>1, <1>10, <2>2
    <3> QED BY <1>12, <3>1, Zenon
  <2> QED BY <2>1, <2>2
<1>14. Len(left) = dir + k /\ Len(right) = dir + k
  BY <1>7, <1>9, <1>10, Zenon
<1>15. left = right
  BY <1>7, <1>9, <1>13, <1>14, SeqEqual
<1> QED BY <1>15, Zenon DEF left, right, new, p, d, path, dir

-----------------------------------------------------------------------------
(* Ids. *)

IsId(id) == IsName(id, "_", "/") /\ id[1] \in {"LOCAL", "EXTERNAL"}

IsAttachment(a) == a.external \in BOOLEAN /\ a.path \in Seq(Words)

LEMMA FirstWords ==
  ASSUME NEW kind \in Words, NEW u \in Words, NEW s, kind # u, kind # s, u # s,
         NEW path \in Seq(Words)
  PROVE  IsName(<<kind, u>> \o path, u, s) /\ (<<kind, u>> \o path)[1] = kind
<1> DEFINE p == <<kind, u>>
           new == p \o path
<1>1. p \in Seq(Words) /\ Len(p) = 2 /\ p[1] = kind /\ p[2] = u
  OBVIOUS
<1> HIDE DEF p
<1>2. Len(new) = Len(p) + Len(path) /\ new \in Seq(Words) /\ \A i \in 1 .. Len(p) : new[i] = p[i]
  BY <1>1, Joined, Zenon
<1> HIDE DEF new
<1>3. 1 \in 1 .. Len(p) /\ 2 \in 1 .. Len(p)
  BY <1>1
<1>4. Len(p) + Len(path) >= 2
  BY <1>1
<1>5. new[1] = kind /\ new[2] = u /\ Len(new) >= 2
  BY <1>1, <1>2, <1>3, <1>4, Zenon
<1>6. IsName(new, u, s)
  BY <1>2, <1>5, Zenon DEF IsName
<1> QED BY <1>5, <1>6 DEF new, p

LEMMA FirstId ==
  ASSUME NEW kind \in {"LOCAL", "EXTERNAL"}, NEW path \in Seq(Words)
  PROVE  IsId(<<kind, "_">> \o path)
<1>1. kind \in Words /\ "_" \in Words
  BY SourcesAssumption, Zenon
<1>2. kind # "_" /\ kind # "/" /\ "_" # "/"
  OBVIOUS
<1>3. IsName(<<kind, "_">> \o path, "_", "/") /\ (<<kind, "_">> \o path)[1] = kind
  BY <1>1, <1>2, FirstWords
<1> QED BY <1>3, Zenon DEF IsId

LEMMA AttachedIsId ==
  ASSUME NEW id, IsId(id), NEW a, IsAttachment(a)
  PROVE  IsId(AttachedId(id, a))
<1>1. CASE a.external
  <2>1. AttachedId(id, a) = <<"EXTERNAL", "_">> \o a.path
    BY <1>1, Zenon DEF AttachedId
  <2> QED BY <2>1, FirstId, Zenon DEF IsAttachment
<1>2. CASE ~a.external
  <2>1. AttachedId(id, a) = Before(id, "_", "/") \o a.path
    BY <1>2, Zenon DEF AttachedId, Prefix, Before
  <2>2. IsName(id, "_", "/") /\ a.path \in Seq(Words) /\ id[1] \in {"LOCAL", "EXTERNAL"}
    BY Zenon DEF IsId, IsAttachment
  <2>3. IsName(AttachedId(id, a), "_", "/") /\ AttachedId(id, a)[1] = id[1]
    <3>1. /\ IsName(Before(id, "_", "/") \o a.path, "_", "/")
          /\ SameKind(Before(id, "_", "/") \o a.path, id)
      BY <2>2, ExtendedName
    <3> QED BY <2>1, <3>1, Zenon DEF SameKind
  <2> QED BY <2>2, <2>3, Zenon DEF IsId
<1> QED BY <1>1, <1>2, Zenon

(* An id without '_' in its path: the attached slab is in the directory of the host. *)
LEMMA NeighbourOfId ==
  ASSUME NEW id, IsId(id), NEW a, IsAttachment(a),
         ~a.external, id[1] = "LOCAL", ~HasUnderscore(id)
  PROVE  /\ AttachedId(id, a)[1] = "LOCAL"
         /\ Path(AttachedId(id, a)) = Directory(id) \o a.path
<1>1. AttachedId(id, a) = Before(id, "_", "/") \o a.path
  BY Zenon DEF AttachedId, Prefix, Before
<1>2. IsName(id, "_", "/") /\ a.path \in Seq(Words)
  BY Zenon DEF IsId, IsAttachment
<1>3. NoOther(id, "_")
  <2>1. \A i \in DOMAIN id : i > 2 => id[i] # "_"
    BY Zenon DEF HasUnderscore
  <2>2. \A i \in 3 .. Len(id) : i \in DOMAIN id /\ i > 2
    <3>1. id \in Seq(Words)
      BY <1>2, Zenon DEF IsName
    <3> HIDE <2>1
    <3> QED BY <3>1
  <2> QED BY <2>1, <2>2, Zenon DEF NoOther
<1>4. /\ Directory(id) = SubSeq(After(id, "_"), 1, LastOf("/", After(id, "_")))
      /\ Path(AttachedId(id, a)) = After(AttachedId(id, a), "_")
  BY Zenon DEF Path, Directory, After
<1>5. Path(AttachedId(id, a)) = Directory(id) \o a.path
  <2>1. After(Before(id, "_", "/") \o a.path, "_")
          = SubSeq(After(id, "_"), 1, LastOf("/", After(id, "_"))) \o a.path
    <3>1. ASSUME NEW u, NEW s, IsName(id, u, s), NoOther(id, u), NEW t \in Seq(Words)
          PROVE  After(Before(id, u, s) \o t, u) = SubSeq(After(id, u), 1, LastOf(s, After(id, u))) \o t
      <4> HIDE <1>1, <1>2, <1>3
      <4> QED BY <3>1, NeighbourName, Zenon
    <3> QED BY <1>2, <1>3, <3>1, Zenon
  <2>2. Path(AttachedId(id, a)) = After(Before(id, "_", "/") \o a.path, "_")
    BY <1>1, <1>4, Zenon
  <2>3. SubSeq(After(id, "_"), 1, LastOf("/", After(id, "_"))) \o a.path = Directory(id) \o a.path
    BY <1>4, Zenon
  <2> QED BY <2>1, <2>2, <2>3, Zenon
<1>6. AttachedId(id, a)[1] = id[1]
  <2>1. SameKind(Before(id, "_", "/") \o a.path, id)
    BY <1>2, ExtendedName
  <2> QED BY <1>1, <2>1, Zenon DEF SameKind
<1> QED BY <1>5, <1>6, Zenon
-----------------------------------------------------------------------------
(* The parts of a bundle. *)

LEMMA MainIsBoolean ==
  /\ \A id : Module(id).main \in BOOLEAN
  /\ Fragment.main \in BOOLEAN
<1>1. \A id : Module(id).main = (id = root)
  BY Zenon DEF Module
<1>2. \A id : Module(id).main \in BOOLEAN
  BY <1>1, Zenon
<1> QED BY <1>2 DEF Fragment

(* An object file more keeps the types. *)
LEMMA PutKeepsMain ==
  ASSUME NEW f, NEW x, NEW y, NEW g, g = Put(f, x, y), y.main \in BOOLEAN,
         \A z \in DOMAIN f : f[z].main \in BOOLEAN
  PROVE  \A z \in DOMAIN g : g[z].main \in BOOLEAN
<1>1. /\ DOMAIN g = DOMAIN f \cup {x}
      /\ g[x] = y
      /\ \A z \in DOMAIN f : z # x => g[z] = f[z]
  BY DEF Put
<1> QED BY <1>1

(* The file of a slab that has candidates is one of them. *)
LEMMA FileIsSource ==
  ASSUME NEW id, Candidates(id) # {}
  PROVE  FileOf(id) \in Sources
<1> DEFINE D == {f.dir : f \in Candidates(id)}
<1>0. \A f \in Sources : f.dir \in Nat
  <2>1. \A f \in Sources : f.dir \in 0 .. LibPaths
    BY SourcesAssumption, Zenon
  <2> QED BY <2>1
<1>1. \A f \in Candidates(id) : f \in Sources /\ f.dir \in Nat
  <2>1. Candidates(id) \subseteq Sources
    BY Zenon DEF Candidates
  <2> QED BY <1>0, <2>1
<1>2. D \in SUBSET Nat /\ D # {}
  BY <1>1
<1> HIDE DEF D
<1>3. PICK d \in D : \A e \in D : d <= e
  BY <1>2, LeastNumber
<1>4. PICK f \in Candidates(id) : f.dir = d
  BY <1>3 DEF D
<1>5. \A g \in Candidates(id) : f.dir <= g.dir
  BY <1>3, <1>4 DEF D
<1>6. FileOf(id) \in Candidates(id)
  BY <1>4, <1>5 DEF FileOf
<1> QED BY <1>1, <1>6
-----------------------------------------------------------------------------
SourceFunction ==
  /\ source \in [Sources -> UNION {Texts[f] : f \in Sources}]
  /\ \A f \in Sources : source[f] \in Texts[f]

(* What a slab of the bundle attaches is in the bundle or about to be. *)
Closed == \A id \in Ids : \A a \in text[id] : AttachedId(id, a) \in Created

IsWritten(id) == ObjectName(id) \in DOMAIN objects /\ objects[ObjectName(id)] = Module(id)

(* While object files are written, no slab is still to be created, there is no executable,  *)
(* and the object files that have been written stay.                                       *)
Writing ==
  /\ phase # "idle" => linked = {}
  /\ phase = "write" => pending = {}
  /\ (phase = "write" /\ ~Collide) => \A id \in Ids \ unwritten : IsWritten(id)

Inv ==
  /\ SourceFunction /\ TypeOK /\ Closed /\ Writing
  /\ ExecutableIsCurrent /\ LinkFailureHasCause

LEMMA InitEstablishesInv == Init => Inv
<1> SUFFICES ASSUME Init PROVE Inv
  OBVIOUS
<1>1. SourceFunction
  BY DEF Init, SourceFunction
<1>2. Ids = {}
  BY DEF Init, Ids
<1>3. TypeOK
  BY <1>1, <1>2 DEF Init, TypeOK, SourceFunction
<1>4. Closed /\ Writing /\ ExecutableIsCurrent /\ LinkFailureHasCause
  BY <1>2 DEF Init, Closed, Writing, ExecutableIsCurrent, LinkFailureHasCause, Finished
<1> QED BY <1>1, <1>3, <1>4 DEF Inv

LEMMA StartPreserves ==
  ASSUME Inv, Start
  PROVE  Inv'
<1>1. PICK path \in Roots : root' = RootId(path)
  BY DEF Start
<1>2. Ids' = {} /\ Created' = {root'}
  BY DEF Start, Ids, Created
<1>3. SourceFunction'
  BY DEF Start, Inv, SourceFunction
<1>4. TypeOK'
  BY <1>2 DEF Start, Inv, TypeOK
<1>5. Closed' /\ Writing'
  BY <1>2 DEF Start, Closed, Writing
<1>6. ExecutableIsCurrent' /\ LinkFailureHasCause'
  BY DEF Start, ExecutableIsCurrent, LinkFailureHasCause, Finished
<1> QED BY <1>3, <1>4, <1>5, <1>6 DEF Inv

LEMMA ReadSlabPreserves ==
  ASSUME Inv, ReadSlab
  PROVE  Inv'
<1>1. PICK id \in pending :
        /\ Candidates(id) # {}
        /\ text' = Put(text, id, source[FileOf(id)])
        /\ pending' = (pending \cup ({AttachedId(id, a) : a \in source[FileOf(id)]} \ Created)) \ {id}
  BY DEF ReadSlab
<1>2. FileOf(id) \in Sources
  BY <1>1, FileIsSource
<1>3. source[FileOf(id)] \in Texts[FileOf(id)]
  BY <1>2 DEF Inv, SourceFunction
<1>4. /\ Ids' = Ids \cup {id}
      /\ text'[id] = source[FileOf(id)]
      /\ \A i \in Ids : i # id => text'[i] = text[i]
  <2>1. /\ DOMAIN text' = DOMAIN text \cup {id}
        /\ text'[id] = source[FileOf(id)]
        /\ \A z \in DOMAIN text : z # id => text'[z] = text[z]
    BY <1>1 DEF Put
  <2> QED BY <2>1 DEF Ids
<1>5. Created \subseteq Created'
  BY <1>1, <1>4 DEF Created, Ids
<1>6. SourceFunction'
  BY DEF ReadSlab, Inv, SourceFunction
<1>7. TypeOK'
  BY <1>2, <1>3, <1>4, <1>5 DEF ReadSlab, Inv, TypeOK
<1>8. Closed'
  <2> SUFFICES ASSUME NEW i \in Ids', NEW a \in text'[i]
               PROVE  AttachedId(i, a) \in Created'
    BY DEF Closed
  <2>1. CASE i = id
    <3>1. AttachedId(id, a) \in Created \cup {AttachedId(id, b) : b \in source[FileOf(id)]}
      BY <1>4, <2>1
    <3>2. AttachedId(id, a) \in Created \/ AttachedId(id, a) \in pending' \/ AttachedId(id, a) = id
      BY <1>1, <3>1
    <3> QED BY <1>4, <1>5, <2>1, <3>2 DEF Created, Ids
  <2>2. CASE i # id
    <3>1. AttachedId(i, a) \in Created
      BY <1>4, <2>2 DEF Inv, Closed
    <3> QED BY <1>5, <3>1
  <2> QED BY <2>1, <2>2
<1>9. Writing'
  BY DEF ReadSlab, Inv, Writing
<1>10. ExecutableIsCurrent' /\ LinkFailureHasCause'
  BY DEF ReadSlab, ExecutableIsCurrent, LinkFailureHasCause, Finished
<1> QED BY <1>6, <1>7, <1>8, <1>9, <1>10 DEF Inv

LEMMA FailPreserves ==
  ASSUME Inv, FailCreate \/ FailParse
  PROVE  Inv'
<1>1. /\ UNCHANGED <<source, root, text, unwritten, objects, pending, linked>>
      /\ phase' = "idle" /\ exit' \in {1, 2}
  BY DEF FailCreate, FailParse, Leave
<1>2. SourceFunction'
  BY <1>1 DEF Inv, SourceFunction
<1>3. TypeOK'
  BY <1>1 DEF Inv, TypeOK, Ids
<1>4. Closed' /\ Writing'
  BY <1>1 DEF Inv, Closed, Writing, Ids, Created
<1>5. ExecutableIsCurrent' /\ LinkFailureHasCause'
  BY <1>1 DEF ExecutableIsCurrent, LinkFailureHasCause, Finished
<1> QED BY <1>2, <1>3, <1>4, <1>5 DEF Inv

LEMMA BuildBundlePreserves ==
  ASSUME Inv, BuildBundle
  PROVE  Inv'
<1>1. SourceFunction'
  BY DEF BuildBundle, Inv, SourceFunction
<1>2. TypeOK'
  BY DEF BuildBundle, Inv, TypeOK, Ids, Created
<1>3. Closed'
  BY DEF BuildBundle, Inv, Closed, Ids, Created
<1>4. Writing'
  BY DEF BuildBundle, Inv, Writing, Ids
<1>5. ExecutableIsCurrent' /\ LinkFailureHasCause'
  BY DEF BuildBundle, ExecutableIsCurrent, LinkFailureHasCause, Finished
<1> QED BY <1>1, <1>2, <1>3, <1>4, <1>5 DEF Inv

LEMMA WriteSlabPreserves ==
  ASSUME Inv, WriteSlab
  PROVE  Inv'
<1>1. PICK id \in unwritten :
        /\ objects' = Put(objects, ObjectName(id), Module(id))
        /\ unwritten' = unwritten \ {id}
  BY DEF WriteSlab
<1>2. /\ UNCHANGED <<source, phase, root, text, pending, linked, exit>>
      /\ phase = "write" /\ linked = {}
      /\ Ids' = Ids /\ (Collide' <=> Collide)
  BY DEF WriteSlab, Ids, Inv, Writing, Collide
<1>3. id \in Ids
  BY <1>1 DEF Inv, TypeOK
<1>4. /\ DOMAIN objects' = DOMAIN objects \cup {ObjectName(id)}
      /\ objects'[ObjectName(id)] = Module(id)
      /\ \A z \in DOMAIN objects : z # ObjectName(id) => objects'[z] = objects[z]
  BY <1>1 DEF Put
<1>5. SourceFunction'
  BY <1>2 DEF Inv, SourceFunction
<1>6. TypeOK'
  <2>1. \A name \in DOMAIN objects' : objects'[name].main \in BOOLEAN
    <3>1. \A z \in DOMAIN objects : objects[z].main \in BOOLEAN
      BY DEF Inv, TypeOK
    <3>2. Module(id).main \in BOOLEAN
      BY MainIsBoolean, Zenon
    <3> QED BY <1>1, <3>1, <3>2, PutKeepsMain
  <2> QED BY <1>1, <1>2, <2>1 DEF Inv, TypeOK, Created, Ids
<1>7. Closed'
  BY <1>2 DEF Inv, Closed, Created
<1>8. Writing'
  <2>1. ASSUME ~Collide, NEW i \in Ids \ unwritten'
        PROVE  IsWritten(i)'
    <3>1. Module(i)' = Module(i)
      BY <1>2 DEF Module
    <3>2. CASE i = id
      BY <1>4, <3>1, <3>2 DEF IsWritten
    <3>3. CASE i # id
      <4>1. ObjectName(i) # ObjectName(id)
        BY <1>3, <2>1, <3>3 DEF Collide
      <4>2. IsWritten(i)
        BY <1>1, <1>2, <2>1, <3>3 DEF Inv, Writing
      <4> QED BY <1>4, <3>1, <4>1, <4>2 DEF IsWritten
    <3> QED BY <3>2, <3>3
  <2> QED BY <1>2, <2>1 DEF Inv, Writing
<1>9. ExecutableIsCurrent' /\ LinkFailureHasCause'
  BY <1>2 DEF ExecutableIsCurrent, LinkFailureHasCause, Finished
<1> QED BY <1>5, <1>6, <1>7, <1>8, <1>9 DEF Inv

(* Just the modules of a bundle link: each is whole, only the root's has the entry points,  *)
(* and what they refer to is among them.                                                    *)
LEMMA BundleLinks ==
  ASSUME Inv, phase = "write"
  PROVE  Links({Module(id) : id \in Ids})
<1> DEFINE M == {Module(id) : id \in Ids}
<1>1. pending = {} /\ Created = Ids
  BY DEF Inv, Writing, Created, Ids
<1>2. root \in Ids
  BY <1>1 DEF Inv, TypeOK
<1>3. \A m \in M : m.whole
  BY DEF Module
<1>4. \E m \in M : m.main
  <2>1. Module(root) \in M
    BY <1>2
  <2>2. Module(root).main
    BY Zenon DEF Module
  <2> QED BY <2>1, <2>2, Zenon
<1>5. ASSUME NEW m \in M, NEW n \in M, m.id = n.id \/ (m.main /\ n.main)
      PROVE  m = n
  <2>1. PICK i \in Ids : m = Module(i)
    OBVIOUS
  <2>2. PICK j \in Ids : n = Module(j)
    OBVIOUS
  <2>3. i = j
    BY <1>5, <2>1, <2>2 DEF Module
  <2> QED BY <2>1, <2>2, <2>3
<1>6. ASSUME NEW m \in M, NEW a \in m.text
      PROVE  \E n \in M : n.id = AttachedId(m.id, a)
  <2>1. PICK i \in Ids : m = Module(i)
    OBVIOUS
  <2>2. m.id = i /\ m.text = text[i]
    BY <2>1 DEF Module
  <2>3. AttachedId(i, a) \in Ids
    BY <1>1, <1>6, <2>2 DEF Inv, Closed
  <2>4. Module(AttachedId(i, a)) \in M /\ Module(AttachedId(i, a)).id = AttachedId(i, a)
    BY <2>3 DEF Module
  <2> QED BY <2>2, <2>4
<1> HIDE DEF M
<1>7. Links(M)
  BY <1>3, <1>4, <1>5, <1>6 DEF Links
<1> QED BY <1>7 DEF M

LEMMA LinkPreserves ==
  ASSUME Inv, Link
  PROVE  Inv'
<1>1. /\ UNCHANGED <<source, root, text, unwritten, objects, pending>>
      /\ phase = "write" /\ unwritten = {} /\ phase' = "idle" /\ exit' = 0
      /\ linked' = IF Links(Modules) THEN Modules ELSE {}
  BY DEF Link, Leave, Modules
<1>2. /\ Ids' = Ids /\ Created' = Created /\ Modules' = Modules
      /\ (Collide' <=> Collide)
      /\ \A id : Module(id)' = Module(id)
  BY <1>1 DEF Ids, Created, Modules, Collide, Module
<1>3. SourceFunction'
  BY <1>1 DEF Inv, SourceFunction
<1>4. TypeOK'
  <2>1. linked' \subseteq Modules'
    BY <1>1, <1>2
  <2>2. linked' \subseteq {objects'[name] : name \in DOMAIN objects'}
    BY <2>1 DEF Modules
  <2> QED BY <1>1, <1>2, <2>2 DEF Inv, TypeOK
<1>5. Closed' /\ Writing'
  BY <1>1, <1>2 DEF Inv, Closed, Writing
<1>6. ExecutableIsCurrent'
  <2>1. ASSUME ~Collide, NEW id \in Ids
        PROVE  Module(id) \in Modules
    <3>1. IsWritten(id)
      BY <1>1, <2>1 DEF Inv, Writing
    <3> QED BY <3>1 DEF IsWritten, Modules
  <2> QED BY <1>1, <1>2, <2>1 DEF ExecutableIsCurrent
<1>7. LinkFailureHasCause'
  <2> SUFFICES ASSUME linked' = {}, Modules = {Module(id) : id \in Ids}
               PROVE  FALSE
    BY <1>2 DEF LinkFailureHasCause
  <2>1. Links(Modules)
    BY <1>1, BundleLinks
  <2>2. linked' = Modules
    BY <1>1, <2>1
  <2>3. Modules # {}
    BY <2>1 DEF Links
  <2> QED BY <2>2, <2>3
<1> QED BY <1>3, <1>4, <1>5, <1>6, <1>7 DEF Inv

LEMMA KillPreserves ==
  ASSUME Inv, Kill
  PROVE  Inv'
<1>1. /\ UNCHANGED <<source, root, text, pending, unwritten, linked>>
      /\ phase' = "idle" /\ exit' = 9 /\ linked = {}
  BY DEF Kill, Inv, Writing
<1>2. \A name \in DOMAIN objects' : objects'[name].main \in BOOLEAN
  <2>1. CASE objects' = objects
    BY <2>1 DEF Inv, TypeOK
  <2>2. ASSUME NEW id, objects' = Put(objects, ObjectName(id), Fragment)
        PROVE  \A name \in DOMAIN objects' : objects'[name].main \in BOOLEAN
    BY <2>2, MainIsBoolean, PutKeepsMain, Zenon DEF Inv, TypeOK
  <2> QED BY <2>1, <2>2 DEF Kill
<1>3. SourceFunction'
  BY <1>1 DEF Inv, SourceFunction
<1>4. TypeOK'
  BY <1>1, <1>2 DEF Inv, TypeOK, Ids
<1>5. Closed' /\ Writing'
  BY <1>1 DEF Inv, Closed, Writing, Ids, Created
<1>6. ExecutableIsCurrent' /\ LinkFailureHasCause'
  BY <1>1 DEF ExecutableIsCurrent, LinkFailureHasCause, Finished
<1> QED BY <1>3, <1>4, <1>5, <1>6 DEF Inv

LEMMA EditPreserves ==
  ASSUME Inv, Edit
  PROVE  Inv'
<1>1. /\ UNCHANGED <<phase, root, text, pending, unwritten, objects, linked, exit>>
      /\ phase = "idle"
  BY DEF Edit
<1>2. PICK f \in Sources : \E t \in Texts[f] : source' = [source EXCEPT ![f] = t]
  BY DEF Edit
<1>3. SourceFunction'
  BY <1>2 DEF Inv, SourceFunction
<1>4. TypeOK'
  BY <1>1, <1>3 DEF Inv, TypeOK, Ids, Created, SourceFunction
<1>5. Closed' /\ Writing'
  BY <1>1 DEF Inv, Closed, Writing, Ids, Created
<1>6. ExecutableIsCurrent'
  BY <1>1 DEF Inv, ExecutableIsCurrent, Finished, Collide, Ids, Modules, Module
<1>7. LinkFailureHasCause'
  BY <1>1 DEF Inv, LinkFailureHasCause, Finished, Ids, Modules, Module
<1> QED BY <1>3, <1>4, <1>5, <1>6, <1>7 DEF Inv

LEMMA StutterPreserves ==
  ASSUME Inv, UNCHANGED vars
  PROVE  Inv'
<1>1. SourceFunction' /\ TypeOK' /\ Closed'
  BY DEF vars, Inv, SourceFunction, TypeOK, Closed, Ids, Created
<1>2. Writing'
  BY DEF vars, Inv, Writing, IsWritten, Module, Ids, Collide
<1>3. ExecutableIsCurrent'
  BY DEF vars, Inv, ExecutableIsCurrent, Finished, Collide, Ids, Modules, Module
<1>4. LinkFailureHasCause'
  BY DEF vars, Inv, LinkFailureHasCause, Finished, Ids, Modules, Module
<1> QED BY <1>1, <1>2, <1>3, <1>4 DEF Inv

(* The inductive invariant holds in every state of every history of sessions. *)
THEOREM InvAlwaysHolds == Spec => []Inv
<1>1. Inv /\ [Next]_vars => Inv'
  BY StartPreserves, ReadSlabPreserves, FailPreserves, BuildBundlePreserves, WriteSlabPreserves,
     LinkPreserves, KillPreserves, EditPreserves, StutterPreserves
  DEF Next, Session
<1> QED BY InitEstablishesInv, <1>1, PTL DEF Spec

(* The parts of the model hold what they are meant to hold: TypeOK. *)
THEOREM TypeCorrect == Spec => []TypeOK
<1>1. Inv => TypeOK
  BY DEF Inv
<1> QED BY InvAlwaysHolds, <1>1, PTL

(* An executable holds every slab as the session read it: ExecutableIsCurrent. *)
THEOREM ExecutablesAreCurrent == Spec => []ExecutableIsCurrent
<1>1. Inv => ExecutableIsCurrent
  BY DEF Inv
<1> QED BY InvAlwaysHolds, <1>1, PTL

(* A link that makes nothing has more than the bundle before it: LinkFailureHasCause. *)
THEOREM LinkFailuresHaveCauses == Spec => []LinkFailureHasCause
<1>1. Inv => LinkFailureHasCause
  BY DEF Inv
<1> QED BY InvAlwaysHolds, <1>1, PTL

-----------------------------------------------------------------------------
(* Every slab of a bundle has an id, so its attachments are looked for where it is. *)

AllIds == \A id \in Created : IsId(id)

LEMMA TextsAreTyped ==
  ASSUME NEW f \in Sources, NEW t \in Texts[f], NEW a \in t
  PROVE  IsAttachment(a)
BY SourcesAssumption, Zenon DEF IsAttachment

LEMMA StartNames ==
  ASSUME Start
  PROVE  AllIds'
<1>1. PICK path \in Roots : root' = RootId(path)
  BY DEF Start
<1>2. Created' = {RootId(path)}
  BY <1>1 DEF Start, Created
<1>3. path \in Seq(Words)
  BY <1>1, SourcesAssumption, Zenon
<1>4. IsId(<<"LOCAL", "_">> \o path)
  BY <1>3, FirstId, Zenon
<1>5. IsId(RootId(path))
  BY <1>4, Zenon DEF RootId
<1> QED BY <1>2, <1>5 DEF AllIds

LEMMA ReadSlabNames ==
  ASSUME Inv, AllIds, ReadSlab
  PROVE  AllIds'
<1>1. PICK id \in pending :
        /\ Candidates(id) # {}
        /\ text' = Put(text, id, source[FileOf(id)])
        /\ pending' = (pending \cup ({AttachedId(id, a) : a \in source[FileOf(id)]} \ Created)) \ {id}
  BY DEF ReadSlab
<1>2. FileOf(id) \in Sources /\ source[FileOf(id)] \in Texts[FileOf(id)]
  BY <1>1, FileIsSource DEF Inv, SourceFunction
<1>3. IsId(id)
  BY <1>1, Zenon DEF AllIds, Created
<1>4. \A a \in source[FileOf(id)] : IsId(AttachedId(id, a))
  BY <1>2, <1>3, TextsAreTyped, AttachedIsId, Zenon
<1>5. Created' \subseteq Created \cup {AttachedId(id, a) : a \in source[FileOf(id)]}
  <2>1. DOMAIN text' = DOMAIN text \cup {id}
    BY <1>1 DEF Put
  <2> QED BY <1>1, <2>1 DEF Created
<1>6. ASSUME NEW i \in Created' PROVE IsId(i)
  <2>1. CASE i \in Created
    BY <2>1, Zenon DEF AllIds
  <2>2. CASE i \in {AttachedId(id, a) : a \in source[FileOf(id)]}
    BY <1>4, <2>2, Zenon
  <2> QED BY <1>5, <2>1, <2>2
<1> QED BY <1>6, Zenon DEF AllIds

LEMMA OthersKeepNames ==
  ASSUME AllIds, [Next]_vars, ~Start, ~ReadSlab
  PROVE  AllIds'
<1>1. UNCHANGED <<text, pending>>
  BY DEF Next, Session, vars, FailCreate, FailParse, Leave, BuildBundle, WriteSlab, Link, Kill, Edit
<1>2. Created' = Created
  BY <1>1 DEF Created
<1> QED BY <1>2, Zenon DEF AllIds

(* For every set of files and every history of sessions: AttachedIsNeighbour. *)
THEOREM AttachedAreNeighbours == Spec => []AttachedIsNeighbour
<1>1. Init => AllIds
  <2>1. Init => Created = {}
    BY DEF Init, Created
  <2> QED BY <2>1, Zenon DEF AllIds
<1>2. Inv /\ AllIds /\ [Next]_vars => AllIds'
  BY StartNames, ReadSlabNames, OthersKeepNames, Zenon
<1>3. ASSUME Inv, AllIds PROVE AttachedIsNeighbour
  <2> SUFFICES ASSUME NEW id \in Ids, NEW a \in text[id],
                      ~a.external, id[1] = "LOCAL", ~HasUnderscore(id)
               PROVE  /\ AttachedId(id, a)[1] = "LOCAL"
                      /\ Path(AttachedId(id, a)) = Directory(id) \o a.path
    BY Zenon DEF AttachedIsNeighbour
  <2>1. IsId(id)
    BY <1>3, Zenon DEF AllIds, Created, Ids
  <2>2. PICK f \in Sources : text[id] \in Texts[f]
    BY <1>3 DEF Inv, TypeOK
  <2>3. IsAttachment(a)
    BY <2>2, TextsAreTyped, Zenon
  <2> QED BY <2>1, <2>3, NeighbourOfId, Zenon
<1> QED BY InitEstablishesInv, InvAlwaysHolds, <1>1, <1>2, <1>3, PTL DEF Spec
=============================================================================
