----------------------------- MODULE RouterProofs -----------------------------
(***************************************************************************)
(* Proofs about Router, for any bytes, any paths in UTF-8, any number of   *)
(* locations and any requests.                                             *)
(***************************************************************************)
EXTENDS Router, WellOrder, SequenceTheorems, TLAPS

\* No location has an empty path.  RouterEmptyPath shows what one does: it
\* makes a node without an edge that every request matches.
NoEmptyPath == <<>> \notin Paths

\* Paths, edges and requests.
Strings == Seq(Bytes)

-------------------------------------------------------------------------------
(* Prefixes, byte by byte. *)

\* u and v have the same first k bytes.
Agree(u, v, k) == k \in Nat /\ k <= Len(u) /\ k <= Len(v) /\ \A i \in 1..k : u[i] = v[i]

\* u is a prefix of v.
Under(u, v) == Agree(u, v, Len(u))

\* IsPrefix compares the first bytes.
LEMMA PrefixIsUnder ==
  ASSUME NEW u \in Strings, NEW v \in Strings
  PROVE  IsPrefix(u, v) <=> Under(u, v)
<1>1. Len(u) \in Nat /\ Len(v) \in Nat
  BY DEF Strings
<1>2. ASSUME IsPrefix(u, v) PROVE Under(u, v)
  <2>1. Len(u) <= Len(v) /\ SubSeq(u, 1, Len(u)) = SubSeq(v, 1, Len(u))
    BY <1>2 DEF IsPrefix
  <2>2. \A i \in 1..Len(u) : SubSeq(u, 1, Len(u))[i] = u[i] /\ SubSeq(v, 1, Len(u))[i] = v[i]
    BY <2>1, <1>1 DEF Strings
  <2>3. QED BY <1>1, <2>1, <2>2 DEF Under, Agree
<1>3. ASSUME Under(u, v) PROVE IsPrefix(u, v)
  <2>1. Len(u) <= Len(v) /\ \A i \in 1..Len(u) : u[i] = v[i]
    BY <1>3 DEF Under, Agree
  <2>2. SubSeq(u, 1, Len(u)) = [i \in 1..Len(u) |-> u[i]]
    BY <1>1 DEF Strings
  <2>3. SubSeq(v, 1, Len(u)) = [i \in 1..Len(u) |-> v[i]]
    BY <1>1, <2>1 DEF Strings
  <2>4. QED BY <2>1, <2>2, <2>3 DEF IsPrefix
<1>4. QED BY <1>2, <1>3

\* A prefix of a prefix is one.
LEMMA UnderTransitive ==
  ASSUME NEW u \in Strings, NEW v \in Strings, NEW w \in Strings, Under(u, v), Under(v, w)
  PROVE  Under(u, w)
BY DEF Under, Agree, Strings

\* Strings that are prefixes of one another are equal.
LEMMA UnderBoth ==
  ASSUME NEW u \in Strings, NEW v \in Strings, Under(u, v), Under(v, u)
  PROVE  u = v
BY SeqEqual DEF Under, Agree, Strings

\* Two prefixes of one string are prefixes of one another.
LEMMA UnderSame ==
  ASSUME NEW u \in Strings, NEW v \in Strings, NEW w \in Strings,
         Under(u, w), Under(v, w), Len(u) <= Len(v)
  PROVE  Under(u, v)
BY DEF Under, Agree, Strings

\* A path, and what it is made of at a node.
LEMMA Concatenated ==
  ASSUME NEW u \in Strings, NEW v \in Strings
  PROVE  /\ u \o v \in Strings
         /\ Len(u \o v) = Len(u) + Len(v)
         /\ Under(u, u \o v)
         /\ \A i \in 1..Len(v) : (u \o v)[Len(u) + i] = v[i]
<1>1. /\ u \o v \in Strings /\ Len(u \o v) = Len(u) + Len(v)
      /\ \A i \in 1..(Len(u) + Len(v)) :
           (u \o v)[i] = IF i <= Len(u) THEN u[i] ELSE v[i - Len(u)]
  BY ConcatProperties DEF Strings
<1>2. Len(u) \in Nat /\ Len(v) \in Nat
  BY DEF Strings
<1>3. Under(u, u \o v)
  BY <1>1, <1>2 DEF Under, Agree
<1>4. \A i \in 1..Len(v) : (u \o v)[Len(u) + i] = v[i]
  <2> TAKE i \in 1..Len(v)
  <2>1. Len(u) + i \in 1..(Len(u) + Len(v)) /\ ~ (Len(u) + i <= Len(u)) /\ Len(u) + i - Len(u) = i
    BY <1>2
  <2>2. QED BY <1>1, <2>1
<1>5. QED BY <1>1, <1>3, <1>4

\* Three strings one after another.
LEMMA Joined ==
  ASSUME NEW u \in Strings, NEW v \in Strings, NEW w \in Strings
  PROVE  (u \o v) \o w = u \o (v \o w)
BY ConcatAssociative DEF Strings

\* The first and the other bytes of a string.
LEMMA Cut ==
  ASSUME NEW u \in Strings, NEW k \in 0..Len(u)
  PROVE  /\ SubSeq(u, 1, k) \in Strings /\ Len(SubSeq(u, 1, k)) = k
         /\ Under(SubSeq(u, 1, k), u)
         /\ SubSeq(u, k + 1, Len(u)) \in Strings /\ Len(SubSeq(u, k + 1, Len(u))) = Len(u) - k
         /\ \A i \in 1..(Len(u) - k) : SubSeq(u, k + 1, Len(u))[i] = u[k + i]
         /\ u = SubSeq(u, 1, k) \o SubSeq(u, k + 1, Len(u))
<1>1. Len(u) \in Nat /\ k \in Nat /\ k <= Len(u) /\ \A i \in 1..Len(u) : u[i] \in Bytes
  BY DEF Strings
<1>2. /\ SubSeq(u, 1, k) \in Strings /\ Len(SubSeq(u, 1, k)) = k
      /\ \A i \in 1..k : SubSeq(u, 1, k)[i] = u[i]
  BY <1>1, SubSeqProperties DEF Strings
<1>3. /\ SubSeq(u, k + 1, Len(u)) \in Strings /\ Len(SubSeq(u, k + 1, Len(u))) = Len(u) - k
      /\ \A i \in 1..(Len(u) - k) : SubSeq(u, k + 1, Len(u))[i] = u[k + i]
  BY <1>1, SubSeqProperties DEF Strings
<1>4. SubSeq(u, 1, k) \o SubSeq(u, k + 1, Len(u)) = SubSeq(u, 1, Len(u))
  <2>1. 1 \in 1..(Len(u) + 1) /\ k \in (1 - 1)..Len(u) /\ Len(u) \in k..Len(u)
    BY <1>1
  <2>2. QED BY <2>1, ConcatAdjacentSubSeq DEF Strings
<1>5. SubSeq(u, 1, Len(u)) = u
  BY SubSeqFull DEF Strings
<1>6. Under(SubSeq(u, 1, k), u)
  BY <1>1, <1>2 DEF Under, Agree
<1>7. QED BY <1>2, <1>3, <1>4, <1>5, <1>6

\* calculate_common_prefix_len counts the bytes that two strings have in common,
\* to the first that differs.
LEMMA CommonPrefix ==
  ASSUME NEW u \in Strings, NEW v \in Strings
  PROVE  LET k == calculate_common_prefix_len(u, v)
         IN  /\ Agree(u, v, k)
             /\ k < Len(u) /\ k < Len(v) => u[k + 1] # v[k + 1]
<1> DEFINE C == CommonPrefixes({u, v})
           D == {d \in 0..Len(u) : Agree(u, v, Len(u) - d)}
<1>1. Len(u) \in Nat /\ Len(v) \in Nat
  BY DEF Strings
<1>2. \A x : x \in C <=> \E l \in Nat : Agree(u, v, l) /\ x = SubSeq(u, 1, l)
  <2>1. ASSUME NEW x \in C PROVE \E l \in Nat : Agree(u, v, l) /\ x = SubSeq(u, 1, l)
    <3>1. IsPrefix(x, u) /\ IsPrefix(x, v) /\ (x \in Prefixes(u) \/ x \in Prefixes(v))
      BY DEF CommonPrefixes
    <3>2. x \in Strings
      <4>1. CASE x \in Prefixes(u)
        BY <1>1, <4>1, Cut DEF Prefixes
      <4>2. CASE x \in Prefixes(v)
        BY <1>1, <4>2, Cut DEF Prefixes
      <4>3. QED BY <3>1, <4>1, <4>2
    <3>3. Under(x, u) /\ Under(x, v)
      BY <3>1, <3>2, PrefixIsUnder
    <3>4. Len(x) \in Nat /\ Agree(u, v, Len(x))
      BY <3>2, <3>3 DEF Under, Agree, Strings
    <3>5. x = SubSeq(x, 1, Len(x))
      BY <3>2, SubSeqFull DEF Strings
    <3>6. SubSeq(x, 1, Len(x)) = SubSeq(u, 1, Len(x))
      BY <3>1 DEF IsPrefix
    <3>7. QED BY <3>4, <3>5, <3>6
  <2>2. ASSUME NEW l \in Nat, Agree(u, v, l) PROVE SubSeq(u, 1, l) \in C
    <3>1. l \in 0..Len(u)
      BY <1>1, <2>2 DEF Agree
    <3>2. /\ SubSeq(u, 1, l) \in Strings /\ Len(SubSeq(u, 1, l)) = l
          /\ Under(SubSeq(u, 1, l), u)
      BY <3>1, Cut
    <3>3. Under(SubSeq(u, 1, l), v)
      BY <2>2, <3>2 DEF Under, Agree
    <3>4. IsPrefix(SubSeq(u, 1, l), u) /\ IsPrefix(SubSeq(u, 1, l), v)
      BY <3>2, <3>3, PrefixIsUnder
    <3>5. SubSeq(u, 1, l) \in Prefixes(u)
      BY <3>1 DEF Prefixes
    <3>6. QED BY <3>4, <3>5 DEF CommonPrefixes
  <2>3. QED BY <2>1, <2>2
<1>3. \A l \in Nat : Agree(u, v, l) => Len(SubSeq(u, 1, l)) = l
  BY <1>1, Cut DEF Agree
<1>4. D \in SUBSET Nat /\ D # {}
  <2>1. Agree(u, v, 0)
    BY <1>1 DEF Agree
  <2>2. Len(u) \in 0..Len(u) /\ Len(u) - Len(u) = 0
    BY <1>1
  <2>3. QED BY <2>1, <2>2
<1>5. PICK d \in D : \A e \in D : d <= e
  BY <1>4, LeastNumber
<1> DEFINE m == Len(u) - d
<1>6. m \in Nat /\ Agree(u, v, m)
  BY <1>1, <1>5
<1>7. \A l \in Nat : Agree(u, v, l) => l <= m
  <2> TAKE l \in Nat
  <2> HAVE Agree(u, v, l)
  <2>1. Len(u) - l \in 0..Len(u) /\ Len(u) - (Len(u) - l) = l
    BY <1>1 DEF Agree
  <2>2. Len(u) - l \in D
    BY <2>1
  <2>3. d <= Len(u) - l /\ d \in 0..Len(u)
    BY <1>5, <2>2
  <2>4. QED BY <1>1, <2>3
<1> HIDE DEF C, D, m
<1>8. \E x \in C : \A y \in C : Len(y) <= Len(x)
  <2>1. SubSeq(u, 1, m) \in C /\ Len(SubSeq(u, 1, m)) = m
    BY <1>2, <1>3, <1>6
  <2>2. \A y \in C : Len(y) <= m
    BY <1>2, <1>3, <1>7
  <2>3. QED BY <2>1, <2>2
<1> DEFINE p == LongestCommonPrefix({u, v})
<1>9. p \in C /\ \A y \in C : Len(y) <= Len(p)
  BY <1>8 DEF LongestCommonPrefix, C
<1> HIDE DEF p
<1>10. PICK l \in Nat : Agree(u, v, l) /\ p = SubSeq(u, 1, l)
  BY <1>2, <1>9
<1>11. Len(p) = l
  BY <1>3, <1>10
<1>12. calculate_common_prefix_len(u, v) = l
  BY <1>11 DEF calculate_common_prefix_len, p
<1>13. ASSUME l < Len(u), l < Len(v), u[l + 1] = v[l + 1] PROVE FALSE
  <2>1. Agree(u, v, l + 1)
    BY <1>1, <1>10, <1>13 DEF Agree
  <2>5. l + 1 \in Nat
    OBVIOUS
  <2>2. SubSeq(u, 1, l + 1) \in C /\ Len(SubSeq(u, 1, l + 1)) = l + 1
    BY <1>2, <1>3, <2>1, <2>5
  <2>3. l + 1 <= l
    BY <1>9, <1>11, <2>2
  <2>4. QED BY <2>3
<1>14. QED BY <1>10, <1>12, <1>13

\* The first character of a string that is not empty.
LEMMA EdgeCharIs ==
  ASSUME NEW u \in Strings, u # <<>>
  PROVE  \E k \in 1..Len(u) :
           /\ EdgeChar(u) \in Strings /\ Len(EdgeChar(u)) = k /\ Under(EdgeChar(u), u)
           /\ Boundary(u, k) /\ \A j \in 1..(k - 1) : ~ Boundary(u, j)
<1> DEFINE B == {k \in 1..Len(u) : Boundary(u, k)}
<1>1. Len(u) \in Nat /\ Len(u) \in 1..Len(u)
  BY EmptySeq DEF Strings
<1>2. Boundary(u, Len(u))
  BY <1>1 DEF Boundary
<1>3. B \in SUBSET Nat /\ B # {}
  BY <1>1, <1>2
<1>4. PICK m \in B : \A k \in B : m <= k
  BY <1>3, LeastNumber
<1>5. m \in 1..Len(u) /\ Boundary(u, m) /\ \A j \in 1..(m - 1) : ~ Boundary(u, j)
  <2>1. \A j \in 1..(m - 1) : j \in 1..Len(u) /\ ~ (m <= j)
    BY <1>1
  <2>2. \A j \in 1..(m - 1) : j \notin B
    <3> HIDE DEF B
    <3> QED BY <1>4, <2>1
  <2>3. QED BY <2>1, <2>2
<1> DEFINE f == CHOOSE k \in 1..Len(u) : Boundary(u, k) /\ \A j \in 1..(k - 1) : ~ Boundary(u, j)
<1>6. f \in 1..Len(u) /\ Boundary(u, f) /\ \A j \in 1..(f - 1) : ~ Boundary(u, j)
  BY <1>5
<1>7. EdgeChar(u) = SubSeq(u, 1, f)
  BY DEF EdgeChar
<1> HIDE DEF f
<1>8. f \in 0..Len(u)
  BY <1>1, <1>6
<1>9. EdgeChar(u) \in Strings /\ Len(EdgeChar(u)) = f /\ Under(EdgeChar(u), u)
  BY <1>7, <1>8, Cut
<1>10. QED BY <1>6, <1>9

-------------------------------------------------------------------------------
(* Characters. *)

\* w is the beginning of a path, up to the end of a character.
Whole(w) == w = <<>> \/ \E p \in Paths : Under(w, p) /\ Boundary(p, Len(w))

\* The characters of a path end in its beginning where they end in the path.
LEMMA WholeEnd ==
  ASSUME NEW w \in Strings, NEW p \in Strings, Under(w, p), Boundary(p, Len(w)),
         NEW k \in 0..Len(w)
  PROVE  Boundary(w, k) <=> Boundary(p, k)
<1>1. /\ Len(w) \in Nat /\ Len(p) \in Nat /\ Len(w) <= Len(p)
      /\ \A i \in 1..Len(w) : w[i] = p[i]
  BY DEF Under, Agree, Strings
<1>2. CASE k = 0 \/ k = Len(w)
  BY <1>1, <1>2 DEF Boundary
<1>3. CASE k \in 1..(Len(w) - 1)
  <2>1. k \in 1..(Len(p) - 1) /\ k + 1 \in 1..Len(w)
    BY <1>1, <1>3
  <2>2. w[k + 1] = p[k + 1]
    BY <1>1, <2>1
  <2>3. QED BY <1>3, <2>1, <2>2 DEF Boundary
<1>4. QED BY <1>1, <1>2, <1>3

\* Where two of them have the same bytes they have the same characters.
LEMMA WholeAgree ==
  ASSUME NEW u \in Strings, NEW v \in Strings, Whole(u), Whole(v), NEW k, Agree(u, v, k)
  PROVE  Boundary(u, k) <=> Boundary(v, k)
<1>1. /\ Len(u) \in Nat /\ Len(v) \in Nat /\ k \in Nat /\ k <= Len(u) /\ k <= Len(v)
      /\ \A i \in 1..k : u[i] = v[i]
  BY DEF Agree, Strings
<1>2. CASE k = 0
  BY <1>2 DEF Boundary
<1>3. CASE k # 0
  <2>1. u # <<>> /\ v # <<>>
    BY <1>1, <1>3
  <2>2. PICK p \in Paths : Under(u, p) /\ Boundary(p, Len(u))
    BY <2>1 DEF Whole
  <2>3. PICK q \in Paths : Under(v, q) /\ Boundary(q, Len(v))
    BY <2>1 DEF Whole
  <2>4. p \in Strings /\ q \in Strings
    BY StringsAssumption DEF Strings
  <2>5. Boundary(u, k) <=> Boundary(p, k)
    BY <1>1, <2>2, <2>4, WholeEnd
  <2>6. Boundary(v, k) <=> Boundary(q, k)
    BY <1>1, <2>3, <2>4, WholeEnd
  <2>7. k <= Len(p) /\ k <= Len(q) /\ Len(p) \in Nat /\ Len(q) \in Nat
    BY <1>1, <2>2, <2>3, <2>4 DEF Under, Agree, Strings
  <2>8. \A i \in 1..k : p[i] = q[i]
    BY <1>1, <2>2, <2>3 DEF Under, Agree
  <2>9. SubSeq(p, 1, k) = SubSeq(q, 1, k)
    <3>1. SubSeq(p, 1, k) = [i \in 1..k |-> p[i]]
      BY <1>1, <2>4, <2>7 DEF Strings
    <3>2. SubSeq(q, 1, k) = [i \in 1..k |-> q[i]]
      BY <1>1, <2>4, <2>7 DEF Strings
    <3>3. QED BY <2>8, <3>1, <3>2
  <2>10. k \in 1..Len(p)
    BY <1>1, <1>3, <2>7
  <2>11. Boundary(p, k) <=> Boundary(q, k)
    BY <2>7, <2>9, <2>10, Utf8Assumption
  <2>12. QED BY <2>5, <2>6, <2>11
<1>4. QED BY <1>2, <1>3

\* A string ends where a character does.
LEMMA BoundaryAtEnd == ASSUME NEW w \in Strings PROVE Boundary(w, Len(w))
BY DEF Boundary, Strings

\* What a path begins with, up to the end of a character, is whole.
LEMMA WholePrefix ==
  ASSUME NEW u \in Strings, NEW v \in Strings, Under(u, v), Whole(v), Boundary(v, Len(u))
  PROVE  Whole(u)
<1>1. CASE v = <<>>
  <2>1. Len(u) = 0
    BY <1>1 DEF Under, Agree, Strings
  <2>2. u = <<>>
    BY <2>1, EmptySeq DEF Strings
  <2>3. QED BY <2>2 DEF Whole
<1>2. CASE v # <<>>
  <2>1. PICK p \in Paths : Under(v, p) /\ Boundary(p, Len(v))
    BY <1>2 DEF Whole
  <2>2. p \in Strings
    BY StringsAssumption DEF Strings
  <2>3. Len(u) \in 0..Len(v)
    BY DEF Under, Agree, Strings
  <2>4. Boundary(p, Len(u))
    BY <2>1, <2>2, <2>3, WholeEnd
  <2>5. Under(u, p)
    BY <2>1, <2>2, UnderTransitive
  <2>6. QED BY <2>4, <2>5 DEF Whole
<1>3. QED BY <1>1, <1>2

-------------------------------------------------------------------------------
(* The tree. *)

\* What a node is, whatever its place in the tree.
NodeType == [path : Strings, children : Seq(Nat), match_type : MatchTypes, handler : Nat]

\* Node c is among the children of node n.
Child(nd, n, c) == \E i \in DOMAIN nd[n].children : nd[n].children[i] = c

\* Every node has a path from the root, that of the root is empty.
Typed(nd, fl) ==
  /\ nd \in Seq(NodeType) /\ fl \in Seq(Strings)
  /\ Len(fl) = Len(nd) /\ Len(nd) >= 1
  /\ fl[1] = <<>>

\* An edge leads from the path of its node to the path of the child.
Linked(nd, fl) ==
  /\ \A n \in 1..Len(nd) : n # 1 => nd[n].path # <<>>
  /\ \A n \in 1..Len(nd) : \A c :
       Child(nd, n, c) => c \in 2..Len(nd) /\ fl[c] = fl[n] \o nd[c].path
  /\ \A n \in 1..Len(nd) : \A i, j \in DOMAIN nd[n].children :
       nd[n].children[i] = nd[n].children[j] => i = j

\* Nodes end where characters do, and each has a path of its own.
Distinct(fl) ==
  /\ \A n \in 1..Len(fl) : Whole(fl[n])
  /\ \A n, m \in 1..Len(fl) : fl[n] = fl[m] => n = m

\* What is below a node in paths is below it in the tree.
Covered(nd, fl) ==
  \A n, m \in 1..Len(nd) :
    n # m /\ Under(fl[n], fl[m]) => \E c : Child(nd, n, c) /\ Under(fl[c], fl[m])

\* Siblings have no character in common after the path of their parent.
Apart(nd, fl) ==
  \A n \in 1..Len(nd) : \A c, d :
    Child(nd, n, c) /\ Child(nd, n, d) /\ c # d =>
      \A k : Agree(fl[c], fl[d], k) /\ Boundary(fl[c], k) => k <= Len(fl[n])

\* Nodes nd with the paths fl form the radix tree of their paths.
Tree(nd, fl) ==
  Typed(nd, fl) /\ Linked(nd, fl) /\ Distinct(fl) /\ Covered(nd, fl) /\ Apart(nd, fl)

\* A node of a tree.
LEMMA NodeFacts ==
  ASSUME NEW nd, NEW fl, Tree(nd, fl), NEW n \in 1..Len(nd)
  PROVE  /\ nd[n] \in NodeType /\ nd[n].path \in Strings /\ nd[n].children \in Seq(Nat)
         /\ fl[n] \in Strings /\ Len(fl[n]) \in Nat /\ Whole(fl[n])
         /\ Len(nd) \in Nat /\ DOMAIN nd[n].children = 1..Len(nd[n].children)
<1>1. nd[n] \in NodeType /\ fl[n] \in Strings /\ Whole(fl[n]) /\ Len(nd) \in Nat
  BY DEF Tree, Typed, Distinct
<1>2. nd[n].path \in Strings /\ nd[n].children \in Seq(Nat)
  BY <1>1 DEF NodeType
<1>3. QED BY <1>1, <1>2 DEF Strings

\* An edge of a tree.
LEMMA EdgeFacts ==
  ASSUME NEW nd, NEW fl, Tree(nd, fl), NEW n \in 1..Len(nd), NEW c, Child(nd, n, c)
  PROVE  /\ c \in 2..Len(nd) /\ c \in 1..Len(nd)
         /\ nd[c].path # <<>> /\ Len(nd[c].path) \in Nat \ {0}
         /\ Len(fl[c]) = Len(fl[n]) + Len(nd[c].path) /\ Under(fl[n], fl[c])
         /\ \A i \in 1..Len(nd[c].path) : fl[c][Len(fl[n]) + i] = nd[c].path[i]
         /\ \A k \in 1..Len(nd[c].path) :
              Boundary(nd[c].path, k) <=> Boundary(fl[c], Len(fl[n]) + k)
<1>1. c \in 2..Len(nd) /\ fl[c] = fl[n] \o nd[c].path
  BY DEF Tree, Linked
<1>2. c \in 1..Len(nd) /\ nd[c].path # <<>>
  BY <1>1 DEF Tree, Linked
<1>3. nd[c].path \in Strings /\ fl[n] \in Strings /\ fl[c] \in Strings
  BY <1>2, NodeFacts
<1>4. Len(nd[c].path) \in Nat \ {0} /\ Len(fl[n]) \in Nat
  BY <1>2, <1>3, EmptySeq DEF Strings
<1>5. /\ Len(fl[c]) = Len(fl[n]) + Len(nd[c].path) /\ Under(fl[n], fl[c])
      /\ \A i \in 1..Len(nd[c].path) : fl[c][Len(fl[n]) + i] = nd[c].path[i]
  <2> DEFINE u == fl[n]
             v == nd[c].path
  <2>1. u \in Strings /\ v \in Strings /\ fl[c] = u \o v
    BY <1>1, <1>3
  <2> HIDE DEF u, v
  <2>2. /\ Len(fl[c]) = Len(u) + Len(v) /\ Under(u, fl[c])
        /\ \A i \in 1..Len(v) : fl[c][Len(u) + i] = v[i]
    BY <2>1, Concatenated
  <2>3. QED BY <2>2 DEF u, v
<1>6. ASSUME NEW k \in 1..Len(nd[c].path)
      PROVE  Boundary(nd[c].path, k) <=> Boundary(fl[c], Len(fl[n]) + k)
  <2>1. CASE k = Len(nd[c].path)
    <3>1. Boundary(nd[c].path, k)
      BY <1>3, <2>1, BoundaryAtEnd
    <3>2. Boundary(fl[c], Len(fl[n]) + k)
      BY <1>3, <1>5, <2>1, BoundaryAtEnd
    <3>3. QED BY <3>1, <3>2
  <2>2. CASE k # Len(nd[c].path)
    <3> DEFINE a == Len(fl[n])
               b == Len(nd[c].path)
               l == Len(fl[c])
    <3>4. a \in Nat /\ b \in Nat \ {0} /\ l = a + b /\ k \in 1..b /\ k # b
      BY <1>4, <1>5, <2>2
    <3> HIDE DEF a, b, l
    <3>5. k \in 1..(b - 1) /\ k + 1 \in 1..b /\ a + k \in 1..(l - 1) /\ (a + k) + 1 = a + (k + 1)
      BY <3>4
    <3>1. /\ k \in 1..(Len(nd[c].path) - 1) /\ k + 1 \in 1..Len(nd[c].path)
          /\ Len(fl[n]) + k \in 1..(Len(fl[c]) - 1)
          /\ (Len(fl[n]) + k) + 1 = Len(fl[n]) + (k + 1)
      BY <3>5 DEF a, b, l
    <3>2. fl[c][(Len(fl[n]) + k) + 1] = nd[c].path[k + 1]
      BY <1>5, <3>1
    <3>3. QED BY <3>1, <3>2 DEF Boundary
  <2>3. QED BY <2>1, <2>2
<1>7. QED BY <1>1, <1>2, <1>4, <1>5, <1>6

\* A child is a node of its own whose path goes on from its parent's.
LEMMA ChildBelow ==
  ASSUME NEW nd, NEW fl, Tree(nd, fl), NEW n \in 1..Len(nd), NEW c, Child(nd, n, c)
  PROVE  /\ c \in 1..Len(nd) /\ c # n /\ c # 1
         /\ fl[n] \in Strings /\ fl[c] \in Strings /\ Under(fl[n], fl[c])
         /\ Len(fl[n]) \in Nat /\ Len(fl[c]) \in Nat /\ Len(fl[n]) < Len(fl[c])
<1>1. c \in 2..Len(nd) /\ fl[c] = fl[n] \o nd[c].path
  BY DEF Tree, Linked
<1>2. c \in 1..Len(nd) /\ c # 1 /\ nd[c].path # <<>>
  BY <1>1 DEF Tree, Linked
<1> DEFINE u == fl[n]
           v == nd[c].path
           w == fl[c]
<1>3. u \in Strings /\ v \in Strings /\ v # <<>> /\ w \in Strings /\ w = u \o v
  BY <1>1, <1>2, NodeFacts
<1> HIDE DEF u, v, w
<1>4. Len(u) \in Nat /\ Len(v) \in Nat \ {0} /\ Len(w) \in Nat
  BY <1>3, EmptySeq DEF Strings
<1>5. Len(w) = Len(u) + Len(v) /\ Under(u, w)
  BY <1>3, Concatenated
<1>6. Len(u) < Len(w)
  BY <1>4, <1>5
<1>7. c # n
  BY <1>4, <1>6 DEF u, w
<1>8. QED BY <1>2, <1>3, <1>4, <1>5, <1>6, <1>7 DEF u, w

\* Two children of a node with a character in common are one.
LEMMA OneChild ==
  ASSUME NEW nd, NEW fl, Tree(nd, fl), NEW n \in 1..Len(nd),
         NEW c, Child(nd, n, c), NEW d, Child(nd, n, d),
         NEW k, Agree(fl[c], fl[d], k), Boundary(fl[c], k) \/ Boundary(fl[d], k),
         k > Len(fl[n])
  PROVE  c = d
<1>1. /\ c \in 1..Len(nd) /\ d \in 1..Len(nd) /\ fl[c] \in Strings /\ fl[d] \in Strings
      /\ Whole(fl[c]) /\ Whole(fl[d]) /\ Len(fl[n]) \in Nat /\ k \in Nat
  BY EdgeFacts, NodeFacts DEF Agree
<1>2. Boundary(fl[c], k)
  BY <1>1, WholeAgree
<1>3. ~ (k <= Len(fl[n]))
  BY <1>1
<1>4. QED BY <1>2, <1>3 DEF Tree, Apart

\* A tree is one whatever the handlers of its nodes are.
LEMMA SameTree ==
  ASSUME NEW nd, NEW fl, Tree(nd, fl), NEW nd2 \in Seq(NodeType), Len(nd2) = Len(nd),
         \A n \in 1..Len(nd) : nd2[n].path = nd[n].path /\ nd2[n].children = nd[n].children
  PROVE  Tree(nd2, fl)
<1>1. \A n \in 1..Len(nd) : \A c : Child(nd2, n, c) <=> Child(nd, n, c)
  BY DEF Child
<1>2. Typed(nd2, fl) /\ Distinct(fl)
  BY DEF Tree, Typed
<1>3. \A n \in 1..Len(nd) : \A c : Child(nd, n, c) => c \in 1..Len(nd)
  BY EdgeFacts
<1>4. Linked(nd2, fl)
  <2>1. \A n \in 1..Len(nd2) : n # 1 => nd2[n].path # <<>>
    BY DEF Tree, Linked
  <2>2. ASSUME NEW n \in 1..Len(nd2), NEW c, Child(nd2, n, c)
        PROVE  c \in 2..Len(nd2) /\ fl[c] = fl[n] \o nd2[c].path
    <3>1. Child(nd, n, c) /\ c \in 1..Len(nd)
      BY <1>1, <1>3, <2>2
    <3>2. c \in 2..Len(nd) /\ fl[c] = fl[n] \o nd[c].path
      BY <3>1 DEF Tree, Linked
    <3>3. nd2[c].path = nd[c].path
      BY <3>1
    <3>4. QED BY <3>2, <3>3
  <2>3. \A n \in 1..Len(nd2) : \A i, j \in DOMAIN nd2[n].children :
          nd2[n].children[i] = nd2[n].children[j] => i = j
    BY DEF Tree, Linked
  <2>4. QED BY <2>1, <2>2, <2>3 DEF Linked
<1>5. Covered(nd2, fl) /\ Apart(nd2, fl)
  BY <1>1 DEF Tree, Covered, Apart
<1>6. QED BY <1>2, <1>4, <1>5 DEF Tree

-------------------------------------------------------------------------------
(* A new node on an edge. *)

\* Two strings agree as far as a prefix of both goes.
LEMMA AgreeOver ==
  ASSUME NEW u \in Strings, NEW v \in Strings, NEW w \in Strings, Under(w, u), Under(w, v)
  PROVE  Agree(u, v, Len(w))
BY DEF Under, Agree, Strings

\* A string is a prefix of itself.
LEMMA UnderItself == ASSUME NEW w \in Strings PROVE Under(w, w)
BY DEF Under, Agree, Strings

\* A prefix is not longer.
LEMMA UnderLength ==
  ASSUME NEW u \in Strings, NEW v \in Strings, Under(u, v)
  PROVE  Len(u) \in Nat /\ Len(v) \in Nat /\ Len(u) <= Len(v)
BY DEF Under, Agree, Strings

\* What is below a whole part of an edge is below the child it leads to.
LEMMA BelowStem ==
  ASSUME NEW nd, NEW fl, Tree(nd, fl), NEW a \in 1..Len(nd), NEW c, Child(nd, a, c),
         NEW w \in Strings, Under(w, fl[c]), Len(fl[a]) < Len(w), Boundary(fl[c], Len(w)),
         NEW m \in 1..Len(nd), Under(w, fl[m])
  PROVE  Under(fl[c], fl[m])
<1>1. /\ c \in 1..Len(nd) /\ fl[a] \in Strings /\ fl[c] \in Strings /\ fl[m] \in Strings
      /\ Under(fl[a], fl[c]) /\ Len(w) \in Nat /\ Len(fl[a]) \in Nat
  BY ChildBelow, NodeFacts, LenProperties DEF Strings
<1>2. Under(fl[a], w)
  BY <1>1, UnderSame
<1>3. Under(fl[a], fl[m])
  BY <1>1, <1>2, UnderTransitive
<1>4. m # a
  <2>1. Len(w) <= Len(fl[m])
    BY <1>1, UnderLength
  <2>2. QED BY <1>1, <2>1
<1>5. PICK d : Child(nd, a, d) /\ Under(fl[d], fl[m])
  BY <1>3, <1>4 DEF Tree, Covered
<1>6. /\ d \in 1..Len(nd) /\ fl[d] \in Strings /\ Len(fl[d]) \in Nat
      /\ Len(fl[d]) > Len(fl[a])
  BY <1>5, ChildBelow
<1>7. CASE Len(w) <= Len(fl[d])
  <2>1. Under(w, fl[d])
    BY <1>1, <1>5, <1>6, <1>7, UnderSame
  <2>2. Agree(fl[c], fl[d], Len(w))
    BY <1>1, <1>6, <2>1, AgreeOver
  <2>3. c = d
    BY <1>1, <1>5, <2>2, OneChild
  <2>4. QED BY <1>5, <2>3
<1>8. CASE Len(fl[d]) <= Len(w)
  <2>1. Under(fl[d], w)
    BY <1>1, <1>5, <1>6, <1>8, UnderSame
  <2>2. Under(fl[d], fl[c]) /\ Under(fl[d], fl[d])
    BY <1>1, <1>6, <2>1, UnderTransitive, UnderItself
  <2>3. Agree(fl[c], fl[d], Len(fl[d]))
    BY <1>1, <1>6, <2>2, AgreeOver
  <2>4. Boundary(fl[d], Len(fl[d]))
    BY <1>6, BoundaryAtEnd
  <2>5. c = d
    BY <1>5, <1>6, <2>3, <2>4, OneChild
  <2>6. QED BY <1>5, <2>5
<1>9. QED BY <1>1, <1>6, <1>7, <1>8

\* What is above a child is above its parent.
LEMMA AboveStem ==
  ASSUME NEW nd, NEW fl, Tree(nd, fl), NEW a \in 1..Len(nd), NEW c, Child(nd, a, c),
         NEW n \in 1..Len(nd), n # c, Under(fl[n], fl[c])
  PROVE  Under(fl[n], fl[a])
<1>1. /\ c \in 1..Len(nd) /\ fl[a] \in Strings /\ fl[c] \in Strings /\ fl[n] \in Strings
      /\ Under(fl[a], fl[c]) /\ Len(fl[n]) \in Nat /\ Len(fl[a]) \in Nat
  BY EdgeFacts, NodeFacts
<1>2. CASE Len(fl[n]) <= Len(fl[a])
  BY <1>1, <1>2, UnderSame
<1>3. CASE Len(fl[a]) < Len(fl[n])
  <2>1. Under(fl[a], fl[n]) /\ a # n
    BY <1>1, <1>3, UnderSame
  <2>2. PICK d : Child(nd, a, d) /\ Under(fl[d], fl[n])
    BY <2>1 DEF Tree, Covered
  <2>4. fl[d] \in Strings /\ Len(fl[d]) > Len(fl[a])
    BY <2>2, ChildBelow
  <2>5. Under(fl[d], fl[c]) /\ Under(fl[d], fl[d])
    BY <1>1, <2>2, <2>4, UnderTransitive, UnderItself
  <2>6. Agree(fl[c], fl[d], Len(fl[d])) /\ Boundary(fl[d], Len(fl[d]))
    BY <1>1, <2>4, <2>5, AgreeOver, BoundaryAtEnd
  <2>7. c = d
    BY <2>2, <2>4, <2>6, OneChild
  <2>8. fl[n] = fl[c]
    BY <1>1, <2>2, <2>7, UnderBoth
  <2>9. Len(fl) = Len(nd)
    BY DEF Tree, Typed
  <2>10. QED BY <1>1, <2>8, <2>9 DEF Tree, Distinct
<1>4. QED BY <1>1, <1>2, <1>3

\* The parts of an edge that is split behind its first k bytes.
LEMMA StemFacts ==
  ASSUME NEW nd, NEW fl, Tree(nd, fl), NEW a \in 1..Len(nd), NEW c \in 1..Len(nd),
         Child(nd, a, c), NEW k \in 1..(Len(nd[c].path) - 1), Boundary(nd[c].path, k)
  PROVE  LET e == nd[c].path
             stem == SubSeq(e, 1, k)
             tail == SubSeq(e, k + 1, Len(e))
             w == fl[a] \o stem
         IN  /\ stem \in Strings /\ stem # <<>> /\ tail \in Strings /\ tail # <<>>
             /\ w \in Strings /\ fl[c] = w \o tail /\ Under(w, fl[c]) /\ Under(fl[a], w)
             /\ Len(fl[a]) < Len(w) /\ Len(w) < Len(fl[c])
             /\ Boundary(fl[c], Len(w)) /\ Whole(w)
<1> DEFINE e == nd[c].path
           stem == SubSeq(e, 1, k)
           tail == SubSeq(e, k + 1, Len(e))
           u == fl[a]
           w == u \o stem
           f == fl[c]
<1>1. f = u \o e /\ \A j \in 1..Len(e) : Boundary(e, j) <=> Boundary(f, Len(u) + j)
  BY EdgeFacts DEF Tree, Linked
<1>2. u \in Strings /\ e \in Strings /\ f \in Strings /\ Whole(f)
  BY <1>1, NodeFacts
<1>3. k \in 1..(Len(e) - 1) /\ Boundary(e, k)
  OBVIOUS
<1> HIDE DEF e, u, f
<1>4. Len(u) \in Nat /\ Len(e) \in Nat /\ Len(f) \in Nat
  BY <1>2 DEF Strings
<1>5. k \in Nat /\ k \in 0..Len(e) /\ k \in 1..Len(e) /\ Len(e) - k > 0 /\ k > 0
  BY <1>3, <1>4
<1>6. /\ stem \in Strings /\ Len(stem) = k /\ tail \in Strings /\ Len(tail) = Len(e) - k
      /\ e = stem \o tail
  BY <1>2, <1>5, Cut
<1> HIDE DEF stem, tail
<1>7. stem # <<>> /\ tail # <<>>
  <2>1. Len(stem) # 0 /\ Len(tail) # 0
    BY <1>5, <1>6
  <2>2. QED BY <2>1
<1>8. w \in Strings /\ Len(w) = Len(u) + k /\ Under(u, w)
  BY <1>2, <1>6, Concatenated
<1>9. f = w \o tail
  <2>3. u \in Strings /\ stem \in Strings /\ tail \in Strings
    BY <1>2, <1>6
  <2>1. (u \o stem) \o tail = u \o (stem \o tail)
    BY <2>3, Joined
  <2>2. QED BY <1>1, <1>6, <2>1
<1> HIDE DEF w
<1>10. Under(w, f) /\ Len(f) = Len(w) + Len(tail)
  BY <1>6, <1>8, <1>9, Concatenated
<1>11. Len(u) < Len(w)
  BY <1>4, <1>5, <1>8
<1>12. Len(w) < Len(f)
  BY <1>4, <1>5, <1>6, <1>8, <1>10
<1>13. Boundary(f, Len(w))
  BY <1>1, <1>3, <1>5, <1>8
<1>14. Whole(w)
  BY <1>2, <1>8, <1>10, <1>13, WholePrefix
<1>15. QED
  BY <1>6, <1>7, <1>8, <1>9, <1>10, <1>11, <1>12, <1>13, <1>14 DEF e, stem, tail, u, w, f

\* What split_child makes of the tree, node by node.
LEMMA SplitNodes ==
  ASSUME NEW fl, Tree(nodes, fl), NEW c \in 1..Len(nodes), NEW k \in 1..(Len(nodes[c].path) - 1)
  PROVE  LET nd == split_child(c, k)
             new == Len(nodes) + 1
             e == nodes[c].path
         IN  /\ nd \in Seq(NodeType) /\ Len(nd) = new
             /\ \A n \in 1..Len(nodes) : n # c => nd[n] = nodes[n]
             /\ nd[c].path = SubSeq(e, 1, k) /\ nd[c].children = <<new>>
             /\ nd[c].handler = 0 /\ nd[c].match_type = "Prefix"
             /\ nd[new].path = SubSeq(e, k + 1, Len(e))
             /\ nd[new].children = nodes[c].children
             /\ nd[new].handler = nodes[c].handler /\ nd[new].match_type = nodes[c].match_type
<1> DEFINE new == Len(nodes) + 1
           e == nodes[c].path
           suffix == [nodes[c] EXCEPT !.path = SubSeq(@, k + 1, Len(@))]
           stem == [path |-> SubSeq(e, 1, k), children |-> <<new>>,
                    match_type |-> "Prefix", handler |-> 0]
           old == [nodes EXCEPT ![c] = stem]
<1>1. nodes \in Seq(NodeType) /\ nodes[c] \in NodeType /\ e \in Strings /\ new \in Nat
  BY NodeFacts DEF Tree, Typed
<1>2. SubSeq(e, 1, k) \in Strings /\ SubSeq(e, k + 1, Len(e)) \in Strings
  <2>1. Len(e) \in Nat
    BY <1>1 DEF Strings
  <2>2. k \in 0..Len(e)
    BY <2>1
  <2>3. QED BY <1>1, <2>2, Cut
<1>3. stem \in NodeType
  BY <1>1, <1>2 DEF NodeType, MatchTypes
<1>4. /\ suffix \in NodeType /\ suffix.path = SubSeq(e, k + 1, Len(e))
      /\ suffix.children = nodes[c].children /\ suffix.handler = nodes[c].handler
      /\ suffix.match_type = nodes[c].match_type
  BY <1>1, <1>2 DEF NodeType
<1>5. split_child(c, k) = Append(old, suffix)
  BY DEF split_child
<1>6. /\ stem.path = SubSeq(e, 1, k) /\ stem.children = <<new>>
      /\ stem.match_type = "Prefix" /\ stem.handler = 0
  OBVIOUS
<1> HIDE DEF stem, suffix
<1>7. /\ old \in Seq(NodeType) /\ Len(old) = Len(nodes) /\ old[c] = stem
      /\ \A n \in 1..Len(nodes) : n # c => old[n] = nodes[n]
  BY <1>1, <1>3, ExceptSeq
<1> HIDE DEF old
<1>8. /\ Append(old, suffix) \in Seq(NodeType) /\ Len(Append(old, suffix)) = new
      /\ \A n \in 1..Len(nodes) : Append(old, suffix)[n] = old[n]
      /\ Append(old, suffix)[new] = suffix
  <2>1. /\ Append(old, suffix) \in Seq(NodeType) /\ Len(Append(old, suffix)) = Len(old) + 1
        /\ \A n \in 1..Len(old) : Append(old, suffix)[n] = old[n]
        /\ Append(old, suffix)[Len(old) + 1] = suffix
    BY <1>4, <1>7, AppendProperties
  <2>2. QED BY <1>7, <2>1
<1>9. QED BY <1>4, <1>5, <1>6, <1>7, <1>8

\* The paths of the nodes once the edge to c has been split.
split_full(a, c, k) ==
  Append([full EXCEPT ![c] = full[a] \o SubSeq(nodes[c].path, 1, k)], full[c])

\* Splitting an edge at a character keeps the tree one.
LEMMA SplitTree ==
  ASSUME Tree(nodes, full), NEW a \in 1..Len(nodes), NEW c, Child(nodes, a, c),
         NEW k \in 1..(Len(nodes[c].path) - 1), Boundary(nodes[c].path, k)
  PROVE  Tree(split_child(c, k), split_full(a, c, k))
<1> DEFINE nd == split_child(c, k)
           fl == split_full(a, c, k)
           new == Len(nodes) + 1
           e == nodes[c].path
           stem == SubSeq(e, 1, k)
           tail == SubSeq(e, k + 1, Len(e))
           w == full[a] \o stem
           f == full[c]
           Old == {n \in 1..Len(nodes) : n # c}
<1>1. c \in 1..Len(nodes) /\ c # 1 /\ a # c /\ a \in Old /\ Under(full[a], f) /\ f \in Strings
  BY ChildBelow
<1>2. /\ stem # <<>> /\ tail # <<>> /\ w \in Strings /\ f = w \o tail
      /\ Under(w, f) /\ Under(full[a], w) /\ Len(full[a]) < Len(w) /\ Len(w) < Len(f)
      /\ Boundary(f, Len(w)) /\ Whole(w)
  BY <1>1, StemFacts
<1>3. /\ nd \in Seq(NodeType) /\ Len(nd) = new
      /\ \A n \in Old : nd[n] = nodes[n]
      /\ nd[c].path = stem /\ nd[c].children = <<new>>
      /\ nd[new].path = tail /\ nd[new].children = nodes[c].children
  BY <1>1, SplitNodes
<1>4. /\ fl \in Seq(Strings) /\ Len(fl) = new
      /\ \A n \in Old : fl[n] = full[n]
      /\ fl[c] = w /\ fl[new] = f
  <2> DEFINE g == [full EXCEPT ![c] = w]
  <2>1. full \in Seq(Strings) /\ Len(full) = Len(nodes)
    BY DEF Tree, Typed
  <2>2. /\ g \in Seq(Strings) /\ Len(g) = Len(nodes) /\ g[c] = w
        /\ \A n \in Old : g[n] = full[n]
    <3>1. w \in Strings /\ c \in 1..Len(full)
      BY <1>1, <1>2, <2>1
    <3> HIDE DEF w
    <3>2. /\ g \in Seq(Strings) /\ Len(g) = Len(full) /\ g[c] = w
          /\ \A n \in 1..Len(full) : n # c => g[n] = full[n]
      BY <2>1, <3>1, ExceptSeq
    <3>3. QED BY <2>1, <3>2
  <2>3. fl = Append(g, f)
    BY DEF split_full
  <2> HIDE DEF g, f
  <2>4. /\ Append(g, f) \in Seq(Strings) /\ Len(Append(g, f)) = new
        /\ \A n \in 1..Len(nodes) : Append(g, f)[n] = g[n]
        /\ Append(g, f)[new] = f
    <3>3. f \in Strings /\ g \in Seq(Strings)
      BY <1>1, <2>2
    <3>1. /\ Append(g, f) \in Seq(Strings) /\ Len(Append(g, f)) = Len(g) + 1
          /\ \A n \in 1..Len(g) : Append(g, f)[n] = g[n]
          /\ Append(g, f)[Len(g) + 1] = f
      BY <3>3, AppendProperties
    <3>2. QED BY <2>2, <3>1
  <2>5. QED BY <1>1, <2>2, <2>3, <2>4
<1>5. /\ Len(nodes) \in Nat /\ new \in Nat /\ new \notin Old /\ new # c
      /\ 1..Len(nd) = Old \cup {c, new} /\ 1 \in Old
  <2>1. Len(nodes) \in Nat /\ Len(nodes) >= 1
    BY DEF Tree, Typed
  <2>2. new \in Nat /\ new \notin Old /\ new # c /\ 1 \in Old
    BY <1>1, <2>1
  <2>3. 1..new = Old \cup {c, new}
    <3>1. \A n : n \in 1..new <=> n \in 1..Len(nodes) \/ n = new
      BY <2>1
    <3>2. QED BY <1>1, <3>1
  <2>4. QED BY <1>3, <2>1, <2>2, <2>3
<1>6. /\ \A n \in Old : \A d : Child(nd, n, d) <=> Child(nodes, n, d)
      /\ \A d : Child(nd, c, d) <=> d = new
      /\ \A d : Child(nd, new, d) <=> Child(nodes, c, d)
  <2>1. \A n \in Old : \A d : Child(nd, n, d) <=> Child(nodes, n, d)
    BY <1>3 DEF Child
  <2>2. \A d : Child(nd, new, d) <=> Child(nodes, c, d)
    BY <1>3 DEF Child
  <2>3. \A d : Child(nd, c, d) <=> d = new
    <3>1. DOMAIN nd[c].children = {1} /\ nd[c].children[1] = new
      BY <1>3
    <3>2. QED BY <3>1 DEF Child
  <2>4. QED BY <2>1, <2>2, <2>3
<1>7. \A n \in 1..Len(nodes) : \A d : Child(nodes, n, d) =>
        d \in 1..Len(nodes) /\ d # 1 /\ d # n /\ full[d] = full[n] \o nodes[d].path
  <2> TAKE n \in 1..Len(nodes)
  <2> TAKE d
  <2> HAVE Child(nodes, n, d)
  <2>1. d \in 1..Len(nodes) /\ d # 1 /\ d # n
    BY ChildBelow
  <2>2. full[d] = full[n] \o nodes[d].path
    BY DEF Tree, Linked
  <2>3. QED BY <2>1, <2>2
<1>8. \A n \in 1..Len(nodes) : full[n] \in Strings /\ Whole(full[n])
  BY NodeFacts
<1> HIDE DEF nd, fl, new, e, stem, tail, w, f
\* Who has c as a child.
<1>9. \A n \in 1..Len(nodes) : Child(nodes, n, c) => n = a
  <2> TAKE n \in 1..Len(nodes)
  <2> HAVE Child(nodes, n, c)
  <2>1. Under(full[n], full[c]) /\ n # c
    BY ChildBelow
  <2>2. Under(full[n], full[a])
    BY <1>1, <2>1, AboveStem
  <2>3. Under(full[a], full[n])
    BY <1>1, <2>1, AboveStem DEF f
  <2>4. full[n] = full[a]
    BY <1>8, <2>2, <2>3, UnderBoth
  <2>5. Len(full) = Len(nodes)
    BY DEF Tree, Typed
  <2>6. QED BY <2>4, <2>5 DEF Tree, Distinct
\* What is below the stem is below the old child.
<1>10. \A m \in 1..Len(nodes) : Under(w, full[m]) => Under(f, full[m])
  BY <1>1, <1>2, BelowStem DEF f
\* What is above the old child, but not itself, is above the stem.
<1>11. \A n \in Old : Under(full[n], f) => Under(full[n], w)
  <2> TAKE n \in Old
  <2> HAVE Under(full[n], f)
  <2>1. Under(full[n], full[a])
    BY AboveStem DEF f
  <2>2. QED BY <1>1, <1>2, <1>8, <2>1, UnderTransitive
<1>12. Typed(nd, fl)
  BY <1>3, <1>4, <1>5 DEF Tree, Typed
<1>13. Linked(nd, fl)
  <2>1. \A n \in 1..Len(nd) : n # 1 => nd[n].path # <<>>
    BY <1>2, <1>3, <1>5 DEF Tree, Linked
  <2>2. ASSUME NEW n \in 1..Len(nd), NEW d, Child(nd, n, d)
        PROVE  d \in 2..Len(nd) /\ fl[d] = fl[n] \o nd[d].path
    <3>1. CASE n = c
      <4>1. d = new /\ fl[c] = w /\ fl[new] = f /\ nd[new].path = tail /\ f = w \o tail
        BY <1>2, <1>3, <1>4, <1>6, <2>2, <3>1
      <4>2. new \in 2..Len(nd)
        BY <1>3, <1>5
      <4>3. QED BY <3>1, <4>1, <4>2
    <3>2. CASE n = new
      <4>1. Child(nodes, c, d)
        BY <1>6, <2>2, <3>2
      <4>2. d \in Old /\ d # 1 /\ full[d] = f \o nodes[d].path
        BY <1>1, <1>7, <4>1 DEF f
      <4>3. d \in 2..Len(nd)
        BY <1>3, <1>5, <4>2
      <4>4. QED BY <1>3, <1>4, <3>2, <4>2, <4>3
    <3>3. CASE n \in Old
      <4>1. Child(nodes, n, d)
        BY <1>6, <2>2, <3>3
      <4>2. d \in 1..Len(nodes) /\ d # 1 /\ full[d] = full[n] \o nodes[d].path
        BY <1>7, <3>3, <4>1
      <4>3. d \in 2..Len(nd)
        BY <1>3, <1>5, <4>2
      <4>4. CASE d = c
        <5>1. n = a
          BY <1>9, <3>3, <4>1, <4>4
        <5>2. fl[d] = w /\ w = full[a] \o stem /\ nd[d].path = stem /\ fl[n] = full[a]
          BY <1>3, <1>4, <3>3, <4>4, <5>1 DEF w
        <5>3. QED BY <4>3, <5>2
      <4>5. CASE d # c
        BY <1>3, <1>4, <3>3, <4>2, <4>3, <4>5
      <4>6. QED BY <4>4, <4>5
    <3>4. QED BY <1>5, <3>1, <3>2, <3>3
  <2>3. ASSUME NEW n \in 1..Len(nd), NEW i \in DOMAIN nd[n].children,
               NEW j \in DOMAIN nd[n].children, nd[n].children[i] = nd[n].children[j]
        PROVE  i = j
    <3>1. CASE n = c
      BY <1>3, <2>3, <3>1
    <3>2. CASE n = new
      BY <1>1, <1>3, <2>3, <3>2 DEF Tree, Linked
    <3>3. CASE n \in Old
      BY <1>3, <2>3, <3>3 DEF Tree, Linked
    <3>4. QED BY <1>5, <3>1, <3>2, <3>3
  <2>4. QED BY <2>1, <2>2, <2>3 DEF Linked
<1>14. Distinct(fl)
  <2>1. ASSUME NEW n \in 1..Len(fl) PROVE Whole(fl[n])
    <3>1. n \in Old \/ n = c \/ n = new
      BY <1>3, <1>4, <1>5
    <3>2. CASE n \in Old
      BY <1>4, <1>8, <3>2
    <3>3. CASE n = c
      BY <1>2, <1>4, <3>3
    <3>4. CASE n = new
      BY <1>1, <1>4, <1>8, <3>4 DEF f
    <3>5. QED BY <3>1, <3>2, <3>3, <3>4
  <2>2. ASSUME NEW m \in 1..Len(nodes) PROVE full[m] # w
    <3>1. SUFFICES ASSUME full[m] = w PROVE FALSE
      OBVIOUS
    <3>2. Under(w, full[m])
      BY <1>2, <3>1, UnderItself
    <3>3. Under(f, w)
      BY <1>10, <3>1, <3>2
    <3>4. Len(f) \in Nat /\ Len(w) \in Nat /\ Len(f) <= Len(w)
      BY <1>1, <1>2, <3>3, UnderLength
    <3>5. QED BY <1>2, <3>4
  <2>3. \A n, m \in 1..Len(nodes) : full[n] = full[m] => n = m
    BY DEF Tree, Typed, Distinct
  <2>4. w # f
    BY <1>1, <2>2 DEF f
  <2>5. \A n \in Old : full[n] # f
    BY <1>1, <2>3 DEF f
  <2>6. \A n, m \in Old \cup {c, new} : fl[n] = fl[m] => n = m
    BY <1>4, <2>2, <2>3, <2>4, <2>5
  <2>7. QED BY <1>3, <1>4, <1>5, <2>1, <2>6 DEF Distinct
<1>15. Covered(nd, fl)
  <2> SUFFICES ASSUME NEW n \in 1..Len(nd), NEW m \in 1..Len(nd), n # m, Under(fl[n], fl[m])
               PROVE  \E d : Child(nd, n, d) /\ Under(fl[d], fl[m])
    BY DEF Covered
  <2>0. \A x, y \in 1..Len(nodes) : x # y /\ Under(full[x], full[y]) =>
          \E d : Child(nodes, x, d) /\ Under(full[d], full[y])
    BY DEF Tree, Covered
  \* A child of an old node leads to the same place, or to the stem instead.
  <2>1. ASSUME NEW d \in 1..Len(nodes), NEW y \in Strings, Under(full[d], y)
        PROVE  Under(fl[d], y)
    <3>1. CASE d = c
      <4>1. Under(w, y)
        BY <1>1, <1>2, <2>1, <3>1, UnderTransitive DEF f
      <4>2. QED BY <1>4, <3>1, <4>1
    <3>2. CASE d # c
      BY <1>4, <2>1, <3>2
    <3>3. QED BY <3>1, <3>2
  <2>2. CASE n = c
    <3>1. CASE m = new
      BY <1>1, <1>4, <1>6, <2>2, <3>1, UnderItself
    <3>2. CASE m \in Old
      <4>1. Under(w, full[m])
        BY <1>4, <2>2, <3>2
      <4>2. Under(fl[new], fl[m])
        BY <1>4, <1>10, <3>2, <4>1
      <4>3. QED BY <1>6, <2>2, <4>2
    <3>3. QED BY <1>5, <2>2, <3>1, <3>2
  <2>3. CASE n = new
    <3>1. CASE m = c
      <4>1. Under(f, w)
        BY <1>4, <2>3, <3>1
      <4>2. Len(f) \in Nat /\ Len(w) \in Nat /\ Len(f) <= Len(w)
        BY <1>1, <1>2, <4>1, UnderLength
      <4>3. QED BY <1>2, <4>2
    <3>2. CASE m \in Old
      <4>1. c # m /\ m \in 1..Len(nodes) /\ Under(full[c], full[m])
        BY <1>4, <2>3, <3>2 DEF f
      <4>2. PICK d : Child(nodes, c, d) /\ Under(full[d], full[m])
        BY <1>1, <2>0, <4>1
      <4>3. d \in Old
        BY <1>1, <1>7, <4>2
      <4>4. QED BY <1>4, <1>6, <2>3, <3>2, <4>2, <4>3
    <3>3. QED BY <1>5, <2>3, <3>1, <3>2
  <2>4. CASE n \in Old
    <3>1. CASE m = c \/ m = new
      <4>1. Under(full[n], f)
        <5>1. CASE m = c
          BY <1>1, <1>2, <1>4, <1>8, <2>4, <5>1, UnderTransitive
        <5>2. CASE m = new
          BY <1>4, <2>4, <5>2
        <5>3. QED BY <3>1, <5>1, <5>2
      <4>2. PICK d : Child(nodes, n, d) /\ Under(full[d], f)
        BY <1>1, <2>0, <2>4, <4>1 DEF f
      <4>3. d \in 1..Len(nodes)
        BY <1>7, <2>4, <4>2
      <4>4. Under(fl[d], w)
        <5>1. CASE d = c
          BY <1>2, <1>4, <5>1, UnderItself
        <5>2. CASE d # c
          BY <1>4, <1>11, <4>2, <4>3, <5>2
        <5>3. QED BY <5>1, <5>2
      <4>5. Under(fl[d], f)
        BY <1>1, <2>1, <4>2, <4>3
      <4>6. QED BY <1>4, <1>6, <2>4, <3>1, <4>2, <4>4, <4>5
    <3>2. CASE m \in Old
      <4>1. Under(full[n], full[m])
        BY <1>4, <2>4, <3>2
      <4>2. PICK d : Child(nodes, n, d) /\ Under(full[d], full[m])
        BY <2>0, <2>4, <3>2, <4>1
      <4>3. d \in 1..Len(nodes) /\ full[m] \in Strings
        BY <1>7, <1>8, <2>4, <3>2, <4>2
      <4>4. Under(fl[d], fl[m])
        BY <1>4, <2>1, <3>2, <4>2, <4>3
      <4>5. QED BY <1>6, <2>4, <4>2, <4>4
    <3>3. QED BY <1>5, <3>1, <3>2
  <2>5. QED BY <1>5, <2>2, <2>3, <2>4
<1>16. Apart(nd, fl)
  <2> SUFFICES ASSUME NEW n \in 1..Len(nd), NEW d1, NEW d2, Child(nd, n, d1), Child(nd, n, d2),
                      d1 # d2, NEW l, Agree(fl[d1], fl[d2], l), Boundary(fl[d1], l)
               PROVE  l <= Len(fl[n])
    BY DEF Apart
  <2>0. ASSUME NEW x \in 1..Len(nodes), Child(nodes, x, d1), Child(nodes, x, d2),
               Agree(full[d1], full[d2], l), Boundary(full[d1], l)
        PROVE  l <= Len(full[x])
    BY <2>0 DEF Tree, Apart
  <2>1. CASE n = c
    BY <1>6, <2>1
  <2>2. CASE n = new
    <3>1. Child(nodes, c, d1) /\ Child(nodes, c, d2)
      BY <1>6, <2>2
    <3>2. d1 \in Old /\ d2 \in Old
      BY <1>1, <1>7, <3>1
    <3>3. QED BY <1>1, <1>4, <2>0, <2>2, <3>1, <3>2 DEF f
  <2>3. CASE n \in Old
    <3>1. Child(nodes, n, d1) /\ Child(nodes, n, d2)
      BY <1>6, <2>3
    <3>2. d1 \in 1..Len(nodes) /\ d2 \in 1..Len(nodes)
      BY <1>7, <2>3, <3>1
    \* w is a prefix of f with a character's end at the same places.
    <3>3. ASSUME NEW y, Agree(w, y, l) \/ Agree(y, w, l)
          PROVE  /\ Agree(w, y, l) => Agree(f, y, l)
                 /\ Agree(y, w, l) => Agree(y, f, l)
      <4>1. Len(w) <= Len(f) /\ \A i \in 1..Len(w) : w[i] = f[i]
        BY <1>2 DEF Under, Agree
      <4>2. Len(w) \in Nat /\ Len(f) \in Nat
        BY <1>1, <1>2 DEF Strings
      <4>3. l \in Nat /\ l <= Len(w) /\ l <= Len(f) /\ \A i \in 1..l : w[i] = f[i]
        BY <3>3, <4>1, <4>2 DEF Agree
      <4>4. QED BY <4>3 DEF Agree
    <3>4. Agree(full[d1], full[d2], l)
      BY <1>4, <3>2, <3>3 DEF f
    <3>5. Boundary(full[d1], l)
      <4>1. CASE d1 = c
        <5>1. Boundary(w, l) /\ l \in 0..Len(w)
          BY <1>2, <1>4, <4>1 DEF Agree, Strings
        <5>2. Boundary(f, l)
          BY <1>1, <1>2, <5>1, WholeEnd
        <5>3. QED BY <4>1, <5>2 DEF f
      <4>2. CASE d1 # c
        BY <1>4, <3>2, <4>2
      <4>3. QED BY <4>1, <4>2
    <3>6. QED BY <1>4, <2>0, <2>3, <3>1, <3>4, <3>5
  <2>4. QED BY <1>5, <2>1, <2>2, <2>3
<1>17. QED BY <1>12, <1>13, <1>14, <1>15, <1>16 DEF Tree, nd, fl

-------------------------------------------------------------------------------
(* A new leaf. *)

\* A string that has the first bytes u and the next bytes v, and one that has
\* the first bytes u and the next bytes r, agree as far as v and r do.
LEMMA AgreeBehind ==
  ASSUME NEW u \in Strings, NEW v \in Strings, NEW r \in Strings, NEW k \in Nat
  PROVE  /\ Agree(v, r, k) => Agree(u \o v, u \o r, Len(u) + k)
         /\ Agree(u \o v, u \o r, Len(u) + k) => Agree(v, r, k)
<1> DEFINE a == Len(u)
           x == u \o v
           y == u \o r
<1>1. /\ a \in Nat /\ Len(v) \in Nat /\ Len(r) \in Nat
      /\ Len(x) = a + Len(v) /\ Len(y) = a + Len(r)
      /\ \A i \in 1..a : x[i] = u[i] /\ y[i] = u[i]
      /\ \A i \in 1..Len(v) : x[a + i] = v[i]
      /\ \A i \in 1..Len(r) : y[a + i] = r[i]
  BY Concatenated DEF Under, Agree, Strings
<1> HIDE DEF a, x, y
<1>2. ASSUME Agree(v, r, k) PROVE Agree(x, y, a + k)
  <2>1. k <= Len(v) /\ k <= Len(r) /\ \A i \in 1..k : v[i] = r[i]
    BY <1>2 DEF Agree
  <2>2. ASSUME NEW i \in 1..(a + k) PROVE x[i] = y[i]
    <3>1. CASE i <= a
      BY <1>1, <3>1
    <3>2. CASE a < i
      <4>1. i - a \in 1..k /\ i - a \in 1..Len(v) /\ i - a \in 1..Len(r) /\ a + (i - a) = i
        BY <1>1, <2>1, <3>2
      <4>2. x[a + (i - a)] = v[i - a] /\ y[a + (i - a)] = r[i - a] /\ v[i - a] = r[i - a]
        BY <1>1, <2>1, <4>1
      <4>3. QED BY <4>1, <4>2
    <3>3. QED BY <1>1, <3>1, <3>2
  <2>3. QED BY <1>1, <2>1, <2>2 DEF Agree
<1>3. ASSUME Agree(x, y, a + k) PROVE Agree(v, r, k)
  <2>1. a + k <= a + Len(v) /\ a + k <= a + Len(r) /\ \A i \in 1..(a + k) : x[i] = y[i]
    BY <1>1, <1>3 DEF Agree
  <2>2. k <= Len(v) /\ k <= Len(r)
    BY <1>1, <2>1
  <2>3. ASSUME NEW i \in 1..k PROVE v[i] = r[i]
    <3>1. i \in 1..Len(v) /\ i \in 1..Len(r) /\ a + i \in 1..(a + k)
      BY <1>1, <2>2
    <3>2. QED BY <1>1, <2>1, <3>1
  <2>4. QED BY <2>2, <2>3 DEF Agree
<1>4. QED BY <1>2, <1>3 DEF a, x, y

\* A path that goes on from a node as a child does begins with the first
\* character of that child's edge.
LEMMA SharedCharacter ==
  ASSUME NEW nd, NEW fl, Tree(nd, fl), NEW a \in 1..Len(nd), NEW c \in 1..Len(nd),
         Child(nd, a, c), NEW r \in Strings, Whole(fl[a] \o r),
         NEW l, Agree(fl[c], fl[a] \o r, l), Boundary(fl[c], l) \/ Boundary(fl[a] \o r, l),
         Len(fl[a]) < l
  PROVE  IsPrefix(EdgeChar(nd[c].path), r)
<1> DEFINE u == fl[a]
           e == nd[c].path
           f == fl[c]
           p == u \o r
<1>1. f = u \o e /\ e # <<>> /\ \A j \in 1..Len(e) : Boundary(e, j) <=> Boundary(f, Len(u) + j)
  <2>1. f = u \o e /\ \A j \in 1..Len(e) : Boundary(e, j) <=> Boundary(f, Len(u) + j)
    BY EdgeFacts DEF Tree, Linked
  <2>2. e # <<>>
    BY EdgeFacts
  <2>3. QED BY <2>1, <2>2
<1>2. u \in Strings /\ e \in Strings /\ f \in Strings /\ Whole(f)
  BY NodeFacts
<1>3. /\ Whole(p) /\ Agree(f, p, l) /\ (Boundary(f, l) \/ Boundary(p, l)) /\ Len(u) < l
      /\ p = u \o r
  OBVIOUS
<1> HIDE DEF u, e, f, p
<1>4. p \in Strings /\ Len(u) \in Nat /\ Len(e) \in Nat /\ Len(f) = Len(u) + Len(e)
  BY <1>1, <1>2, <1>3, Concatenated DEF Strings
<1>5. Boundary(f, l)
  BY <1>2, <1>3, <1>4, WholeAgree
<1>6. l \in Nat /\ l <= Len(f)
  BY <1>3 DEF Agree
<1> DEFINE j == l - Len(u)
<1>7. j \in 1..Len(e) /\ j \in Nat /\ Len(u) + j = l
  BY <1>3, <1>4, <1>6
<1> HIDE DEF j
<1>8. Boundary(e, j) /\ Agree(e, r, j)
  <2>1. Boundary(e, j)
    BY <1>1, <1>5, <1>7
  <2>2. Agree(u \o e, u \o r, Len(u) + j)
    BY <1>1, <1>3, <1>7
  <2>3. Agree(e, r, j)
    BY <1>2, <1>7, <2>2, AgreeBehind
  <2>4. QED BY <2>1, <2>3
<1>9. PICK b \in 1..Len(e) :
        /\ EdgeChar(e) \in Strings /\ Len(EdgeChar(e)) = b /\ Under(EdgeChar(e), e)
        /\ \A i \in 1..(b - 1) : ~ Boundary(e, i)
  BY <1>1, <1>2, EdgeCharIs
<1>10. b <= j
  <2>1. ~ (j \in 1..(b - 1))
    BY <1>8, <1>9
  <2>2. QED BY <1>4, <1>7, <2>1
<1>11. Under(EdgeChar(e), r)
  <2> DEFINE h == EdgeChar(e)
  <2>1. h \in Strings /\ Len(h) = b /\ b <= j /\ b \in Nat
    BY <1>4, <1>9, <1>10
  <2>2. b <= Len(e) /\ \A i \in 1..b : h[i] = e[i]
    BY <1>9 DEF Under, Agree
  <2>3. j <= Len(r) /\ \A i \in 1..j : e[i] = r[i]
    BY <1>8 DEF Agree
  <2> HIDE DEF h
  <2>5. Len(r) \in Nat
    BY DEF Strings
  <2>4. b <= Len(r) /\ \A i \in 1..b : h[i] = r[i]
    BY <1>7, <2>1, <2>2, <2>3, <2>5
  <2>6. Under(h, r)
    BY <2>1, <2>4 DEF Under, Agree
  <2>7. QED BY <2>6 DEF h
<1>12. IsPrefix(EdgeChar(e), r)
  BY <1>9, <1>11, PrefixIsUnder
<1>13. QED BY <1>12 DEF e

\* A leaf for a path that shares no character with the edges of its parent.
LEMMA PushTree ==
  ASSUME Tree(nodes, full), NEW a \in 1..Len(nodes), NEW r \in Strings, r # <<>>,
         full[a] \o r \in Paths, NEW ty \in MatchTypes, NEW h \in Nat,
         \A c \in 1..Len(nodes) : Child(nodes, a, c) => ~ IsPrefix(EdgeChar(nodes[c].path), r)
  PROVE  LET nd == Append([nodes EXCEPT ![a].children = Append(@, Len(nodes) + 1)],
                          Node(r, ty, h))
             fl == Append(full, full[a] \o r)
             new == Len(nodes) + 1
         IN  /\ Tree(nd, fl)
             /\ Len(nd) = new /\ Len(fl) = new /\ new \in Nat
             /\ \A n \in 1..Len(nodes) : n # a => nd[n] = nodes[n]
             /\ \A n \in 1..Len(nodes) : /\ fl[n] = full[n]
                                         /\ nd[n].handler = nodes[n].handler
                                         /\ nd[n].match_type = nodes[n].match_type
             /\ nd[a].children = Append(nodes[a].children, new)
             /\ nd[new] = Node(r, ty, h) /\ fl[new] = full[a] \o r
<1> DEFINE new == Len(nodes) + 1
           leaf == Node(r, ty, h)
           grown == [nodes[a] EXCEPT !.children = Append(@, new)]
           old == [nodes EXCEPT ![a] = grown]
           nd == Append(old, leaf)
           u == full[a]
           p == u \o r
           fl == Append(full, p)
<1>1. /\ nodes \in Seq(NodeType) /\ full \in Seq(Strings) /\ Len(full) = Len(nodes)
      /\ Len(nodes) \in Nat /\ Len(nodes) >= 1 /\ new \in Nat
  BY DEF Tree, Typed
<1>2. nodes[a] \in NodeType /\ nodes[a].children \in Seq(Nat) /\ u \in Strings /\ Len(u) \in Nat
  BY NodeFacts
<1>3. leaf \in NodeType /\ leaf.path = r /\ leaf.children = <<>>
  BY DEF Node, NodeType, Strings
<1>4. /\ grown \in NodeType /\ grown.path = nodes[a].path /\ grown.handler = nodes[a].handler
      /\ grown.match_type = nodes[a].match_type
      /\ grown.children = Append(nodes[a].children, new)
  <2>1. Append(nodes[a].children, new) \in Seq(Nat)
    BY <1>1, <1>2, AppendProperties
  <2>2. QED BY <1>2, <2>1 DEF NodeType
<1>5. [nodes EXCEPT ![a].children = Append(@, new)] = old
  OBVIOUS
<1>6. p \in Strings /\ Len(u) < Len(p) /\ Under(u, p) /\ p \in Paths /\ Whole(p)
  <2>1. p \in Strings /\ Len(p) = Len(u) + Len(r) /\ Under(u, p) /\ p \in Paths
    BY <1>2, Concatenated
  <2>2. Len(r) \in Nat \ {0}
    BY EmptySeq DEF Strings
  <2>3. Under(p, p) /\ Boundary(p, Len(p))
    BY <2>1, UnderItself, BoundaryAtEnd
  <2> HIDE DEF p, u
  <2>4. Len(u) < Len(p)
    BY <1>2, <2>1, <2>2
  <2>5. QED BY <2>1, <2>3, <2>4 DEF Whole
<1> HIDE DEF leaf, grown
<1>7. /\ old \in Seq(NodeType) /\ Len(old) = Len(nodes) /\ old[a] = grown
      /\ \A n \in 1..Len(nodes) : n # a => old[n] = nodes[n]
  BY <1>1, <1>4, ExceptSeq
<1> HIDE DEF old
<1>8. /\ nd \in Seq(NodeType) /\ Len(nd) = new /\ nd[new] = leaf
      /\ \A n \in 1..Len(nodes) : nd[n] = old[n]
  <2>1. /\ nd \in Seq(NodeType) /\ Len(nd) = Len(old) + 1 /\ nd[Len(old) + 1] = leaf
        /\ \A n \in 1..Len(old) : nd[n] = old[n]
    BY <1>3, <1>7, AppendProperties
  <2>2. QED BY <1>7, <2>1
<1> HIDE DEF nd, p
<1>9. /\ fl \in Seq(Strings) /\ Len(fl) = new /\ fl[new] = p
      /\ \A n \in 1..Len(nodes) : fl[n] = full[n]
  <2>1. /\ fl \in Seq(Strings) /\ Len(fl) = Len(full) + 1 /\ fl[Len(full) + 1] = p
        /\ \A n \in 1..Len(full) : fl[n] = full[n]
    BY <1>1, <1>6, AppendProperties
  <2>2. QED BY <1>1, <2>1
<1> HIDE DEF fl, u
<1>10. /\ \A n \in 1..Len(nodes) : /\ nd[n].path = nodes[n].path
                                   /\ nd[n].handler = nodes[n].handler
                                   /\ nd[n].match_type = nodes[n].match_type
       /\ \A n \in 1..Len(nodes) : n # a => nd[n] = nodes[n]
       /\ nd[a].children = Append(nodes[a].children, new)
       /\ nd[new].path = r /\ nd[new].children = <<>>
  BY <1>3, <1>4, <1>7, <1>8
<1>11. /\ new \notin 1..Len(nodes) /\ new # 1 /\ \A n : n \in 1..new <=> n \in 1..Len(nodes) \/ n = new
  BY <1>1
<1>12. /\ \A n \in 1..Len(nodes) : \A d : n # a => (Child(nd, n, d) <=> Child(nodes, n, d))
       /\ \A d : Child(nd, a, d) <=> Child(nodes, a, d) \/ d = new
       /\ \A d : ~ Child(nd, new, d)
  <2>1. \A n \in 1..Len(nodes) : \A d : n # a => (Child(nd, n, d) <=> Child(nodes, n, d))
    BY <1>10 DEF Child
  <2>2. \A d : ~ Child(nd, new, d)
    BY <1>10 DEF Child
  <2>3. \A d : Child(nd, a, d) <=> Child(nodes, a, d) \/ d = new
    <3> DEFINE s == nodes[a].children
    <3>1. s \in Seq(Nat) /\ nd[a].children = Append(s, new)
      BY <1>2, <1>10
    <3> HIDE DEF s
    <3>2. /\ DOMAIN Append(s, new) = 1..(Len(s) + 1) /\ DOMAIN s = 1..Len(s) /\ Len(s) \in Nat
          /\ \A i \in 1..Len(s) : Append(s, new)[i] = s[i]
          /\ Append(s, new)[Len(s) + 1] = new
      BY <1>1, <3>1, AppendProperties
    <3>3. \A i : i \in 1..(Len(s) + 1) <=> i \in 1..Len(s) \/ i = Len(s) + 1
      BY <3>2
    <3>4. QED BY <3>1, <3>2, <3>3 DEF Child, s
  <2>4. QED BY <2>1, <2>2, <2>3
<1>13. \A n \in 1..Len(nodes) : \A d : Child(nodes, n, d) =>
         d \in 1..Len(nodes) /\ d # 1 /\ full[d] = full[n] \o nodes[d].path
  <2> TAKE n \in 1..Len(nodes)
  <2> TAKE d
  <2> HAVE Child(nodes, n, d)
  <2>1. d \in 1..Len(nodes) /\ d # 1
    BY ChildBelow
  <2>2. full[d] = full[n] \o nodes[d].path
    BY DEF Tree, Linked
  <2>3. QED BY <2>1, <2>2
<1>14. \A n \in 1..Len(nodes) : full[n] \in Strings /\ Whole(full[n]) /\ Len(full[n]) \in Nat
  BY NodeFacts
\* No child of a goes on as p does.
<1>15. ASSUME NEW d, Child(nodes, a, d), NEW l, Agree(full[d], p, l),
              Boundary(full[d], l) \/ Boundary(p, l), Len(u) < l
       PROVE  FALSE
  <2>1. d \in 1..Len(nodes)
    BY <1>13, <1>15
  <2>2. IsPrefix(EdgeChar(nodes[d].path), r)
    BY <1>6, <1>15, <2>1, SharedCharacter DEF u, p
  <2>3. QED BY <1>15, <2>1, <2>2
\* What is below a shares no character with p behind a.
<1>16. ASSUME NEW m \in 1..Len(nodes), m # a, Under(u, full[m]),
              Under(p, full[m]) \/ Under(full[m], p)
       PROVE  FALSE
  <2>1. PICK d : Child(nodes, a, d) /\ Under(full[d], full[m])
    BY <1>16 DEF Tree, Covered, u
  <2>2. d \in 1..Len(nodes) /\ full[d] \in Strings /\ Len(full[d]) \in Nat /\ Len(u) < Len(full[d])
    BY <2>1, ChildBelow DEF u
  <2>3. full[m] \in Strings /\ Len(p) \in Nat
    BY <1>6, <1>14 DEF Strings
  <2>4. CASE Under(full[d], p)
    <3>1. Agree(full[d], p, Len(full[d]))
      BY <1>6, <2>2, <2>4, UnderItself, AgreeOver
    <3>2. Boundary(full[d], Len(full[d]))
      BY <2>2, BoundaryAtEnd
    <3>3. QED BY <1>15, <2>1, <2>2, <3>1, <3>2
  <2>5. CASE Under(p, full[d])
    <3>1. Agree(full[d], p, Len(p))
      BY <1>6, <2>2, <2>5, UnderItself, AgreeOver
    <3>2. Boundary(p, Len(p))
      BY <1>6, BoundaryAtEnd
    <3>3. QED BY <1>6, <1>15, <2>1, <3>1, <3>2
  <2>6. Under(full[d], p) \/ Under(p, full[d])
    <3>1. CASE Under(full[m], p)
      BY <1>6, <2>1, <2>2, <2>3, <3>1, UnderTransitive
    <3>2. CASE Under(p, full[m]) /\ Len(p) <= Len(full[d])
      BY <1>6, <2>1, <2>2, <2>3, <3>2, UnderSame
    <3>3. CASE Under(p, full[m]) /\ Len(full[d]) <= Len(p)
      BY <1>6, <2>1, <2>2, <2>3, <3>3, UnderSame
    <3>4. QED BY <1>16, <2>2, <2>3, <3>1, <3>2, <3>3
  <2>7. QED BY <2>4, <2>5, <2>6
<1>17. ASSUME NEW m \in 1..Len(nodes) PROVE ~ Under(p, full[m])
  <2>1. SUFFICES ASSUME Under(p, full[m]) PROVE FALSE
    OBVIOUS
  <2>2. Under(u, full[m])
    BY <1>2, <1>6, <1>14, <2>1, UnderTransitive
  <2>3. m # a
    <3>1. Len(p) <= Len(full[m]) /\ Len(p) \in Nat
      BY <1>6, <1>14, <2>1, UnderLength
    <3>2. QED BY <1>2, <1>6, <1>14, <3>1 DEF u
  <2>4. QED BY <1>16, <2>1, <2>2, <2>3
<1>18. Typed(nd, fl)
  BY <1>1, <1>8, <1>9 DEF Tree, Typed
<1>19. Linked(nd, fl)
  <2>1. \A n \in 1..Len(nd) : n # 1 => nd[n].path # <<>>
    BY <1>8, <1>10, <1>11 DEF Tree, Linked
  <2>2. ASSUME NEW n \in 1..Len(nd), NEW d, Child(nd, n, d)
        PROVE  d \in 2..Len(nd) /\ fl[d] = fl[n] \o nd[d].path
    <3>1. n \in 1..Len(nodes)
      BY <1>8, <1>11, <1>12, <2>2
    <3>2. CASE Child(nodes, n, d)
      <4>1. d \in 1..Len(nodes) /\ d # 1 /\ full[d] = full[n] \o nodes[d].path
        BY <1>13, <3>1, <3>2
      <4>2. d \in 2..Len(nd)
        BY <1>1, <1>8, <4>1
      <4>3. QED BY <1>9, <1>10, <3>1, <4>1, <4>2
    <3>3. CASE n = a /\ d = new
      <4>1. fl[d] = p /\ p = u \o r /\ fl[n] = u /\ nd[d].path = r
        BY <1>9, <1>10, <3>3 DEF u, p
      <4>2. d \in 2..Len(nd)
        BY <1>1, <1>8, <3>3
      <4>3. QED BY <4>1, <4>2
    <3>4. QED BY <1>12, <2>2, <3>1, <3>2, <3>3
  <2>3. ASSUME NEW n \in 1..Len(nd), NEW i \in DOMAIN nd[n].children,
               NEW j \in DOMAIN nd[n].children, nd[n].children[i] = nd[n].children[j]
        PROVE  i = j
    <3>1. CASE n \in 1..Len(nodes) /\ n # a
      BY <1>10, <2>3, <3>1 DEF Tree, Linked
    <3>2. CASE n = a
      <4> DEFINE s == nodes[a].children
      <4>1. /\ s \in Seq(Nat) /\ nd[a].children = Append(s, new)
            /\ \A x, y \in DOMAIN s : s[x] = s[y] => x = y
        BY <1>2, <1>10 DEF Tree, Linked
      <4>2. \A x \in DOMAIN s : s[x] # new
        <5>1. \A x \in DOMAIN s : Child(nodes, a, s[x])
          BY DEF Child
        <5>2. QED BY <1>11, <1>13, <5>1
      <4> HIDE DEF s
      <4>3. /\ DOMAIN Append(s, new) = 1..(Len(s) + 1) /\ DOMAIN s = 1..Len(s) /\ Len(s) \in Nat
            /\ \A x \in 1..Len(s) : Append(s, new)[x] = s[x]
            /\ Append(s, new)[Len(s) + 1] = new
        BY <1>1, <4>1, AppendProperties
      <4>4. i \in 1..(Len(s) + 1) /\ j \in 1..(Len(s) + 1) /\ Append(s, new)[i] = Append(s, new)[j]
        BY <2>3, <3>2, <4>1, <4>3
      <4>5. (i \in 1..Len(s) \/ i = Len(s) + 1) /\ (j \in 1..Len(s) \/ j = Len(s) + 1)
        BY <4>3, <4>4
      <4>6. QED BY <4>1, <4>2, <4>3, <4>4, <4>5
    <3>3. CASE n = new
      BY <1>10, <2>3, <3>3
    <3>4. QED BY <1>8, <1>11, <3>1, <3>2, <3>3
  <2>4. QED BY <2>1, <2>2, <2>3 DEF Linked
<1>20. Distinct(fl)
  <2>1. \A n \in 1..Len(fl) : Whole(fl[n])
    BY <1>6, <1>9, <1>11, <1>14
  <2>2. \A n \in 1..Len(nodes) : full[n] # p
    BY <1>6, <1>17, UnderItself
  <2>3. \A n, m \in 1..Len(nodes) : full[n] = full[m] => n = m
    BY <1>1 DEF Tree, Distinct
  <2>4. \A n, m \in 1..Len(fl) : fl[n] = fl[m] => n = m
    BY <1>9, <1>11, <2>2, <2>3
  <2>5. QED BY <2>1, <2>4 DEF Distinct
<1>21. Covered(nd, fl)
  <2> SUFFICES ASSUME NEW n \in 1..Len(nd), NEW m \in 1..Len(nd), n # m, Under(fl[n], fl[m])
               PROVE  \E d : Child(nd, n, d) /\ Under(fl[d], fl[m])
    BY DEF Covered
  <2>0. \A x, y \in 1..Len(nodes) : x # y /\ Under(full[x], full[y]) =>
          \E d : Child(nodes, x, d) /\ Under(full[d], full[y])
    BY DEF Tree, Covered
  <2>1. CASE n = new
    <3>1. m \in 1..Len(nodes) /\ Under(p, full[m])
      BY <1>8, <1>9, <1>11, <2>1
    <3>2. QED BY <1>17, <3>1
  <2>2. CASE n \in 1..Len(nodes) /\ m \in 1..Len(nodes)
    <3>1. PICK d : Child(nodes, n, d) /\ Under(full[d], full[m])
      BY <1>9, <2>0, <2>2
    <3>2. Child(nd, n, d) /\ d \in 1..Len(nodes)
      <4>1. d \in 1..Len(nodes)
        BY <1>13, <2>2, <3>1
      <4>2. CASE n = a
        BY <4>1, <1>12, <3>1, <4>2
      <4>3. CASE n # a
        BY <4>1, <1>12, <2>2, <3>1, <4>3
      <4>4. QED BY <4>1, <4>2, <4>3
    <3>3. QED BY <1>9, <2>2, <3>1, <3>2
  <2>3. CASE n = a /\ m = new
    BY <1>6, <1>9, <1>12, <2>3, UnderItself
  <2>4. CASE n \in 1..Len(nodes) /\ n # a /\ m = new
    <3>1. Under(full[n], p) /\ full[n] \in Strings
      BY <1>9, <1>14, <2>4
    <3>2. ~ Under(u, full[n])
      BY <1>16, <2>4, <3>1
    <3>3. Under(full[n], u)
      <4>1. CASE Len(full[n]) <= Len(u)
        BY <1>2, <1>6, <3>1, <4>1, UnderSame
      <4>2. CASE Len(u) <= Len(full[n])
        BY <1>2, <1>6, <3>1, <3>2, <4>2, UnderSame
      <4>3. QED BY <1>2, <1>14, <2>4, <4>1, <4>2
    <3>4. PICK d : Child(nodes, n, d) /\ Under(full[d], u)
      BY <2>0, <2>4, <3>3 DEF u
    <3>5. Child(nd, n, d) /\ d \in 1..Len(nodes)
      BY <1>12, <1>13, <2>4, <3>4
    <3>6. Under(full[d], p)
      BY <1>2, <1>6, <1>14, <3>4, <3>5, UnderTransitive
    <3>7. QED BY <1>9, <2>4, <3>5, <3>6
  <2>5. QED BY <1>8, <1>11, <2>1, <2>2, <2>3, <2>4
<1>22. Apart(nd, fl)
  <2> SUFFICES ASSUME NEW n \in 1..Len(nd), NEW d1, NEW d2, Child(nd, n, d1), Child(nd, n, d2),
                      d1 # d2, NEW l, Agree(fl[d1], fl[d2], l), Boundary(fl[d1], l)
               PROVE  l <= Len(fl[n])
    BY DEF Apart
  <2>1. n \in 1..Len(nodes)
    BY <1>8, <1>11, <1>12
  <2>2. CASE Child(nodes, n, d1) /\ Child(nodes, n, d2)
    <3>1. d1 \in 1..Len(nodes) /\ d2 \in 1..Len(nodes)
      BY <1>13, <2>1, <2>2
    <3>2. Agree(full[d1], full[d2], l) /\ Boundary(full[d1], l)
      BY <1>9, <3>1
    <3>3. l <= Len(full[n])
      BY <2>1, <2>2, <3>2 DEF Tree, Apart
    <3>4. QED BY <1>9, <2>1, <3>3
  <2>3. CASE n = a /\ Child(nodes, a, d1) /\ d2 = new
    <3>1. Agree(full[d1], p, l) /\ Boundary(full[d1], l)
      BY <1>9, <1>13, <2>3
    <3>2. l \in Nat /\ ~ (Len(u) < l)
      BY <1>15, <2>3, <3>1 DEF Agree
    <3>3. fl[n] = u
      BY <1>9, <2>3 DEF u
    <3>4. QED BY <1>2, <3>2, <3>3
  <2>4. CASE n = a /\ Child(nodes, a, d2) /\ d1 = new
    <3>1. Agree(full[d2], p, l) /\ Boundary(p, l)
      BY <1>9, <1>13, <2>4 DEF Agree
    <3>2. l \in Nat /\ ~ (Len(u) < l)
      BY <1>15, <2>4, <3>1 DEF Agree
    <3>3. fl[n] = u
      BY <1>9, <2>4 DEF u
    <3>4. QED BY <1>2, <3>2, <3>3
  <2>5. QED BY <1>12, <2>1, <2>2, <2>3, <2>4
<1>23. Tree(nd, fl)
  BY <1>18, <1>19, <1>20, <1>21, <1>22 DEF Tree
<1>24. QED
  BY <1>1, <1>5, <1>8, <1>9, <1>10, <1>23 DEF nd, fl, leaf, p, u

-------------------------------------------------------------------------------
(* The invariant of the insertions. *)

\* The variables have their types, the root has no location, and handlers are
\* numbers of locations.
Stored ==
  /\ locations \in Seq([path : Paths, match_type : MatchTypes])
  /\ Len(locations) <= MaxLocations
  /\ at \in 1..Len(nodes)
  /\ pc \in {"idle", "insert", "serving", "panicked"}
  /\ nodes[1].handler = 0
  /\ \A n \in 1..Len(nodes) : nodes[n].handler \in 0..Len(locations)

\* insert has come as far as the node it runs on: what is left of the path is
\* what the node's own path leaves of it.
Inserting ==
  pc = "insert" =>
    /\ Len(locations) >= 1
    /\ rest \in Strings /\ rest # <<>>
    /\ full[at] \o rest = current.path

\* A node without location branches, except the one a split has just made, to
\* which a leaf is about to be added.
Branches ==
  pc # "panicked" =>
    \A n \in 2..Len(nodes) :
      nodes[n].handler = 0 =>
        \/ Len(nodes[n].children) >= 2
        \/ pc = "insert" /\ n = at /\ Len(nodes[n].children) = 1 /\ SameEdge = {}

\* The inductive invariant.
IInv == Tree(nodes, full) /\ Stored /\ Inserting /\ Branches

\* The child that insert goes into, and how far its edge and the path agree.
LEMMA ChildFacts ==
  ASSUME IInv, pc = "insert", SameEdge # {}
  PROVE  /\ child \in 2..Len(nodes) /\ Child(nodes, at, child)
         /\ nodes[child].path \in Strings /\ common \in 1..Len(nodes[child].path)
         /\ common \in 1..Len(rest) /\ Agree(nodes[child].path, rest, common)
         /\ common < Len(nodes[child].path) /\ common < Len(rest) =>
              nodes[child].path[common + 1] # rest[common + 1]
<1> DEFINE kids == nodes[at].children
<1>1. /\ Tree(nodes, full) /\ at \in 1..Len(nodes) /\ rest \in Strings /\ rest # <<>>
      /\ kids \in Seq(Nat) /\ DOMAIN kids = 1..Len(kids) /\ Len(kids) \in Nat
  <2>1. Tree(nodes, full) /\ at \in 1..Len(nodes) /\ rest \in Strings /\ rest # <<>>
    BY DEF IInv, Stored, Inserting
  <2>2. QED BY <2>1, NodeFacts
<1>2. SameEdge \in SUBSET Nat
  BY <1>1 DEF SameEdge
<1>3. PICK i \in SameEdge : \A j \in SameEdge : i <= j
  BY <1>2, LeastNumber
<1> DEFINE first == CHOOSE x \in SameEdge : \A j \in SameEdge : x <= j
<1>4. first \in SameEdge
  BY <1>3
<1>5. child = kids[first]
  BY DEF child
<1> HIDE DEF first
<1> DEFINE e == nodes[child].path
<1>6. first \in DOMAIN kids /\ e # <<>> /\ IsPrefix(EdgeChar(e), rest)
  BY <1>4, <1>5 DEF SameEdge
<1>7. Child(nodes, at, child)
  BY <1>5, <1>6 DEF Child
<1>8. child \in 2..Len(nodes) /\ child \in 1..Len(nodes)
  BY <1>1, <1>7, EdgeFacts
<1>9. e \in Strings
  BY <1>1, <1>8, NodeFacts
<1>10. common = calculate_common_prefix_len(e, rest)
  BY DEF common
<1> HIDE DEF e
<1>11. /\ Agree(e, rest, common)
       /\ common < Len(e) /\ common < Len(rest) => e[common + 1] # rest[common + 1]
  BY <1>1, <1>9, <1>10, CommonPrefix
<1>12. Len(e) \in Nat \ {0} /\ Len(rest) \in Nat \ {0}
  BY <1>1, <1>6, <1>9, EmptySeq DEF Strings
<1>13. e[1] = rest[1]
  <2>1. PICK k \in 1..Len(e) : EdgeChar(e) \in Strings /\ Len(EdgeChar(e)) = k /\ Under(EdgeChar(e), e)
    BY <1>6, <1>9, EdgeCharIs
  <2>2. Under(EdgeChar(e), rest)
    BY <1>1, <1>6, <2>1, PrefixIsUnder
  <2>3. 1 \in 1..k
    BY <1>12
  <2>4. QED BY <2>1, <2>2, <2>3 DEF Under, Agree
<1>14. common \in Nat /\ common <= Len(e) /\ common <= Len(rest)
  BY <1>11 DEF Agree
<1>15. common # 0
  BY <1>11, <1>12, <1>13
<1>16. common \in 1..Len(e) /\ common \in 1..Len(rest)
  BY <1>12, <1>14, <1>15
<1>17. QED BY <1>7, <1>8, <1>9, <1>11, <1>16 DEF e

\* The tree insert goes on with: the child's path now ends where the edge and
\* the rest of the location's path part.
LEMMA PreparedFacts ==
  ASSUME IInv, pc = "insert", SameEdge # {}, Boundary(nodes[child].path, common)
  PROVE  /\ Tree(Prepared, PreparedFull)
         /\ Len(Prepared) = IF Splits THEN Len(nodes) + 1 ELSE Len(nodes)
         /\ \A n \in 1..Len(nodes) :
              n # child => Prepared[n] = nodes[n] /\ PreparedFull[n] = full[n]
         /\ PreparedFull[child] = full[at] \o SubSeq(rest, 1, common)
         /\ ~ Splits => Prepared = nodes /\ PreparedFull = full
         /\ Splits =>
              LET new == Len(nodes) + 1
              IN  /\ common < Len(nodes[child].path)
                  /\ Prepared[child].children = <<new>> /\ Prepared[child].handler = 0
                  /\ Prepared[new].path = SubSeq(nodes[child].path, common + 1, Len(nodes[child].path))
                  /\ Prepared[new].children = nodes[child].children
                  /\ Prepared[new].handler = nodes[child].handler
                  /\ Prepared[new].match_type = nodes[child].match_type
                  /\ PreparedFull[new] = full[child]
<1> DEFINE e == nodes[child].path
           c == child
           new == Len(nodes) + 1
<1>1. Tree(nodes, full) /\ at \in 1..Len(nodes) /\ rest \in Strings
  BY DEF IInv, Stored, Inserting
<1>2. /\ c \in 2..Len(nodes) /\ Child(nodes, at, c) /\ e \in Strings
      /\ common \in 1..Len(e) /\ common \in 1..Len(rest) /\ Agree(e, rest, common)
  BY ChildFacts
<1>3. /\ c \in 1..Len(nodes) /\ nodes \in Seq(NodeType) /\ full \in Seq(Strings)
      /\ Len(full) = Len(nodes) /\ Len(nodes) \in Nat /\ Len(e) \in Nat
      /\ full[at] \in Strings /\ full[c] = full[at] \o e
  <2>1. c \in 1..Len(nodes)
    BY <1>1, <1>2, EdgeFacts
  <2>2. full[c] = full[at] \o e
    BY <1>1, <1>2 DEF Tree, Linked
  <2>3. /\ nodes \in Seq(NodeType) /\ full \in Seq(Strings)
        /\ Len(full) = Len(nodes) /\ Len(nodes) \in Nat
    BY <1>1 DEF Tree, Typed
  <2>4. full[at] \in Strings
    BY <1>1, NodeFacts
  <2>5. Len(e) \in Nat
    BY <1>2 DEF Strings
  <2>6. QED BY <2>1, <2>2, <2>3, <2>4, <2>5
<1>4. SubSeq(e, 1, common) = SubSeq(rest, 1, common)
  <2>1. /\ SubSeq(e, 1, common) = [i \in 1..common |-> e[i]]
    BY <1>2, <1>3 DEF Strings
  <2>2. SubSeq(rest, 1, common) = [i \in 1..common |-> rest[i]]
    BY <1>1, <1>2 DEF Strings
  <2>3. \A i \in 1..common : e[i] = rest[i]
    BY <1>2 DEF Agree
  <2>4. QED BY <2>1, <2>2, <2>3
<1>5. CASE Splits
  <2>1. common \in 1..(Len(e) - 1) /\ common < Len(e)
    BY <1>2, <1>3, <1>5 DEF Splits
  <2>2. Prepared = split_child(c, common) /\ PreparedFull = split_full(at, c, common)
    BY <1>4, <1>5 DEF Prepared, PreparedFull, split_full
  <2>3. Tree(Prepared, PreparedFull)
    BY <1>1, <1>2, <2>1, <2>2, SplitTree
  <2>4. /\ Len(Prepared) = new
        /\ \A n \in 1..Len(nodes) : n # c => Prepared[n] = nodes[n]
        /\ Prepared[c].children = <<new>> /\ Prepared[c].handler = 0
        /\ Prepared[new].path = SubSeq(e, common + 1, Len(e))
        /\ Prepared[new].children = nodes[c].children
        /\ Prepared[new].handler = nodes[c].handler /\ Prepared[new].match_type = nodes[c].match_type
    BY <1>1, <1>3, <2>1, <2>2, SplitNodes
  <2>5. /\ \A n \in 1..Len(nodes) : n # c => PreparedFull[n] = full[n]
        /\ PreparedFull[c] = full[at] \o SubSeq(rest, 1, common)
        /\ PreparedFull[new] = full[c]
    <3> DEFINE w == full[at] \o SubSeq(rest, 1, common)
               g == [full EXCEPT ![c] = w]
    <3>0. w \in Strings
      <4>1. SubSeq(rest, 1, common) \in Strings
        <5>1. common \in 0..Len(rest)
          BY <1>2
        <5>2. QED BY <1>1, <5>1, Cut
      <4>2. QED BY <1>3, <4>1, Concatenated
    <3>1. PreparedFull = Append(g, full[c])
      BY <1>5 DEF PreparedFull
    <3> HIDE DEF w
    <3>2. /\ g \in Seq(Strings) /\ Len(g) = Len(nodes) /\ g[c] = w
          /\ \A n \in 1..Len(nodes) : n # c => g[n] = full[n]
      BY <1>3, <3>0, ExceptSeq
    <3> HIDE DEF g
    <3>3. full[c] \in Strings
      BY <1>1, <1>3, NodeFacts
    <3>4. /\ Append(g, full[c])[Len(g) + 1] = full[c]
          /\ \A n \in 1..Len(g) : Append(g, full[c])[n] = g[n]
      BY <3>2, <3>3, AppendProperties
    <3>5. QED BY <1>3, <3>1, <3>2, <3>4 DEF w
  <2>6. QED BY <1>5, <2>1, <2>3, <2>4, <2>5
<1>6. CASE ~ Splits
  <2>1. common = Len(e)
    BY <1>2, <1>3, <1>6 DEF Splits
  <2>2. SubSeq(e, 1, common) = e
    BY <1>2, <2>1, SubSeqFull DEF Strings
  <2>3. Prepared = nodes /\ PreparedFull = full
    BY <1>6 DEF Prepared, PreparedFull
  <2>4. QED BY <1>1, <1>3, <1>4, <1>6, <2>2, <2>3
<1>7. QED BY <1>5, <1>6

\* The path of the location is that of the child and what is left of it then.
LEMMA RestOfPath ==
  ASSUME IInv, pc = "insert", SameEdge # {}, Boundary(nodes[child].path, common)
  PROVE  /\ SubSeq(rest, common + 1, Len(rest)) \in Strings
         /\ Len(SubSeq(rest, common + 1, Len(rest))) = Len(rest) - common
         /\ PreparedFull[child] \o SubSeq(rest, common + 1, Len(rest)) = current.path
         /\ common = Len(rest) => PreparedFull[child] = current.path
<1>1. /\ Tree(nodes, full) /\ at \in 1..Len(nodes) /\ rest \in Strings
      /\ full[at] \o rest = current.path
  BY DEF IInv, Stored, Inserting
<1>2. common \in 1..Len(rest)
  BY ChildFacts
<1> DEFINE u == full[at]
           s == SubSeq(rest, 1, common)
           t == SubSeq(rest, common + 1, Len(rest))
<1>3. common \in 0..Len(rest)
  BY <1>2
<1>4. s \in Strings /\ t \in Strings /\ Len(t) = Len(rest) - common /\ rest = s \o t
  BY <1>1, <1>3, Cut
<1>5. u \in Strings
  BY <1>1, NodeFacts
<1>7. PreparedFull[child] = u \o s
  BY PreparedFacts
<1>8. common = Len(rest) => s = rest
  BY <1>1, SubSeqFull DEF Strings
<1>10. u \o rest = current.path
  BY <1>1
<1> HIDE DEF u, s, t
<1>6. (u \o s) \o t = u \o (s \o t)
  <2>1. u \in Seq(Bytes) /\ s \in Seq(Bytes) /\ t \in Seq(Bytes)
    BY <1>4, <1>5 DEF Strings
  <2>2. QED BY <2>1, ConcatAssociative
<1>9. QED BY <1>4, <1>6, <1>7, <1>8, <1>10 DEF t

\* The empty tree satisfies it.
LEMMA InitInvariant == Init => IInv
<1> SUFFICES ASSUME Init PROVE IInv
  OBVIOUS
<1> DEFINE root == Node(<<>>, "Exact", 0)
<1>1. nodes = <<root>> /\ full = << <<>> >> /\ locations = <<>> /\ at = 1 /\ pc = "idle"
  BY DEF Init
<1>2. /\ root \in NodeType /\ root.path = <<>> /\ root.children = <<>> /\ root.handler = 0
      /\ <<>> \in Strings
  BY DEF Node, NodeType, MatchTypes, Strings
<1> HIDE DEF root
<1>3. /\ nodes \in Seq(NodeType) /\ full \in Seq(Strings) /\ Len(nodes) = 1 /\ Len(full) = 1
      /\ nodes[1] = root /\ full[1] = <<>>
  BY <1>1, <1>2
<1>4. \A n : n \in 1..Len(nodes) <=> n = 1
  BY <1>3
<1>5. \A n \in 1..Len(nodes) : \A c : ~ Child(nodes, n, c)
  BY <1>2, <1>3, <1>4 DEF Child
<1>6. Tree(nodes, full)
  <2>1. Typed(nodes, full) /\ Distinct(full)
    BY <1>3, <1>4 DEF Typed, Distinct, Whole
  <2>2. Linked(nodes, full)
    <3>1. \A n \in 1..Len(nodes) : DOMAIN nodes[n].children = {}
      BY <1>2, <1>3, <1>4
    <3>2. QED BY <1>4, <1>5, <3>1 DEF Linked
  <2>3. Covered(nodes, full) /\ Apart(nodes, full)
    BY <1>4, <1>5 DEF Covered, Apart
  <2>4. QED BY <2>1, <2>2, <2>3 DEF Tree
<1>7. Stored
  BY <1>1, <1>2, <1>3, <1>4, StringsAssumption DEF Stored
<1>8. Inserting /\ Branches
  BY <1>1, <1>3 DEF Inserting, Branches
<1>9. QED BY <1>6, <1>7, <1>8 DEF IInv

\* It holds when insert is called for the next location.
LEMMA BeginInvariant ==
  ASSUME NoEmptyPath, IInv, NEW p \in Paths, NEW ty \in MatchTypes, BeginInsert(p, ty)
  PROVE  IInv'
<1> DEFINE L == [path : Paths, match_type : MatchTypes]
           loc == [path |-> p, match_type |-> ty]
<1>1. /\ pc = "idle" /\ Len(locations) < MaxLocations /\ locations' = Append(locations, loc)
      /\ at' = 1 /\ rest' = p /\ pc' = "insert" /\ nodes' = nodes /\ full' = full
  BY DEF BeginInsert
<1>2. /\ Tree(nodes, full) /\ locations \in Seq(L) /\ nodes[1].handler = 0
      /\ \A n \in 1..Len(nodes) : nodes[n].handler \in 0..Len(locations)
  BY DEF IInv, Stored
<1>3. loc \in L
  OBVIOUS
<1>4. /\ locations' \in Seq(L) /\ Len(locations') = Len(locations) + 1
      /\ locations'[Len(locations) + 1] = loc
  <2> HIDE DEF loc, L
  <2>1. QED BY <1>1, <1>2, <1>3, AppendProperties
<1>5. Len(locations) \in Nat /\ MaxLocations \in Nat /\ Len(nodes) \in Nat /\ Len(nodes) >= 1
  BY <1>2, StringsAssumption DEF Tree, Typed
<1>6. Tree(nodes, full)'
  BY <1>1, <1>2
<1>7. Stored'
  <2>1. \A n \in 1..Len(nodes) : nodes[n].handler \in 0..Len(locations')
    BY <1>2, <1>4, <1>5
  <2>2. QED BY <1>1, <1>2, <1>4, <1>5, <2>1 DEF Stored
<1>8. Inserting'
  <2>1. p \in Strings /\ p # <<>>
    BY StringsAssumption DEF NoEmptyPath, Strings
  <2>2. full[1] = <<>> /\ <<>> \o p = p
    BY <1>2, <2>1 DEF Tree, Typed, Strings
  <2>3. locations'[Len(locations')].path = p
    BY <1>4
  <2>4. QED BY <1>1, <1>4, <1>5, <2>1, <2>2, <2>3 DEF Inserting, current
<1>9. Branches'
  BY <1>1 DEF IInv, Branches
<1>10. QED BY <1>6, <1>7, <1>8, <1>9 DEF IInv

\* The location being inserted is one of the configuration.
LEMMA CurrentFacts ==
  ASSUME Stored, Len(locations) >= 1
  PROVE  /\ Len(locations) \in Nat /\ current \in [path : Paths, match_type : MatchTypes]
         /\ current.path \in Paths /\ current.match_type \in MatchTypes
<1> DEFINE L == [path : Paths, match_type : MatchTypes]
<1>1. locations \in Seq(L)
  BY DEF Stored
<1> HIDE DEF L
<1>2. Len(locations) \in Nat /\ Len(locations) \in 1..Len(locations)
  BY <1>1, LenProperties
<1>3. current \in L
  BY <1>1, <1>2 DEF current
<1>4. QED BY <1>2, <1>3 DEF L

\* What pushing a leaf does to the tree.
LEMMA PushFacts ==
  ASSUME IInv, PushChild
  PROVE  LET new == Len(nodes) + 1
         IN  /\ Tree(nodes', full')
             /\ Len(nodes') = new /\ Len(full') = new /\ new \in Nat
             /\ \A n \in 1..Len(nodes) : n # at => nodes'[n] = nodes[n]
             /\ \A n \in 1..Len(nodes) : /\ full'[n] = full[n]
                                         /\ nodes'[n].handler = nodes[n].handler
                                         /\ nodes'[n].match_type = nodes[n].match_type
             /\ nodes'[at].children = Append(nodes[at].children, new)
             /\ nodes'[new] = Node(rest, current.match_type, Len(locations))
             /\ full'[new] = current.path
<1>1. /\ Tree(nodes, full) /\ at \in 1..Len(nodes) /\ rest \in Strings /\ rest # <<>>
      /\ full[at] \o rest = current.path /\ Len(locations) >= 1
      /\ locations \in Seq([path : Paths, match_type : MatchTypes])
      /\ pc = "insert" /\ SameEdge = {}
  BY DEF IInv, Stored, Inserting, PushChild
<1>3. current.path \in Paths /\ current.match_type \in MatchTypes /\ Len(locations) \in Nat
  BY <1>1, CurrentFacts DEF IInv
<1>4. ASSUME NEW c \in 1..Len(nodes), Child(nodes, at, c)
      PROVE  ~ IsPrefix(EdgeChar(nodes[c].path), rest)
  <2>1. PICK i \in DOMAIN nodes[at].children : nodes[at].children[i] = c
    BY <1>4 DEF Child
  <2>2. nodes[c].path # <<>>
    <3>1. c # 1
      BY <1>1, <1>4, ChildBelow
    <3>2. QED BY <1>1, <3>1 DEF Tree, Linked
  <2>3. i \notin SameEdge
    BY <1>1
  <2>4. QED BY <2>1, <2>2, <2>3 DEF SameEdge
<1> DEFINE nd == Append([nodes EXCEPT ![at].children = Append(@, Len(nodes) + 1)],
                       Node(rest, current.match_type, Len(locations)))
           fl == Append(full, full[at] \o rest)
           new == Len(nodes) + 1
<1>5. nodes' = nd /\ full' = fl
  BY DEF PushChild
<1>6. /\ Tree(nd, fl)
      /\ Len(nd) = new /\ Len(fl) = new /\ new \in Nat
      /\ \A n \in 1..Len(nodes) : n # at => nd[n] = nodes[n]
      /\ \A n \in 1..Len(nodes) : /\ fl[n] = full[n]
                                  /\ nd[n].handler = nodes[n].handler
                                  /\ nd[n].match_type = nodes[n].match_type
      /\ nd[at].children = Append(nodes[at].children, new)
      /\ nd[new] = Node(rest, current.match_type, Len(locations))
      /\ fl[new] = full[at] \o rest
  <2>1. full[at] \o rest \in Paths
    BY <1>1, <1>3
  <2>2. QED BY <1>1, <1>3, <1>4, <2>1, PushTree
<1> HIDE DEF nd, fl
<1>7. QED BY <1>1, <1>5, <1>6

\* It holds when a leaf is pushed.
LEMMA PushInvariant ==
  ASSUME IInv, PushChild
  PROVE  IInv'
<1> DEFINE new == Len(nodes) + 1
<1>1. /\ Tree(nodes, full) /\ at \in 1..Len(nodes) /\ Len(locations) >= 1
      /\ locations \in Seq([path : Paths, match_type : MatchTypes])
      /\ nodes[1].handler = 0 /\ Len(locations) <= MaxLocations
      /\ \A n \in 1..Len(nodes) : nodes[n].handler \in 0..Len(locations)
      /\ pc = "insert" /\ pc' = "idle" /\ locations' = locations /\ at' = at /\ rest' = rest
  BY DEF IInv, Stored, Inserting, PushChild
<1>2. /\ Tree(nodes', full') /\ Len(nodes') = new /\ new \in Nat
      /\ \A n \in 1..Len(nodes) : n # at => nodes'[n] = nodes[n]
      /\ \A n \in 1..Len(nodes) : nodes'[n].handler = nodes[n].handler
      /\ nodes'[at].children = Append(nodes[at].children, new)
      /\ nodes'[new].handler = Len(locations)
  BY PushFacts DEF Node
<1>3. Len(locations) \in Nat /\ Len(nodes) \in Nat /\ Len(nodes) >= 1
  BY <1>1 DEF Tree, Typed
<1>4. \A n : n \in 1..Len(nodes') <=> n \in 1..Len(nodes) \/ n = new
  BY <1>2, <1>3
<1>5. Stored'
  <2>1. \A n \in 1..Len(nodes') : nodes'[n].handler \in 0..Len(locations)
    BY <1>1, <1>2, <1>3, <1>4
  <2>2. nodes'[1].handler = 0 /\ at \in 1..Len(nodes')
    BY <1>1, <1>2, <1>3, <1>4
  <2>3. QED BY <1>1, <2>1, <2>2 DEF Stored
<1>6. Inserting'
  BY <1>1 DEF Inserting
<1>7. Branches'
  <2> SUFFICES ASSUME NEW n \in 2..Len(nodes'), nodes'[n].handler = 0
               PROVE  Len(nodes'[n].children) >= 2
    BY DEF Branches
  <2>1. n \in 1..Len(nodes) /\ n \in 2..Len(nodes) /\ nodes[n].handler = 0
    BY <1>1, <1>2, <1>3, <1>4
  <2>2. CASE n # at
    BY <1>1, <1>2, <2>1, <2>2 DEF IInv, Branches
  <2>3. CASE n = at
    <3>1. nodes[n].children \in Seq(Nat)
      BY <1>1, <2>1, NodeFacts
    <3>2. Len(nodes[n].children) >= 2 \/ Len(nodes[n].children) = 1
      BY <1>1, <2>1 DEF IInv, Branches
    <3>3. Len(nodes'[n].children) = Len(nodes[n].children) + 1
      BY <1>2, <2>3, <3>1, AppendProperties
    <3> DEFINE k == Len(nodes[n].children)
               l == Len(nodes'[n].children)
    <3>4. (k >= 2 \/ k = 1) /\ l = k + 1
      BY <3>2, <3>3
    <3>5. k \in Nat
      BY <3>1, LenProperties
    <3> HIDE DEF k, l
    <3>6. l >= 2
      BY <3>4, <3>5
    <3>7. QED BY <3>6 DEF l
  <2>4. QED BY <2>2, <2>3
<1>8. QED BY <1>2, <1>5, <1>6, <1>7 DEF IInv

\* What making the child a location's node does to the tree.
LEMMA HandlerFacts ==
  ASSUME IInv, SetHandler
  PROVE  /\ Tree(nodes', full') /\ full' = PreparedFull
         /\ Len(nodes') = Len(Prepared) /\ child \in 1..Len(Prepared)
         /\ \A n \in 1..Len(Prepared) : n # child => nodes'[n] = Prepared[n]
         /\ nodes'[child].handler = Len(locations)
         /\ nodes'[child].match_type = current.match_type
         /\ nodes'[child].children = Prepared[child].children
         /\ full'[child] = current.path
<1>1. /\ pc = "insert" /\ SameEdge # {} /\ Boundary(nodes[child].path, common)
      /\ common = Len(rest)
      /\ nodes' = [Prepared EXCEPT ![child].handler = Len(locations),
                                   ![child].match_type = current.match_type]
      /\ full' = PreparedFull
  BY DEF SetHandler
<1>2. /\ Stored /\ Len(locations) >= 1
  BY <1>1 DEF IInv, Inserting
<1>3. /\ Tree(Prepared, PreparedFull) /\ PreparedFull[child] = current.path
      /\ Len(Prepared) = IF Splits THEN Len(nodes) + 1 ELSE Len(nodes)
  BY <1>1, PreparedFacts, RestOfPath
<1>4. child \in 1..Len(Prepared)
  <2>1. child \in 2..Len(nodes) /\ Len(nodes) \in Nat
    BY <1>1, ChildFacts DEF IInv, Tree, Typed
  <2>2. QED BY <1>3, <2>1
<1> DEFINE P == Prepared
           c == child
           h == Len(locations)
           ty == current.match_type
           own == [[P[c] EXCEPT !.handler = h] EXCEPT !.match_type = ty]
<1>5. h \in Nat /\ ty \in MatchTypes
  BY <1>2, CurrentFacts
<1>6. P \in Seq(NodeType) /\ P[c] \in NodeType
  BY <1>3, <1>4 DEF Tree, Typed
<1>7. nodes' = [P EXCEPT ![c].handler = h, ![c].match_type = ty] /\ Tree(P, PreparedFull)
      /\ c \in 1..Len(P)
  BY <1>1, <1>3, <1>4
<1> HIDE DEF P, c, h, ty
<1>8. /\ own \in NodeType /\ own.handler = h /\ own.match_type = ty
      /\ own.path = P[c].path /\ own.children = P[c].children
  BY <1>5, <1>6 DEF NodeType
<1> DEFINE set == [P EXCEPT ![c] = own]
<1>9. nodes' = set
  BY <1>6, <1>7
<1> HIDE DEF own
<1>14. /\ set \in Seq(NodeType) /\ Len(set) = Len(P) /\ set[c] = own
       /\ \A n \in 1..Len(P) : n # c => set[n] = P[n]
  BY <1>6, <1>7, <1>8, ExceptSeq
<1> HIDE DEF set
<1>10. /\ nodes' \in Seq(NodeType) /\ Len(nodes') = Len(P) /\ nodes'[c] = own
       /\ \A n \in 1..Len(P) : n # c => nodes'[n] = P[n]
  BY <1>9, <1>14
<1>11. \A n \in 1..Len(P) : nodes'[n].path = P[n].path /\ nodes'[n].children = P[n].children
  BY <1>8, <1>10
<1>12. Tree(nodes', PreparedFull)
  BY <1>7, <1>10, <1>11, SameTree
<1>13. QED
  BY <1>1, <1>3, <1>4, <1>8, <1>10, <1>12 DEF P, c, h, ty

\* Where a node without location has fewer than two children once the child is
\* prepared: at the child, if it was split.
LEMMA PreparedBranches ==
  ASSUME IInv, pc = "insert", SameEdge # {}, Boundary(nodes[child].path, common),
         NEW n \in 2..Len(Prepared), Prepared[n].handler = 0
  PROVE  Len(Prepared[n].children) >= 2 \/ (n = child /\ Splits)
<1>1. \A m \in 2..Len(nodes) : nodes[m].handler = 0 => Len(nodes[m].children) >= 2
  BY DEF IInv, Branches
<1>2. child \in 2..Len(nodes) /\ Len(nodes) \in Nat
  BY ChildFacts DEF IInv, Tree, Typed
<1>3. CASE ~ Splits
  <2>1. Prepared = nodes
    BY <1>3, PreparedFacts
  <2>2. QED BY <1>1, <2>1
<1>4. CASE Splits
  <2>1. /\ Len(Prepared) = Len(nodes) + 1
        /\ \A m \in 1..Len(nodes) : m # child => Prepared[m] = nodes[m]
        /\ Prepared[Len(nodes) + 1].children = nodes[child].children
        /\ Prepared[Len(nodes) + 1].handler = nodes[child].handler
    BY <1>4, PreparedFacts
  <2>2. n \in 2..Len(nodes) \/ n = Len(nodes) + 1
    BY <1>2, <2>1
  <2>3. CASE n = Len(nodes) + 1
    <3>1. nodes[child].handler = 0 /\ Prepared[n].children = nodes[child].children
      BY <2>1, <2>3
    <3>2. QED BY <1>1, <1>2, <3>1
  <2>4. CASE n \in 2..Len(nodes) /\ n # child
    <3>1. Prepared[n] = nodes[n]
      BY <1>2, <2>1, <2>4
    <3>2. QED BY <1>1, <2>4, <3>1
  <2>5. QED BY <1>4, <2>2, <2>3, <2>4
<1>5. QED BY <1>3, <1>4

\* The handlers of the nodes once the child is prepared.
LEMMA PreparedHandlers ==
  ASSUME IInv, pc = "insert", SameEdge # {}, Boundary(nodes[child].path, common)
  PROVE  /\ Prepared[1].handler = 0
         /\ \A n \in 1..Len(Prepared) : Prepared[n].handler \in 0..Len(locations)
<1>1. /\ nodes[1].handler = 0 /\ Len(locations) \in Nat
      /\ \A n \in 1..Len(nodes) : nodes[n].handler \in 0..Len(locations)
  BY CurrentFacts DEF IInv, Stored, Inserting
<1>2. child \in 2..Len(nodes) /\ Len(nodes) \in Nat
  BY ChildFacts DEF IInv, Tree, Typed
<1>3. CASE ~ Splits
  BY <1>1, <1>3, PreparedFacts
<1>4. CASE Splits
  <2>1. /\ Len(Prepared) = Len(nodes) + 1
        /\ \A m \in 1..Len(nodes) : m # child => Prepared[m] = nodes[m]
        /\ Prepared[child].handler = 0
        /\ Prepared[Len(nodes) + 1].handler = nodes[child].handler
    BY <1>4, PreparedFacts
  <2>2. \A n \in 1..Len(Prepared) : n \in 1..Len(nodes) \/ n = Len(nodes) + 1
    BY <1>2, <2>1
  <2>3. child \in 1..Len(nodes) /\ 1 \in 1..Len(nodes) /\ child # 1
    BY <1>2
  <2>4. QED BY <1>1, <2>1, <2>2, <2>3
<1>5. QED BY <1>3, <1>4

\* It holds when the child becomes the location's node.
LEMMA HandlerInvariant ==
  ASSUME IInv, SetHandler
  PROVE  IInv'
<1>1. /\ pc = "insert" /\ SameEdge # {} /\ Boundary(nodes[child].path, common)
      /\ pc' = "idle" /\ locations' = locations /\ at' = at /\ rest' = rest
  BY DEF SetHandler
<1>2. /\ Tree(nodes', full') /\ Len(nodes') = Len(Prepared) /\ child \in 1..Len(Prepared)
      /\ \A n \in 1..Len(Prepared) : n # child => nodes'[n] = Prepared[n]
      /\ nodes'[child].handler = Len(locations)
  BY HandlerFacts
<1>3. Len(locations) \in Nat /\ Len(locations) >= 1
  BY <1>1, CurrentFacts DEF IInv, Inserting
<1>4. child # 1 /\ at \in 1..Len(Prepared) /\ 1 \in 1..Len(Prepared)
  <2>1. child \in 2..Len(nodes) /\ Len(nodes) \in Nat /\ at \in 1..Len(nodes)
    BY <1>1, ChildFacts DEF IInv, Tree, Typed, Stored
  <2>2. Len(Prepared) = IF Splits THEN Len(nodes) + 1 ELSE Len(nodes)
    BY <1>1, PreparedFacts
  <2>3. QED BY <2>1, <2>2
<1>5. Stored'
  <2>1. /\ Prepared[1].handler = 0
        /\ \A n \in 1..Len(Prepared) : Prepared[n].handler \in 0..Len(locations)
    BY <1>1, PreparedHandlers
  <2>2. \A n \in 1..Len(nodes') : nodes'[n].handler \in 0..Len(locations)
    BY <1>2, <1>3, <2>1
  <2>3. nodes'[1].handler = 0
    BY <1>2, <1>4, <2>1
  <2>4. QED BY <1>1, <1>2, <1>4, <2>2, <2>3 DEF Stored, IInv
<1>6. Inserting'
  BY <1>1 DEF Inserting
<1>7. Branches'
  <2> SUFFICES ASSUME NEW n \in 2..Len(nodes'), nodes'[n].handler = 0
               PROVE  Len(nodes'[n].children) >= 2
    BY DEF Branches
  <2>1. n # child
    BY <1>2, <1>3
  <2>2. n \in 2..Len(Prepared) /\ n \in 1..Len(Prepared)
    BY <1>2
  <2>3. nodes'[n] = Prepared[n]
    BY <1>2, <2>1, <2>2
  <2>4. QED BY <1>1, <2>1, <2>2, <2>3, PreparedBranches
<1>8. QED BY <1>2, <1>5, <1>6, <1>7 DEF IInv

\* It holds when insert goes into the child, split or not.
LEMMA DescendInvariant ==
  ASSUME IInv, Descend
  PROVE  IInv'
<1> DEFINE left == SubSeq(rest, common + 1, Len(rest))
           new == Len(nodes) + 1
           e == nodes[child].path
<1>1. /\ pc = "insert" /\ SameEdge # {} /\ Boundary(nodes[child].path, common)
      /\ common < Len(rest)
      /\ nodes' = Prepared /\ full' = PreparedFull /\ at' = child /\ rest' = left
      /\ pc' = pc /\ locations' = locations
  BY DEF Descend
<1>2. /\ Tree(nodes', full')
      /\ Len(nodes') = IF Splits THEN Len(nodes) + 1 ELSE Len(nodes)
  BY <1>1, PreparedFacts
<1>3. /\ child \in 2..Len(nodes) /\ Len(nodes) \in Nat /\ e \in Strings
      /\ rest \in Strings /\ common \in 1..Len(rest) /\ common \in 1..Len(e)
      /\ common < Len(e) /\ common < Len(rest) => e[common + 1] # rest[common + 1]
  BY <1>1, ChildFacts DEF IInv, Tree, Typed, Inserting
<1>4. child \in 1..Len(nodes')
  BY <1>2, <1>3
<1>5. Stored'
  <2>1. /\ Prepared[1].handler = 0
        /\ \A n \in 1..Len(Prepared) : Prepared[n].handler \in 0..Len(locations)
    BY <1>1, PreparedHandlers
  <2>2. QED BY <1>1, <1>4, <2>1 DEF Stored, IInv
<1>6. left \in Strings /\ Len(left) = Len(rest) - common /\ full'[child] \o left = current.path
  BY <1>1, RestOfPath
<1>7. left # <<>> /\ \A i \in 1..Len(left) : left[i] = rest[common + i]
  <2>1. common \in 0..Len(rest) /\ Len(rest) \in Nat
    BY <1>3 DEF Strings
  <2>2. Len(left) # 0
    BY <1>1, <1>3, <1>6, <2>1
  <2>3. \A i \in 1..(Len(rest) - common) : left[i] = rest[common + i]
    BY <1>3, <2>1, Cut
  <2> HIDE DEF left
  <2>4. QED BY <1>6, <2>2, <2>3
<1> HIDE DEF left
<1>8. Inserting'
  BY <1>1, <1>6, <1>7 DEF Inserting, IInv, current
\* A new child of a split edge does not go on as the location's path does.
<1>9. ASSUME Splits PROVE Len(nodes'[child].children) = 1 /\ SameEdge' = {}
  <2> DEFINE tail == SubSeq(e, common + 1, Len(e))
  <2>1. /\ common < Len(e) /\ nodes'[child].children = <<new>> /\ nodes'[new].path = tail
    BY <1>1, <1>9, PreparedFacts
  <2>2. /\ tail \in Strings /\ Len(tail) = Len(e) - common
        /\ \A i \in 1..(Len(e) - common) : tail[i] = e[common + i]
    <3>1. common \in 0..Len(e) /\ Len(e) \in Nat
      BY <1>3 DEF Strings
    <3>2. QED BY <1>3, <3>1, Cut
  <2>3. common \in Nat /\ Len(e) \in Nat /\ Len(rest) \in Nat
    BY <1>3 DEF Strings
  <2>4. tail[1] = e[common + 1] /\ left[1] = rest[common + 1] /\ Len(tail) # 0
    <3>1. 1 \in 1..(Len(e) - common) /\ 1 \in 1..Len(left) /\ Len(e) - common # 0
      BY <1>1, <1>6, <2>1, <2>3
    <3>2. QED BY <1>7, <2>2, <3>1
  <2>5. tail[1] # left[1]
    BY <1>1, <1>3, <2>1, <2>4
  <2> HIDE DEF tail
  <2>6. tail # <<>>
    BY <2>4
  <2>7. ~ IsPrefix(EdgeChar(tail), left)
    <3>1. PICK k \in 1..Len(tail) :
            EdgeChar(tail) \in Strings /\ Len(EdgeChar(tail)) = k /\ Under(EdgeChar(tail), tail)
      BY <2>2, <2>6, EdgeCharIs
    <3>2. SUFFICES ASSUME Under(EdgeChar(tail), left) PROVE FALSE
      BY <1>6, <3>1, PrefixIsUnder
    <3>3. 1 \in 1..k
      BY <3>1
    <3>4. QED BY <2>5, <3>1, <3>2, <3>3 DEF Under, Agree
  <2>8. \A i \in DOMAIN nodes'[at'].children : nodes'[nodes'[at'].children[i]].path = tail
    BY <1>1, <2>1
  <2>9. SameEdge' = {}
    BY <1>1, <2>7, <2>8 DEF SameEdge
  <2>10. QED BY <2>1, <2>9
<1>10. Branches'
  <2> SUFFICES ASSUME NEW n \in 2..Len(nodes'), nodes'[n].handler = 0
               PROVE  \/ Len(nodes'[n].children) >= 2
                      \/ n = child /\ Len(nodes'[n].children) = 1 /\ SameEdge' = {}
    BY <1>1 DEF Branches
  <2>1. Len(nodes'[n].children) >= 2 \/ (n = child /\ Splits)
    BY <1>1, PreparedBranches
  <2>2. QED BY <1>9, <2>1
<1>11. QED BY <1>2, <1>5, <1>8, <1>10 DEF IInv

\* Every step keeps the invariant.
LEMMA StepInvariant == NoEmptyPath /\ IInv /\ [Next]_vars => IInv'
<1> SUFFICES ASSUME NoEmptyPath, IInv, [Next]_vars PROVE IInv'
  OBVIOUS
<1>1. ASSUME NEW p \in Paths, NEW ty \in MatchTypes, BeginInsert(p, ty) PROVE IInv'
  BY <1>1, BeginInvariant
<1>2. CASE PushChild
  BY <1>2, PushInvariant
<1>3. CASE SplitPanics
  BY <1>3 DEF SplitPanics, IInv, Stored, Inserting, Branches
<1>4. CASE SetHandler
  BY <1>4, HandlerInvariant
<1>5. CASE Descend
  BY <1>5, DescendInvariant
<1>6. CASE Finish
  BY <1>6 DEF Finish, IInv, Stored, Inserting, Branches
<1>7. CASE UNCHANGED vars
  BY <1>7 DEF vars, IInv, Stored, Inserting, Branches, SameEdge, current
<1>8. QED BY <1>1, <1>2, <1>3, <1>4, <1>5, <1>6, <1>7 DEF Next

\* What every state of the router satisfies: its nodes are a tree over the
\* paths of the locations, insert runs where the location's path has led it,
\* and nodes without location branch.
THEOREM Invariant == NoEmptyPath /\ Spec => []IInv
<1>1. ASSUME NoEmptyPath PROVE Spec => []IInv
  <2>1. Init => IInv
    BY InitInvariant
  <2>2. IInv /\ [Next]_vars => IInv'
    BY <1>1, StepInvariant
  <2>3. QED BY <2>1, <2>2, PTL DEF Spec
<1>2. QED BY <1>1

\* The types follow from it.
LEMMA InvariantTypes == IInv => TypeOK
<1> SUFFICES ASSUME IInv PROVE TypeOK
  OBVIOUS
<1>1. Tree(nodes, full) /\ Stored
  BY DEF IInv
<1>2. nodes \in Seq(NodeType) /\ Len(full) = Len(nodes) /\ DOMAIN nodes = 1..Len(nodes)
  BY <1>1 DEF Tree, Typed
<1>3. ASSUME NEW n \in DOMAIN nodes
      PROVE  /\ nodes[n].match_type \in MatchTypes
             /\ nodes[n].handler \in 0..Len(locations)
             /\ ToSet(nodes[n].children) \subseteq 2..Len(nodes)
  <2>1. n \in 1..Len(nodes) /\ nodes[n] \in NodeType
    BY <1>2
  <2>2. \A i \in DOMAIN nodes[n].children : nodes[n].children[i] \in 2..Len(nodes)
    <3> TAKE i \in DOMAIN nodes[n].children
    <3>1. Child(nodes, n, nodes[n].children[i])
      BY DEF Child
    <3>2. QED BY <1>1, <2>1, <3>1, EdgeFacts
  <2>3. nodes[n].match_type \in MatchTypes
    BY <2>1 DEF NodeType
  <2>4. QED BY <1>1, <2>1, <2>2, <2>3 DEF Stored, ToSet
<1>4. QED BY <1>1, <1>2, <1>3 DEF Stored, TypeOK

\* The nodes of the tree, the locations and the place of insert have their
\* types at all times.
THEOREM TypeCorrect == NoEmptyPath /\ Spec => []TypeOK
<1>1. QED BY Invariant, InvariantTypes, PTL

\* Two edges of a node that begin with the same character are one.
LEMMA EdgesDiffer ==
  ASSUME NEW nd, NEW fl, Tree(nd, fl), NEW n \in 1..Len(nd),
         NEW c, Child(nd, n, c), NEW d, Child(nd, n, d),
         EdgeChar(nd[c].path) = EdgeChar(nd[d].path)
  PROVE  c = d
<1> DEFINE u == fl[n]
           e == nd[c].path
           g == nd[d].path
<1>1. c \in 1..Len(nd) /\ d \in 1..Len(nd) /\ e # <<>> /\ g # <<>>
  <2>1. c \in 1..Len(nd) /\ d \in 1..Len(nd) /\ c # 1 /\ d # 1
    BY ChildBelow
  <2>2. QED BY <2>1 DEF Tree, Linked
<1>2. u \in Strings /\ e \in Strings /\ g \in Strings /\ Len(u) \in Nat
  BY <1>1, NodeFacts
<1>3. fl[c] = u \o e /\ fl[d] = u \o g
  BY DEF Tree, Linked
<1>4. \A k \in 1..Len(e) : Boundary(e, k) <=> Boundary(fl[c], Len(u) + k)
  BY EdgeFacts
<1>5. EdgeChar(e) = EdgeChar(g)
  OBVIOUS
<1> HIDE DEF u, e, g
<1>6. PICK k \in 1..Len(e) :
        /\ EdgeChar(e) \in Strings /\ Len(EdgeChar(e)) = k /\ Under(EdgeChar(e), e)
        /\ Boundary(e, k)
  BY <1>1, <1>2, EdgeCharIs
<1>7. PICK l \in 1..Len(g) : Len(EdgeChar(g)) = l /\ Under(EdgeChar(g), g)
  BY <1>1, <1>2, EdgeCharIs
<1>8. Agree(e, g, k)
  <2>1. Under(EdgeChar(e), e) /\ Under(EdgeChar(e), g)
    BY <1>5, <1>6, <1>7
  <2>2. Agree(e, g, Len(EdgeChar(e)))
    BY <1>2, <1>6, <2>1, AgreeOver
  <2>3. QED BY <1>6, <2>2
<1>9. k \in Nat /\ k > 0
  BY <1>6
<1>10. Agree(fl[c], fl[d], Len(u) + k)
  BY <1>2, <1>3, <1>8, <1>9, AgreeBehind
<1>11. Boundary(fl[c], Len(u) + k) /\ Len(u) + k > Len(u)
  BY <1>2, <1>4, <1>6, <1>9
<1> DEFINE l2 == Len(u) + k
<1>12. Agree(fl[c], fl[d], l2) /\ Boundary(fl[c], l2) /\ l2 > Len(fl[n])
  BY <1>10, <1>11 DEF u
<1> HIDE DEF l2
<1>13. QED BY <1>12, OneChild

\* So does the shape of the tree.
LEMMA InvariantShape == IInv => RadixShape
<1> SUFFICES ASSUME IInv, pc \in {"idle", "serving"}, NEW n \in DOMAIN nodes
             PROVE  LET kids == nodes[n].children
                    IN  /\ n # 1 => nodes[n].path # <<>>
                        /\ n # 1 /\ nodes[n].handler = 0 => Len(kids) >= 2
                        /\ \A i, j \in DOMAIN kids :
                             EdgeChar(nodes[kids[i]].path) = EdgeChar(nodes[kids[j]].path) => i = j
  BY DEF RadixShape
<1>1. Tree(nodes, full) /\ n \in 1..Len(nodes) /\ Len(nodes) \in Nat
  BY DEF IInv, Tree, Typed
<1>2. n # 1 => nodes[n].path # <<>>
  BY <1>1 DEF Tree, Linked
<1>3. n # 1 /\ nodes[n].handler = 0 => Len(nodes[n].children) >= 2
  <2>1. n # 1 => n \in 2..Len(nodes)
    BY <1>1
  <2>2. QED BY <2>1 DEF IInv, Branches
<1>4. ASSUME NEW i \in DOMAIN nodes[n].children, NEW j \in DOMAIN nodes[n].children,
             EdgeChar(nodes[nodes[n].children[i]].path) = EdgeChar(nodes[nodes[n].children[j]].path)
      PROVE  i = j
  <2>1. Child(nodes, n, nodes[n].children[i]) /\ Child(nodes, n, nodes[n].children[j])
    BY DEF Child
  <2>2. nodes[n].children[i] = nodes[n].children[j]
    BY <1>1, <1>4, <2>1, EdgesDiffer
  <2>3. QED BY <1>1, <2>2 DEF Tree, Linked
<1>5. QED BY <1>2, <1>3, <1>4

\* Between insertions edges are not empty, the edges of a node differ in their
\* first character, and a node without location has at least two children: no
\* order of the locations, and no split, leaves the tree otherwise.
THEOREM RadixTree == NoEmptyPath /\ Spec => []RadixShape
<1>1. QED BY Invariant, InvariantShape, PTL

-------------------------------------------------------------------------------
(* The tree implements the table. *)

\* What RouteTable sees of the router: the entry of a node, the table, the
\* locations registered, and the phase.
Entry(nd, fl, n) == [path |-> fl[n], match_type |-> nd[n].match_type, handler |-> nd[n].handler]
Table(nd, fl) == {Entry(nd, fl, n) : n \in {m \in DOMAIN nd : nd[m].handler # 0}}
Registered == IF pc \in {"insert", "panicked"} THEN Front(locations) ELSE locations
Phase == IF pc \in {"idle", "insert"} THEN "building" ELSE pc

\* The entries of a table are those of the nodes with a location.
LEMMA TableIs ==
  ASSUME NEW nd \in Seq(NodeType), NEW fl, NEW x
  PROVE  x \in Table(nd, fl) <=> \E n \in 1..Len(nd) : nd[n].handler # 0 /\ x = Entry(nd, fl, n)
BY DEF Table

\* Front undoes Append, and Append with the last element undoes Front.
LEMMA FrontAppend ==
  ASSUME NEW L, NEW s \in Seq(L), NEW x \in L
  PROVE  /\ Front(Append(s, x)) = s
         /\ Len(s) >= 1 => Append(Front(s), s[Len(s)]) = s
<1>1. Front(Append(s, x)) = s
  <2>1. /\ Append(s, x) \in Seq(L) /\ Len(Append(s, x)) = Len(s) + 1 /\ Len(s) \in Nat
        /\ \A i \in 1..Len(s) : Append(s, x)[i] = s[i]
    BY AppendProperties, LenProperties
  <2> DEFINE t == Append(s, x)
  <2>2. Front(t) = SubSeq(t, 1, Len(s))
    BY <2>1 DEF Front
  <2> HIDE DEF t
  <2>3. /\ SubSeq(t, 1, Len(s)) \in Seq(L) /\ Len(SubSeq(t, 1, Len(s))) = Len(s)
        /\ \A i \in 1..Len(s) : SubSeq(t, 1, Len(s))[i] = t[i]
    BY <2>1, SubSeqProperties DEF t
  <2>4. SubSeq(t, 1, Len(s)) = s
    BY <2>1, <2>3, SeqEqual DEF t
  <2>5. QED BY <2>2, <2>4 DEF t
<1>2. ASSUME Len(s) >= 1 PROVE Append(Front(s), s[Len(s)]) = s
  <2>1. Len(s) \in Nat /\ s[Len(s)] \in L /\ \A i \in 1..Len(s) : s[i] \in L
    BY <1>2
  <2> DEFINE t == SubSeq(s, 1, Len(s) - 1)
             y == s[Len(s)]
  <2>2. Front(s) = t
    BY DEF Front
  <2>3. t \in Seq(L) /\ Len(t) = Len(s) - 1 /\ \A i \in 1..(Len(s) - 1) : t[i] = s[i]
    <3> DEFINE l == Len(s) - 1
    <3>1. 1 \in 1..(Len(s) + 1) /\ l \in (1 - 1)..Len(s) /\ l - 1 + 1 = l
      BY <1>2, <2>1
    <3> HIDE DEF l
    <3>2. /\ SubSeq(s, 1, l) \in Seq(L) /\ Len(SubSeq(s, 1, l)) = l
          /\ \A i \in 1..l : SubSeq(s, 1, l)[i] = s[i]
      BY <2>1, <3>1, SubSeqProperties
    <3>3. QED BY <3>2 DEF l
  <2> HIDE DEF t
  <2>4. /\ Append(t, y) \in Seq(L) /\ Len(Append(t, y)) = Len(t) + 1
        /\ \A i \in 1..Len(t) : Append(t, y)[i] = t[i]
        /\ Append(t, y)[Len(t) + 1] = y
    BY <2>1, <2>3, AppendProperties
  <2>5. Len(Append(t, y)) = Len(s)
    BY <2>1, <2>3, <2>4
  <2>6. \A i \in 1..Len(s) : Append(t, y)[i] = s[i]
    <3> TAKE i \in 1..Len(s)
    <3>1. CASE i = Len(s)
      BY <2>1, <2>3, <2>4, <3>1
    <3>2. CASE i # Len(s)
      <4>1. i \in 1..Len(t) /\ i \in 1..(Len(s) - 1)
        BY <2>1, <2>3, <3>2
      <4>2. QED BY <2>3, <2>4, <4>1
    <3>3. QED BY <3>1, <3>2
  <2>7. Append(t, y) = s
    BY <2>4, <2>5, <2>6, SeqEqual
  <2>8. QED BY <2>2, <2>7
<1>3. QED BY <1>1, <1>2

\* A split changes no entry: the location of the child moves to the new node,
\* with its path.
LEMMA PreparedTable ==
  ASSUME IInv, pc = "insert", SameEdge # {}, Boundary(nodes[child].path, common)
  PROVE  Table(Prepared, PreparedFull) = Table(nodes, full)
<1>1. CASE ~ Splits
  <2>1. Prepared = nodes /\ PreparedFull = full
    BY <1>1, PreparedFacts
  <2>2. QED BY <2>1
<1>2. CASE Splits
  <2> DEFINE new == Len(nodes) + 1
  <2>1. /\ nodes \in Seq(NodeType) /\ Prepared \in Seq(NodeType)
        /\ child \in 2..Len(nodes) /\ Len(nodes) \in Nat
    BY PreparedFacts, ChildFacts DEF IInv, Tree, Typed
  <2>2. /\ Len(Prepared) = new
        /\ \A n \in 1..Len(nodes) : n # child => Prepared[n] = nodes[n] /\ PreparedFull[n] = full[n]
        /\ Prepared[child].handler = 0
        /\ Prepared[new].handler = nodes[child].handler
        /\ Prepared[new].match_type = nodes[child].match_type
        /\ PreparedFull[new] = full[child]
    BY <1>2, PreparedFacts
  <2>3. \A n : n \in 1..new <=> n \in 1..Len(nodes) \/ n = new
    BY <2>1
  <2>4. child \in 1..Len(nodes)
    BY <2>1
  <2>5. Entry(Prepared, PreparedFull, new) = Entry(nodes, full, child)
    BY <2>2 DEF Entry
  <2>6. \A n \in 1..Len(nodes) :
          n # child => Entry(Prepared, PreparedFull, n) = Entry(nodes, full, n)
    BY <2>2 DEF Entry
  <2> HIDE DEF new
  <2>7. ASSUME NEW x \in Table(nodes, full) PROVE x \in Table(Prepared, PreparedFull)
    <3>1. PICK n \in 1..Len(nodes) : nodes[n].handler # 0 /\ x = Entry(nodes, full, n)
      BY <2>1, <2>7, TableIs
    <3>2. \E m \in 1..Len(Prepared) :
            Prepared[m].handler # 0 /\ x = Entry(Prepared, PreparedFull, m)
      <4>1. CASE n = child
        BY <2>2, <2>3, <2>5, <3>1, <4>1
      <4>2. CASE n # child
        BY <2>2, <2>3, <2>6, <3>1, <4>2
      <4>3. QED BY <4>1, <4>2
    <3>3. QED BY <2>1, <3>2, TableIs
  <2>8. ASSUME NEW x \in Table(Prepared, PreparedFull) PROVE x \in Table(nodes, full)
    <3>1. PICK m \in 1..Len(Prepared) :
            Prepared[m].handler # 0 /\ x = Entry(Prepared, PreparedFull, m)
      BY <2>1, <2>8, TableIs
    <3>2. \E n \in 1..Len(nodes) : nodes[n].handler # 0 /\ x = Entry(nodes, full, n)
      <4>1. CASE m = new
        BY <2>2, <2>4, <2>5, <3>1, <4>1
      <4>2. CASE m \in 1..Len(nodes)
        BY <2>2, <2>6, <3>1, <4>2
      <4>3. QED BY <2>2, <2>3, <3>1, <4>1, <4>2
    <3>3. QED BY <2>1, <3>2, TableIs
  <2>9. QED BY <2>7, <2>8
<1>3. QED BY <1>1, <1>2

\* The entry of the location being inserted.
Current == [path |-> current.path, match_type |-> current.match_type, handler |-> Len(locations)]

\* The location takes the place of the one with its path, if there was one.
LEMMA HandlerTable ==
  ASSUME IInv, SetHandler
  PROVE  Table(nodes', full') = {x \in Table(nodes, full) : x.path # current.path} \cup {Current}
<1>1. /\ pc = "insert" /\ SameEdge # {} /\ Boundary(nodes[child].path, common)
  BY DEF SetHandler
<1>2. /\ Tree(nodes', full') /\ full' = PreparedFull
      /\ Len(nodes') = Len(Prepared) /\ child \in 1..Len(Prepared)
      /\ \A n \in 1..Len(Prepared) : n # child => nodes'[n] = Prepared[n]
      /\ nodes'[child].handler = Len(locations)
      /\ nodes'[child].match_type = current.match_type
      /\ full'[child] = current.path
  BY HandlerFacts
<1>3. Tree(Prepared, full') /\ Table(Prepared, full') = Table(nodes, full)
  BY <1>1, <1>2, PreparedFacts, PreparedTable
<1>4. /\ nodes' \in Seq(NodeType) /\ Prepared \in Seq(NodeType)
      /\ \A n \in 1..Len(Prepared) : full'[n] = full'[child] => n = child
  BY <1>2, <1>3 DEF Tree, Typed, Distinct
<1>5. Len(locations) # 0
  BY <1>1, CurrentFacts DEF IInv, Inserting
<1>6. Entry(nodes', full', child) = Current
  BY <1>2 DEF Entry, Current
<1>7. \A n \in 1..Len(Prepared) :
        n # child => Entry(nodes', full', n) = Entry(Prepared, full', n)
  BY <1>2 DEF Entry
<1>8. \A n : Entry(Prepared, full', n).path = full'[n]
  BY DEF Entry
<1>9. ASSUME NEW x \in Table(nodes', full')
      PROVE  x = Current \/ (x \in Table(Prepared, full') /\ x.path # current.path)
  <2>1. PICK n \in 1..Len(nodes') : nodes'[n].handler # 0 /\ x = Entry(nodes', full', n)
    BY <1>4, <1>9, TableIs
  <2>2. CASE n = child
    BY <1>6, <2>1, <2>2
  <2>3. CASE n # child
    <3>1. n \in 1..Len(Prepared) /\ Prepared[n].handler # 0 /\ x = Entry(Prepared, full', n)
      BY <1>2, <1>7, <2>1, <2>3
    <3>2. x \in Table(Prepared, full')
      BY <1>4, <3>1, TableIs
    <3>3. x.path # current.path
      BY <1>2, <1>4, <1>8, <2>3, <3>1
    <3>4. QED BY <3>2, <3>3
  <2>4. QED BY <2>2, <2>3
<1>10. Current \in Table(nodes', full')
  <2>1. child \in 1..Len(nodes') /\ nodes'[child].handler # 0
    BY <1>2, <1>5
  <2>2. QED BY <1>4, <1>6, <2>1, TableIs
<1>11. ASSUME NEW x \in Table(Prepared, full'), x.path # current.path
       PROVE  x \in Table(nodes', full')
  <2>1. PICK n \in 1..Len(Prepared) : Prepared[n].handler # 0 /\ x = Entry(Prepared, full', n)
    BY <1>4, <1>11, TableIs
  <2>2. n # child
    BY <1>2, <1>8, <1>11, <2>1
  <2>3. n \in 1..Len(nodes') /\ nodes'[n].handler # 0 /\ x = Entry(nodes', full', n)
    BY <1>2, <1>7, <2>1, <2>2
  <2>4. QED BY <1>4, <2>3, TableIs
<1>12. QED BY <1>3, <1>9, <1>10, <1>11

\* A leaf adds a location with a path of its own.
LEMMA PushTable ==
  ASSUME IInv, PushChild
  PROVE  Table(nodes', full') = {x \in Table(nodes, full) : x.path # current.path} \cup {Current}
<1> DEFINE new == Len(nodes) + 1
<1>1. /\ Tree(nodes', full') /\ Len(nodes') = new /\ new \in Nat
      /\ \A n \in 1..Len(nodes) : /\ full'[n] = full[n]
                                  /\ nodes'[n].handler = nodes[n].handler
                                  /\ nodes'[n].match_type = nodes[n].match_type
      /\ nodes'[new] = Node(rest, current.match_type, Len(locations))
      /\ full'[new] = current.path
  BY PushFacts
<1>2. /\ nodes' \in Seq(NodeType) /\ nodes \in Seq(NodeType) /\ Len(nodes) \in Nat
      /\ \A n \in 1..new : full'[n] = full'[new] => n = new
  <2>1. nodes' \in Seq(NodeType) /\ nodes \in Seq(NodeType) /\ Len(nodes) \in Nat
    BY <1>1 DEF IInv, Tree, Typed
  <2>2. new \in 1..new /\ Len(full') = new
    BY <1>1, <2>1 DEF Tree, Typed
  <2>3. QED BY <1>1, <2>1, <2>2 DEF Tree, Distinct
<1>3. \A n : n \in 1..new <=> n \in 1..Len(nodes) \/ n = new
  BY <1>2
<1>4. new \notin 1..Len(nodes)
  BY <1>2
<1>5. Len(locations) # 0
  BY CurrentFacts DEF IInv, Inserting, PushChild
<1>6. Entry(nodes', full', new) = Current /\ nodes'[new].handler = Len(locations)
  BY <1>1 DEF Entry, Current, Node
<1>7. \A n \in 1..Len(nodes) : Entry(nodes', full', n) = Entry(nodes, full, n)
  BY <1>1 DEF Entry
<1> HIDE DEF new
<1>8. ASSUME NEW x \in Table(nodes', full')
      PROVE  x = Current \/ x \in Table(nodes, full)
  <2>1. PICK n \in 1..Len(nodes') : nodes'[n].handler # 0 /\ x = Entry(nodes', full', n)
    BY <1>2, <1>8, TableIs
  <2>2. CASE n = new
    BY <1>6, <2>1, <2>2
  <2>3. CASE n \in 1..Len(nodes)
    <3>1. nodes[n].handler # 0 /\ x = Entry(nodes, full, n)
      BY <1>1, <1>7, <2>1, <2>3
    <3>2. QED BY <1>2, <2>3, <3>1, TableIs
  <2>4. QED BY <1>1, <1>3, <2>1, <2>2, <2>3
<1>9. Current \in Table(nodes', full')
  <2>1. new \in 1..Len(nodes') /\ nodes'[new].handler # 0
    BY <1>1, <1>3, <1>5, <1>6
  <2>2. QED BY <1>2, <1>6, <2>1, TableIs
<1>10. ASSUME NEW x \in Table(nodes, full)
       PROVE  x \in Table(nodes', full') /\ x.path # current.path
  <2>1. PICK n \in 1..Len(nodes) : nodes[n].handler # 0 /\ x = Entry(nodes, full, n)
    BY <1>2, <1>10, TableIs
  <2>2. n \in 1..Len(nodes') /\ nodes'[n].handler # 0 /\ x = Entry(nodes', full', n)
    BY <1>1, <1>3, <1>7, <2>1
  <2>3. x \in Table(nodes', full')
    BY <1>2, <2>2, TableIs
  <2>4. x.path = full'[n]
    BY <2>2 DEF Entry
  <2>5. full'[n] # full'[new]
    BY <1>1, <1>2, <1>4, <2>1, <2>2
  <2>6. QED BY <1>1, <2>3, <2>4, <2>5
<1>11. QED BY <1>8, <1>9, <1>10

\* The empty tree is the empty table.
LEMMA InitImplements == Init => Promise!Init
<1> SUFFICES ASSUME Init PROVE Promise!Init
  OBVIOUS
<1>1. /\ locations = <<>> /\ pc = "idle" /\ nodes = <<Node(<<>>, "Exact", 0)>>
  BY DEF Init
<1>2. \A n \in DOMAIN nodes : nodes[n].handler = 0
  BY <1>1 DEF Node
<1>3. QED BY <1>1, <1>2 DEF Promise!Init

\* A step that registers the location being inserted.
LEMMA Registers ==
  ASSUME IInv, pc = "insert", pc' = "idle", locations' = locations,
         Table(nodes', full') = {x \in Table(nodes, full) : x.path # current.path} \cup {Current}
  PROVE  Promise!Next
<1>1. /\ Stored /\ Len(locations) >= 1
  BY DEF IInv, Inserting
<1> DEFINE L == [path : Paths, match_type : MatchTypes]
<1>2. /\ current \in L /\ current.path \in Paths /\ current.match_type \in MatchTypes
      /\ current = [path |-> current.path, match_type |-> current.match_type]
  BY <1>1, CurrentFacts
<1>3. Append(Front(locations), current) = locations
  <2>1. locations \in Seq(L)
    BY <1>1 DEF Stored
  <2> HIDE DEF L
  <2>2. QED BY <1>1, <1>2, <2>1, FrontAppend DEF current
<1>4. Registered = Front(locations) /\ Registered' = locations /\ Phase = "building" /\ Phase' = "building"
  BY DEF Registered, Phase
<1>5. Registered' = Append(Registered, [path |-> current.path, match_type |-> current.match_type])
  BY <1>2, <1>3, <1>4
<1>6. PICK p \in Paths, ty \in MatchTypes : p = current.path /\ ty = current.match_type
  BY <1>2
<1>7. Promise!Register(p, ty)
  <2>1. /\ Registered' = Append(Registered, [path |-> p, match_type |-> ty])
        /\ Table(nodes, full)' = {x \in Table(nodes, full) : x.path # p}
             \cup {[path |-> p, match_type |-> ty, handler |-> Len(Registered')]}
    BY <1>4, <1>5, <1>6 DEF Current, Table, Entry
  <2>2. Phase = "building" /\ Phase' = Phase
    BY <1>4
  <2>3. QED
    BY <2>1, <2>2 DEF Promise!Register, Registered, Phase, Table, Entry
<1>8. QED BY <1>7 DEF Promise!Next

\* A step of the router registers a location, finishes, or leaves the table
\* as it is.
LEMMA StepImplements == NoEmptyPath /\ IInv /\ [Next]_vars => [Promise!Next]_(Promise!vars)
<1> SUFFICES ASSUME NoEmptyPath, IInv, [Next]_vars PROVE [Promise!Next]_(Promise!vars)
  OBVIOUS
<1>0. ASSUME Table(nodes', full') = Table(nodes, full), Registered' = Registered, Phase' = Phase
      PROVE  [Promise!Next]_(Promise!vars)
  BY <1>0 DEF Promise!vars, Table, Entry, Registered, Phase
<1>1. ASSUME NEW p \in Paths, NEW ty \in MatchTypes, BeginInsert(p, ty)
      PROVE  [Promise!Next]_(Promise!vars)
  <2> DEFINE L == [path : Paths, match_type : MatchTypes]
             loc == [path |-> p, match_type |-> ty]
  <2>1. /\ pc = "idle" /\ pc' = "insert" /\ locations' = Append(locations, loc)
        /\ nodes' = nodes /\ full' = full
    BY <1>1 DEF BeginInsert
  <2>2. locations \in Seq(L) /\ loc \in L
    BY DEF IInv, Stored
  <2> HIDE DEF L, loc
  <2>3. Registered' = Registered /\ Phase' = Phase
    BY <2>1, <2>2, FrontAppend DEF Registered, Phase
  <2>4. QED BY <1>0, <2>1, <2>3
<1>2. CASE PushChild
  <2>1. pc = "insert" /\ pc' = "idle" /\ locations' = locations
    BY <1>2 DEF PushChild
  <2>2. QED BY <1>2, <2>1, PushTable, Registers
<1>3. CASE SplitPanics
  <2>1. /\ pc = "insert" /\ pc' = "panicked" /\ locations' = locations
        /\ nodes' = nodes /\ full' = full
    BY <1>3 DEF SplitPanics
  <2>2. Promise!Finish("panicked")
    BY <2>1 DEF Promise!Finish
  <2>3. QED BY <2>2 DEF Promise!Next
<1>4. CASE SetHandler
  <2>1. pc = "insert" /\ pc' = "idle" /\ locations' = locations
    BY <1>4 DEF SetHandler
  <2>2. QED BY <1>4, <2>1, HandlerTable, Registers
<1>5. CASE Descend
  <2>1. /\ pc = "insert" /\ SameEdge # {} /\ Boundary(nodes[child].path, common)
        /\ pc' = pc /\ locations' = locations /\ nodes' = Prepared /\ full' = PreparedFull
    BY <1>5 DEF Descend
  <2>2. Table(nodes', full') = Table(nodes, full)
    BY <2>1, PreparedTable
  <2>3. QED BY <1>0, <2>1, <2>2 DEF Registered, Phase
<1>6. CASE Finish
  <2>1. /\ pc = "idle" /\ pc' = "serving" /\ locations' = locations
        /\ nodes' = nodes /\ full' = full
    BY <1>6 DEF Finish
  <2>2. Promise!Finish("serving")
    BY <2>1 DEF Promise!Finish
  <2>3. QED BY <2>2 DEF Promise!Next
<1>7. CASE UNCHANGED vars
  BY <1>0, <1>7 DEF vars, Registered, Phase
<1>8. QED BY <1>1, <1>2, <1>3, <1>4, <1>5, <1>6, <1>7 DEF Next

\* The tree implements RouteTable: whatever edges an insertion splits, each
\* location stays under its own path with its own match type, a later location
\* replaces the one with the same path, and no other entry changes.
THEOREM TableImplemented == NoEmptyPath /\ Spec => ImplementsRouteTable
<1>1. ASSUME NoEmptyPath PROVE Spec => Promise!Spec
  <2>1. Init => Promise!Init
    BY InitImplements
  <2>2. IInv /\ [Next]_vars => [Promise!Next]_(Promise!vars)
    BY <1>1, StepImplements
  <2>3. Spec => []IInv
    BY <1>1, Invariant
  <2>4. QED BY <2>1, <2>2, <2>3, PTL DEF Spec, Promise!Spec
<1>2. QED BY <1>1 DEF ImplementsRouteTable

-------------------------------------------------------------------------------
(* Searching the tree. *)

\* What is left of v behind its first k bytes.
Suffix(v, k) == SubSeq(v, k + 1, Len(v))

\* The nodes below n that may serve a request for v.
Hits(n, v) ==
  {m \in 1..Len(nodes) :
     /\ m # n /\ nodes[m].handler # 0
     /\ Under(full[n], full[m]) /\ Under(full[m], v)
     /\ nodes[m].match_type = "Prefix" \/ Len(full[m]) = Len(v)}

\* What search answers when the location of node m serves v.
Served(m, v) == [handler |-> nodes[m].handler, rest |-> Suffix(v, Len(full[m]))]

\* r is the answer of the longest of them.
Best(n, v, r) ==
  \/ Hits(n, v) = {} /\ r = None
  \/ \E m \in Hits(n, v) :
       (\A k \in Hits(n, v) : Len(full[k]) <= Len(full[m])) /\ r = Served(m, v)

\* There is a longest one.
LEMMA BestExists ==
  ASSUME Tree(nodes, full), NEW n, NEW v \in Strings
  PROVE  \E r : Best(n, v, r)
<1>1. CASE Hits(n, v) = {}
  BY <1>1 DEF Best
<1>2. CASE Hits(n, v) # {}
  <2> DEFINE D == {d \in 0..Len(v) : \E m \in Hits(n, v) : d = Len(v) - Len(full[m])}
  <2>1. \A m \in Hits(n, v) : Len(full[m]) \in Nat /\ Len(full[m]) <= Len(v)
    <3> TAKE m \in Hits(n, v)
    <3>1. m \in 1..Len(nodes) /\ Under(full[m], v)
      BY DEF Hits
    <3>2. full[m] \in Strings
      BY <3>1, NodeFacts
    <3>3. QED BY <3>1, <3>2, UnderLength
  <2>2. Len(v) \in Nat
    BY DEF Strings
  <2>3. \A m \in Hits(n, v) : Len(v) - Len(full[m]) \in D
    BY <2>1, <2>2
  <2>4. D \in SUBSET Nat /\ D # {}
    <3>1. D \in SUBSET Nat
      BY <2>2
    <3> HIDE DEF D
    <3>2. QED BY <1>2, <2>3, <3>1
  <2>5. PICK d \in D : \A x \in D : d <= x
    BY <2>4, LeastNumber
  <2>6. PICK m \in Hits(n, v) : d = Len(v) - Len(full[m])
    BY <2>5
  <2>7. \A k \in Hits(n, v) : Len(v) - Len(full[m]) <= Len(v) - Len(full[k])
    BY <2>3, <2>5, <2>6
  <2>8. \A k \in Hits(n, v) : Len(full[k]) <= Len(full[m])
    BY <2>1, <2>2, <2>7
  <2>9. QED BY <2>6, <2>8 DEF Best
<1>3. QED BY <1>1, <1>2

\* There is one only: nodes with the same path are one.
LEMMA BestUnique ==
  ASSUME Tree(nodes, full), NEW n, NEW v \in Strings, NEW r, NEW s, Best(n, v, r), Best(n, v, s)
  PROVE  r = s
<1>1. CASE Hits(n, v) = {}
  BY <1>1 DEF Best
<1>2. CASE Hits(n, v) # {}
  <2>1. PICK m \in Hits(n, v) :
          (\A k \in Hits(n, v) : Len(full[k]) <= Len(full[m])) /\ r = Served(m, v)
    BY <1>2 DEF Best
  <2>2. PICK l \in Hits(n, v) :
          (\A k \in Hits(n, v) : Len(full[k]) <= Len(full[l])) /\ s = Served(l, v)
    BY <1>2 DEF Best
  <2>3. /\ m \in 1..Len(nodes) /\ l \in 1..Len(nodes) /\ Under(full[m], v) /\ Under(full[l], v)
        /\ full[m] \in Strings /\ full[l] \in Strings
    BY NodeFacts DEF Hits
  <2>4. Len(full[m]) \in Nat /\ Len(full[l]) \in Nat
    BY <2>3, NodeFacts
  <2>5. Len(full[m]) <= Len(full[l]) /\ Len(full[l]) <= Len(full[m])
    BY <2>1, <2>2
  <2>6. Under(full[m], full[l]) /\ Under(full[l], full[m])
    BY <2>3, <2>5, UnderSame
  <2>7. full[m] = full[l]
    BY <2>3, <2>6, UnderBoth
  <2>8. m = l
    BY <2>3, <2>7 DEF Tree, Typed, Distinct
  <2>9. QED BY <2>1, <2>2, <2>8
<1>3. QED BY <1>1, <1>2

\* At most one child of a node leads on to a request.
LEMMA OneWay ==
  ASSUME Tree(nodes, full), NEW n \in 1..Len(nodes), NEW v \in Strings,
         NEW c, Child(nodes, n, c), Under(full[c], v),
         NEW d, Child(nodes, n, d), Under(full[d], v)
  PROVE  c = d
<1>1. /\ full[c] \in Strings /\ full[d] \in Strings
      /\ Len(full[c]) \in Nat /\ Len(full[d]) \in Nat
      /\ Len(full[c]) > Len(full[n]) /\ Len(full[d]) > Len(full[n]) /\ Len(full[n]) \in Nat
  BY ChildBelow
<1>2. CASE Len(full[c]) <= Len(full[d])
  <2>1. Under(full[c], full[d]) /\ Under(full[c], full[c])
    BY <1>1, <1>2, UnderSame, UnderItself
  <2>2. Agree(full[c], full[d], Len(full[c])) /\ Boundary(full[c], Len(full[c]))
    BY <1>1, <2>1, AgreeOver, BoundaryAtEnd
  <2>3. QED BY <1>1, <2>2, OneChild
<1>3. CASE Len(full[d]) <= Len(full[c])
  <2>1. Under(full[d], full[c]) /\ Under(full[d], full[d])
    BY <1>1, <1>3, UnderSame, UnderItself
  <2>2. Agree(full[c], full[d], Len(full[d])) /\ Boundary(full[d], Len(full[d]))
    BY <1>1, <2>1, AgreeOver, BoundaryAtEnd
  <2>3. QED BY <1>1, <2>2, OneChild
<1>4. QED BY <1>1, <1>2, <1>3

\* What is left of a request behind a prefix.
LEMMA SuffixBehind ==
  ASSUME NEW u \in Strings, NEW s \in Strings
  PROVE  Suffix(u \o s, Len(u)) = s
<1> DEFINE v == u \o s
           t == Suffix(v, Len(u))
<1>1. /\ v \in Strings /\ Len(v) = Len(u) + Len(s) /\ Len(u) \in Nat /\ Len(s) \in Nat
      /\ \A i \in 1..Len(s) : v[Len(u) + i] = s[i]
  BY Concatenated DEF Strings
<1> HIDE DEF v
<1>2. Len(u) \in 0..Len(v) /\ Len(v) - Len(u) = Len(s)
  BY <1>1
<1>3. t \in Strings /\ Len(t) = Len(s) /\ \A i \in 1..Len(s) : t[i] = v[Len(u) + i]
  <2> DEFINE k == Len(u)
  <2>1. k \in 0..Len(v) /\ v \in Strings
    BY <1>1, <1>2
  <2> HIDE DEF k
  <2>2. /\ SubSeq(v, k + 1, Len(v)) \in Strings
        /\ Len(SubSeq(v, k + 1, Len(v))) = Len(v) - k
        /\ \A i \in 1..(Len(v) - k) : SubSeq(v, k + 1, Len(v))[i] = v[k + i]
    BY <2>1, Cut
  <2>3. QED BY <1>2, <2>2 DEF Suffix, k
<1> HIDE DEF t
<1>4. \A i \in 1..Len(t) : t[i] = s[i]
  BY <1>1, <1>3
<1>5. t = s
  BY <1>3, <1>4, SeqEqual DEF Strings
<1>6. QED BY <1>5 DEF t, v

\* A child is tried when its path leads on to the request.
LEMMA ChildFits ==
  ASSUME Tree(nodes, full), NEW n \in 1..Len(nodes), NEW c, Child(nodes, n, c), NEW s \in Strings
  PROVE  /\ IsPrefix(nodes[c].path, s) <=> Under(full[c], full[n] \o s)
         /\ IsPrefix(nodes[c].path, s) =>
              /\ Len(nodes[c].path) \in 1..Len(s) /\ Suffix(s, Len(nodes[c].path)) \in Strings
              /\ full[n] \o s = full[c] \o Suffix(s, Len(nodes[c].path))
<1> DEFINE u == full[n]
           e == nodes[c].path
           f == full[c]
           t == Suffix(s, Len(e))
<1>1. c \in 1..Len(nodes) /\ e # <<>> /\ f = u \o e
  <2>1. f = u \o e
    BY DEF Tree, Linked
  <2>2. QED BY <2>1, EdgeFacts
<1>2. u \in Strings /\ e \in Strings /\ f \in Strings
  BY <1>1, NodeFacts
<1> HIDE DEF u, e, f
<1>3. Len(u) \in Nat /\ Len(e) \in Nat \ {0} /\ Len(s) \in Nat /\ Len(f) = Len(u) + Len(e)
  BY <1>1, <1>2, Concatenated, EmptySeq DEF Strings
<1>4. Agree(e, s, Len(e)) <=> Agree(u \o e, u \o s, Len(u) + Len(e))
  BY <1>2, <1>3, AgreeBehind
<1>5. IsPrefix(e, s) <=> Under(f, u \o s)
  BY <1>1, <1>2, <1>3, <1>4, PrefixIsUnder DEF Under
<1>6. ASSUME IsPrefix(e, s)
      PROVE  Len(e) \in 1..Len(s) /\ t \in Strings /\ u \o s = f \o t
  <2>1. Under(e, s)
    BY <1>2, <1>6, PrefixIsUnder
  <2>2. Len(e) <= Len(s) /\ Len(e) \in 0..Len(s) /\ Len(e) \in 1..Len(s)
    BY <1>3, <2>1 DEF Under, Agree
  <2>3. /\ SubSeq(s, 1, Len(e)) \in Strings /\ Len(SubSeq(s, 1, Len(e))) = Len(e)
        /\ Under(SubSeq(s, 1, Len(e)), s)
        /\ t \in Strings /\ s = SubSeq(s, 1, Len(e)) \o t
    BY <2>2, Cut DEF Suffix
  <2>4. SubSeq(s, 1, Len(e)) = e
    <3> DEFINE w == SubSeq(s, 1, Len(e))
    <3>1. w \in Strings /\ Len(w) = Len(e) /\ Under(w, s)
      BY <2>3
    <3> HIDE DEF w
    <3>2. Under(w, e) /\ Under(e, w)
      BY <1>2, <1>3, <2>1, <3>1, UnderSame
    <3>3. w = e
      BY <1>2, <3>1, <3>2, UnderBoth
    <3>4. QED BY <3>3 DEF w
  <2>5. s = e \o t
    BY <2>3, <2>4
  <2>6. u \in Strings /\ e \in Strings /\ t \in Strings
    BY <1>2, <2>3
  <2> HIDE DEF t
  <2>7. (u \o e) \o t = u \o (e \o t)
    BY <2>6, Joined, Zenon
  <2>8. QED BY <1>1, <2>2, <2>3, <2>5, <2>7
<1>7. QED BY <1>5, <1>6 DEF u, e, f

\* Without a child that leads on to the request nothing below the node serves it.
LEMMA NoHits ==
  ASSUME Tree(nodes, full), NEW n \in 1..Len(nodes), NEW v \in Strings,
         \A c : Child(nodes, n, c) => ~ Under(full[c], v)
  PROVE  Hits(n, v) = {}
<1> SUFFICES ASSUME NEW m \in Hits(n, v) PROVE FALSE
  OBVIOUS
<1>1. m \in 1..Len(nodes) /\ m # n /\ Under(full[n], full[m]) /\ Under(full[m], v)
  BY DEF Hits
<1>2. PICK c : Child(nodes, n, c) /\ Under(full[c], full[m])
  BY <1>1 DEF Tree, Covered
<1>3. full[c] \in Strings /\ full[m] \in Strings
  BY <1>1, <1>2, ChildBelow, NodeFacts
<1>4. Under(full[c], v)
  BY <1>1, <1>2, <1>3, UnderTransitive
<1>5. QED BY <1>2, <1>4

\* With one, the child itself or what is below it does.
LEMMA HitsOfChild ==
  ASSUME Tree(nodes, full), NEW n \in 1..Len(nodes), NEW v \in Strings,
         NEW c, Child(nodes, n, c), Under(full[c], v), NEW m
  PROVE  m \in Hits(n, v) <=>
           \/ m \in Hits(c, v)
           \/ /\ m = c /\ nodes[c].handler # 0
              /\ nodes[c].match_type = "Prefix" \/ Len(full[c]) = Len(v)
<1>1. /\ c \in 1..Len(nodes) /\ c # n /\ full[n] \in Strings /\ full[c] \in Strings
      /\ Under(full[n], full[c]) /\ Len(full[n]) \in Nat /\ Len(full[c]) \in Nat
      /\ Len(full[n]) < Len(full[c])
  BY ChildBelow
<1>2. ASSUME m \in Hits(n, v), m # c PROVE m \in Hits(c, v)
  <2>1. m \in 1..Len(nodes) /\ m # n /\ Under(full[n], full[m]) /\ Under(full[m], v)
    BY <1>2 DEF Hits
  <2>2. PICK d : Child(nodes, n, d) /\ Under(full[d], full[m])
    BY <2>1 DEF Tree, Covered
  <2>3. full[d] \in Strings /\ full[m] \in Strings
    BY <2>1, <2>2, ChildBelow, NodeFacts
  <2>4. Under(full[d], v)
    BY <2>1, <2>2, <2>3, UnderTransitive
  <2>5. c = d
    BY <2>2, <2>4, OneWay
  <2>6. QED BY <1>2, <2>2, <2>5 DEF Hits
<1>3. ASSUME m \in Hits(c, v) PROVE m \in Hits(n, v)
  <2>1. m \in 1..Len(nodes) /\ Under(full[c], full[m])
    BY <1>3 DEF Hits
  <2>2. full[m] \in Strings
    BY <2>1, NodeFacts
  <2>3. Under(full[n], full[m])
    BY <1>1, <2>1, <2>2, UnderTransitive
  <2>4. Len(full[c]) <= Len(full[m])
    BY <1>1, <2>1, <2>2, UnderLength
  <2>5. m # n
    BY <1>1, <2>4
  <2>6. QED BY <1>3, <2>3, <2>5 DEF Hits
<1>4. c \in Hits(n, v) <=>
        nodes[c].handler # 0 /\ (nodes[c].match_type = "Prefix" \/ Len(full[c]) = Len(v))
  BY <1>1 DEF Hits
<1>5. c \notin Hits(c, v)
  BY DEF Hits
<1>6. QED BY <1>2, <1>3, <1>4, <1>5

\* What search makes of a child's own search is the best of what is below the
\* node, if it was the best of what is below the child.
LEMMA AnswerBest ==
  ASSUME Tree(nodes, full), NEW n \in 1..Len(nodes), NEW v \in Strings,
         NEW c, Child(nodes, n, c), Under(full[c], v), NEW deeper, Best(c, v, deeper)
  PROVE  Best(n, v, answer(nodes[c], Suffix(v, Len(full[c])), deeper))
<1> DEFINE left == Suffix(v, Len(full[c]))
           r == answer(nodes[c], left, deeper)
           here == [handler |-> nodes[c].handler, rest |-> left]
           Eligible == /\ nodes[c].handler # 0
                       /\ nodes[c].match_type = "Prefix" \/ Len(full[c]) = Len(v)
<1>1. /\ c \in 1..Len(nodes) /\ full[c] \in Strings /\ Len(full[c]) \in Nat
  BY ChildBelow
<1>2. Len(v) \in Nat /\ Len(full[c]) <= Len(v)
  BY <1>1, UnderLength
<1>3. left = <<>> <=> Len(full[c]) = Len(v)
  <2> DEFINE k == Len(full[c])
  <2>1. k \in 0..Len(v)
    BY <1>1, <1>2
  <2> HIDE DEF k
  <2>2. Suffix(v, k) \in Strings /\ Len(Suffix(v, k)) = Len(v) - k
    BY <2>1, Cut DEF Suffix
  <2>3. Suffix(v, k) = <<>> <=> Len(Suffix(v, k)) = 0
    BY <2>2, EmptySeq DEF Strings
  <2>4. Suffix(v, k) = <<>> <=> k = Len(v)
    BY <1>2, <2>1, <2>2, <2>3
  <2>5. QED BY <2>4 DEF k
<1>4. here = Served(c, v)
  BY DEF Served
<1>5. \A m : m \in Hits(n, v) <=> m \in Hits(c, v) \/ (m = c /\ Eligible)
  BY HitsOfChild
<1> HIDE DEF left
<1>6. \A m \in Hits(c, v) : Len(full[c]) <= Len(full[m]) /\ nodes[m].handler # 0
  <2> TAKE m \in Hits(c, v)
  <2>1. m \in 1..Len(nodes) /\ Under(full[c], full[m]) /\ nodes[m].handler # 0
    BY DEF Hits
  <2>2. full[m] \in Strings
    BY <2>1, NodeFacts
  <2>3. QED BY <1>1, <2>1, <2>2, UnderLength
<1>7. deeper = None <=> Hits(c, v) = {}
  <2>1. ASSUME NEW m \in Hits(c, v) PROVE Served(m, v) # None
    BY <1>6 DEF Served, None
  <2>2. QED BY <2>1 DEF Best
<1>8. left = <<>> => Hits(c, v) = {}
  <2> SUFFICES ASSUME left = <<>>, NEW m \in Hits(c, v) PROVE FALSE
    OBVIOUS
  <2>1. /\ m \in 1..Len(nodes) /\ m # c /\ Under(full[c], full[m]) /\ Under(full[m], v)
    BY DEF Hits
  <2>2. full[m] \in Strings /\ Len(full[m]) \in Nat
    BY <2>1, NodeFacts
  <2>3. Len(full[m]) <= Len(full[c])
    BY <1>3, <2>1, <2>2, UnderLength
  <2>4. Under(full[m], full[c])
    BY <1>1, <2>1, <2>2, <2>3, UnderSame
  <2>5. full[m] = full[c]
    BY <1>1, <2>1, <2>2, <2>4, UnderBoth
  <2>6. QED BY <1>1, <2>1, <2>5 DEF Tree, Typed, Distinct
<1>9. CASE deeper # None
  <2>1. left # <<>>
    BY <1>7, <1>8, <1>9
  <2>2. r = deeper
    BY <1>9, <2>1 DEF answer
  <2>3. PICK m \in Hits(c, v) :
          (\A k \in Hits(c, v) : Len(full[k]) <= Len(full[m])) /\ deeper = Served(m, v)
    BY <1>7, <1>9 DEF Best
  <2>4. m \in Hits(n, v) /\ \A k \in Hits(n, v) : Len(full[k]) <= Len(full[m])
    BY <1>5, <1>6, <2>3
  <2> HIDE DEF r
  <2>5. Best(n, v, r)
    BY <2>2, <2>3, <2>4 DEF Best
  <2>6. QED BY <2>5 DEF r, left
<1>10. CASE deeper = None
  <2>1. r = IF Eligible THEN here ELSE None
    <3>1. CASE left = <<>>
      BY <1>3, <3>1 DEF answer
    <3>2. CASE left # <<>>
      BY <1>3, <1>10, <3>2 DEF answer
    <3>3. QED BY <3>1, <3>2
  <2>2. \A m : m \in Hits(n, v) <=> m = c /\ Eligible
    BY <1>5, <1>7, <1>10
  <2> HIDE DEF r, here, Eligible
  <2>3. CASE Eligible
    <3>1. c \in Hits(n, v) /\ \A k \in Hits(n, v) : k = c
      BY <2>2, <2>3
    <3>2. \A k \in Hits(n, v) : Len(full[k]) <= Len(full[c])
      BY <1>1, <3>1
    <3>3. r = Served(c, v)
      BY <1>4, <2>1, <2>3
    <3>4. Best(n, v, r)
      BY <3>1, <3>2, <3>3 DEF Best
    <3>5. QED BY <3>4 DEF r, left
  <2>4. CASE ~ Eligible
    <3>1. Hits(n, v) = {} /\ r = None
      BY <2>1, <2>2, <2>4
    <3>2. Best(n, v, r)
      BY <3>1 DEF Best
    <3>3. QED BY <3>2 DEF r, left
  <2>5. QED BY <2>3, <2>4
<1>11. QED BY <1>9, <1>10

-------------------------------------------------------------------------------
(* search. *)

\* What search makes of a child, and of all the children of a node, when f is
\* what it returns further down.
Try(q, f, p, c) ==
  LET p2 == p + Len(nodes[c].path)
  IN  IF IsPrefix(nodes[c].path, Suffix(q, p))
      THEN answer(nodes[c], Suffix(q, p2), f[p2][c]) ELSE None
Tried(q, f, n, p) ==
  LET kids == nodes[n].children
      hits == {i \in DOMAIN kids : Try(q, f, p, kids[i]) # None}
  IN  IF hits = {} THEN None
      ELSE Try(q, f, p, kids[CHOOSE i \in hits : \A j \in hits : i <= j])

\* f is a solution of the recursion that search(q) is defined by.
Solves(q, f) == f = [p \in 0..Len(q) |-> [n \in DOMAIN nodes |-> Tried(q, f, n, p)]]

\* A request that leads to node n with its first p bytes.
Reaching(q, n, p) == full[n] \o Suffix(q, p)

\* search returns what a solution of its recursion says.
LEMMA SearchSolves ==
  ASSUME NEW q, NEW g, Solves(q, g)
  PROVE  \E f : Solves(q, f) /\ search(q) = f[0][1]
<1> DEFINE F == CHOOSE f : Solves(q, f)
<1>1. Solves(q, F)
  OBVIOUS
<1>2. search(q) = F[0][1]
  BY Zenon DEF search, Solves, Tried, Try, Suffix
<1>3. QED BY <1>1, <1>2

\* A solution, at one node and one byte of the request.
LEMMA Solved ==
  ASSUME NEW q, NEW f, Solves(q, f), NEW n \in DOMAIN nodes, NEW p \in 0..Len(q)
  PROVE  f[p][n] = Tried(q, f, n, p)
BY DEF Solves

\* Two suffixes of a request.
LEMMA SuffixOfSuffix ==
  ASSUME NEW q \in Strings, NEW p \in 0..Len(q), NEW k \in 0..(Len(q) - p)
  PROVE  Suffix(Suffix(q, p), k) = Suffix(q, p + k) /\ p + k \in 0..Len(q)
<1> DEFINE s == Suffix(q, p)
           t == Suffix(s, k)
           w == Suffix(q, p + k)
<1>1. Len(q) \in Nat /\ p \in Nat /\ k \in Nat /\ p + k \in 0..Len(q) /\ Len(q) - (p + k) \in Nat
      /\ Len(q) - p \in Nat
  <2>1. Len(q) \in Nat
    BY DEF Strings
  <2>2. QED BY <2>1
<1>2. s \in Strings /\ Len(s) = Len(q) - p /\ \A i \in 1..(Len(q) - p) : s[i] = q[p + i]
  BY Cut DEF Suffix
<1> HIDE DEF s
<1>3. t \in Strings /\ Len(t) = Len(s) - k /\ \A i \in 1..(Len(s) - k) : t[i] = s[k + i]
  <2>1. k \in 0..Len(s)
    BY <1>2
  <2>2. QED BY <1>2, <2>1, Cut DEF Suffix
<1>4. w \in Strings /\ Len(w) = Len(q) - (p + k) /\ \A i \in 1..(Len(q) - (p + k)) : w[i] = q[(p + k) + i]
  BY <1>1, Cut DEF Suffix
<1> HIDE DEF t, w
<1>5. Len(t) = Len(w) /\ Len(t) \in Nat
  BY <1>1, <1>2, <1>3, <1>4
<1>6. \A i \in 1..Len(t) : t[i] = w[i]
  <2> TAKE i \in 1..Len(t)
  <2>1. i \in 1..(Len(s) - k) /\ k + i \in 1..(Len(q) - p) /\ i \in 1..(Len(q) - (p + k))
        /\ p + (k + i) = (p + k) + i
    BY <1>1, <1>2, <1>3, <1>5
  <2>2. t[i] = s[k + i] /\ s[k + i] = q[p + (k + i)] /\ w[i] = q[(p + k) + i]
    BY <1>2, <1>3, <1>4, <2>1
  <2>3. QED BY <2>1, <2>2
<1>7. t = w
  BY <1>3, <1>4, <1>5, <1>6, SeqEqual DEF Strings
<1>8. QED BY <1>1, <1>7 DEF s, t, w

\* What search finds on a node is the best of what is below it, if what it
\* finds further down is.
LEMMA TriedBest ==
  ASSUME Tree(nodes, full), NEW q \in Strings, NEW f, NEW n \in 1..Len(nodes), NEW p \in 0..Len(q),
         \A l \in 0..Len(q) : l > p =>
           \A c \in 1..Len(nodes) : Best(c, Reaching(q, c, l), f[l][c])
  PROVE  Best(n, Reaching(q, n, p), Tried(q, f, n, p))
<1> DEFINE s == Suffix(q, p)
           v == full[n] \o s
           kids == nodes[n].children
           T(i) == Try(q, f, p, kids[i])
           hits == {i \in DOMAIN kids : T(i) # None}
           first == CHOOSE i \in hits : \A j \in hits : i <= j
<1>1. s \in Strings /\ Len(s) = Len(q) - p /\ full[n] \in Strings /\ v \in Strings
  <2>1. s \in Strings /\ Len(s) = Len(q) - p
    BY Cut DEF Suffix
  <2>2. full[n] \in Strings
    BY NodeFacts
  <2> HIDE DEF s
  <2>3. QED BY <2>1, <2>2, Concatenated
<1>2. p \in Nat /\ Len(q) \in Nat /\ DOMAIN kids = 1..Len(kids) /\ Len(kids) \in Nat
  BY NodeFacts DEF Strings
<1>3. Tried(q, f, n, p) = IF hits = {} THEN None ELSE T(first)
  BY DEF Tried
<1>4. ASSUME hits # {} PROVE first \in hits
  <2>1. hits \in SUBSET Nat
    BY <1>2
  <2>2. \E i \in hits : \A j \in hits : i <= j
    <3> HIDE DEF hits
    <3>1. QED BY <1>4, <2>1, LeastNumber
  <2>3. QED BY <2>2
<1>5. \A c : Child(nodes, n, c) <=> \E i \in DOMAIN kids : kids[i] = c
  BY DEF Child
<1>6. \A c : Child(nodes, n, c) => (IsPrefix(nodes[c].path, s) <=> Under(full[c], v))
  BY <1>1, ChildFits
<1>7. CASE \A c : Child(nodes, n, c) => ~ Under(full[c], v)
  <2>1. Hits(n, v) = {}
    BY <1>1, <1>7, NoHits
  <2>2. hits = {}
    <3>1. \A i \in DOMAIN kids : ~ IsPrefix(nodes[kids[i]].path, s)
      BY <1>5, <1>6, <1>7
    <3>2. \A i \in DOMAIN kids : T(i) = None
      BY <3>1 DEF Try
    <3>3. QED BY <3>2
  <2>3. QED BY <1>3, <2>1, <2>2 DEF Best, Reaching
<1>8. CASE \E c : Child(nodes, n, c) /\ Under(full[c], v)
  <2>1. PICK c : Child(nodes, n, c) /\ Under(full[c], v)
    BY <1>8
  <2> DEFINE e == nodes[c].path
             p2 == p + Len(e)
             r == answer(nodes[c], Suffix(q, p2), f[p2][c])
  <2>2. IsPrefix(e, s) /\ c \in 1..Len(nodes)
    BY <1>6, <2>1, ChildBelow
  <2>3. Len(e) \in 1..Len(s) /\ Suffix(s, Len(e)) \in Strings /\ v = full[c] \o Suffix(s, Len(e))
    BY <1>1, <2>1, <2>2, ChildFits
  <2>4. Suffix(s, Len(e)) = Suffix(q, p2) /\ p2 \in 0..Len(q) /\ p2 > p
    <3> DEFINE k == Len(e)
    <3>1. k \in 0..(Len(q) - p) /\ k > 0
      BY <1>1, <1>2, <2>3
    <3> HIDE DEF k
    <3>2. Suffix(Suffix(q, p), k) = Suffix(q, p + k) /\ p + k \in 0..Len(q)
      BY <3>1, SuffixOfSuffix
    <3>3. p + k > p
      BY <1>2, <3>1
    <3>4. QED BY <3>2, <3>3 DEF k
  <2> HIDE DEF s, p2
  <2>5. v = Reaching(q, c, p2) /\ Suffix(q, p2) \in Strings
    BY <2>3, <2>4 DEF Reaching
  <2>6. Best(c, v, f[p2][c])
    BY <2>2, <2>4, <2>5
  <2>7. Suffix(v, Len(full[c])) = Suffix(q, p2)
    <3>1. full[c] \in Strings
      BY <2>2, NodeFacts
    <3>2. v = full[c] \o Suffix(q, p2)
      BY <2>5 DEF Reaching
    <3> HIDE DEF v
    <3>3. QED BY <2>5, <3>1, <3>2, SuffixBehind
  <2>8. Best(n, v, r)
    <3> HIDE DEF v
    <3>1. v \in Strings
      BY <1>1
    <3>2. Best(n, v, answer(nodes[c], Suffix(v, Len(full[c])), f[p2][c]))
      BY <2>1, <2>6, <3>1, AnswerBest
    <3>3. QED BY <2>7, <3>2
  <2>9. \A i \in DOMAIN kids : kids[i] = c => T(i) = r
    BY <2>2 DEF Try, s, p2
  <2>10. \A i \in DOMAIN kids : kids[i] # c => T(i) = None
    <3> TAKE i \in DOMAIN kids
    <3> HAVE kids[i] # c
    <3>1. Child(nodes, n, kids[i])
      BY <1>5
    <3>2. ~ Under(full[kids[i]], v)
      <4> HIDE DEF v
      <4>1. QED BY <1>1, <2>1, <3>1, OneWay
    <3>3. ~ IsPrefix(nodes[kids[i]].path, s)
      BY <1>6, <3>1, <3>2
    <3>4. QED BY <3>3 DEF Try, s
  <2> HIDE DEF r, v, T
  <2>11. Tried(q, f, n, p) = r
    <3>1. CASE hits = {}
      <4>1. PICK i \in DOMAIN kids : kids[i] = c
        BY <1>5, <2>1
      <4>2. T(i) = r /\ i \notin hits
        BY <2>9, <3>1, <4>1
      <4>3. QED BY <1>3, <3>1, <4>2
    <3>2. CASE hits # {}
      <4>1. first \in DOMAIN kids /\ T(first) # None
        BY <1>4, <3>2
      <4> HIDE DEF first
      <4>2. T(first) = r
        BY <2>9, <2>10, <4>1
      <4>3. QED BY <1>3, <3>2, <4>2
    <3>3. QED BY <3>1, <3>2
  <2>12. v = Reaching(q, n, p)
    BY DEF v, s, Reaching
  <2>13. QED BY <2>8, <2>11, <2>12
<1>9. QED BY <1>7, <1>8

\* The recursion of search has a solution: the best of what is below each node.
LEMMA SolutionExists ==
  ASSUME Tree(nodes, full), NEW q \in Strings
  PROVE  \E f : Solves(q, f)
<1> DEFINE B(n, p) == CHOOSE r : Best(n, Reaching(q, n, p), r)
           f == [p \in 0..Len(q) |-> [n \in DOMAIN nodes |-> B(n, p)]]
<1>1. DOMAIN nodes = 1..Len(nodes)
  BY DEF Tree, Typed
<1>2. ASSUME NEW n \in 1..Len(nodes), NEW p \in 0..Len(q)
      PROVE  Reaching(q, n, p) \in Strings /\ Best(n, Reaching(q, n, p), B(n, p))
  <2>1. Suffix(q, p) \in Strings /\ full[n] \in Strings
    BY Cut, NodeFacts DEF Suffix
  <2>2. Reaching(q, n, p) \in Strings
    BY <2>1, Concatenated DEF Reaching
  <2>3. \E r : Best(n, Reaching(q, n, p), r)
    BY <2>2, BestExists
  <2>4. QED BY <2>2, <2>3
<1> HIDE DEF B
<1>3. \A n \in 1..Len(nodes), p \in 0..Len(q) : f[p][n] = B(n, p)
  BY <1>1
<1> HIDE DEF f
<1>4. ASSUME NEW n \in 1..Len(nodes), NEW p \in 0..Len(q)
      PROVE  B(n, p) = Tried(q, f, n, p)
  <2>1. \A l \in 0..Len(q) : l > p =>
          \A c \in 1..Len(nodes) : Best(c, Reaching(q, c, l), f[l][c])
    BY <1>2, <1>3
  <2>2. Best(n, Reaching(q, n, p), Tried(q, f, n, p))
    BY <2>1, TriedBest
  <2>3. QED BY <1>2, <2>2, BestUnique
<1>5. f = [p \in 0..Len(q) |-> [n \in DOMAIN nodes |-> Tried(q, f, n, p)]]
  <2> DEFINE g == [p \in 0..Len(q) |-> [n \in DOMAIN nodes |-> Tried(q, f, n, p)]]
  <2>1. \A p \in 0..Len(q) :
          [n \in DOMAIN nodes |-> B(n, p)] = [n \in DOMAIN nodes |-> Tried(q, f, n, p)]
    BY <1>1, <1>4
  <2>2. [p \in 0..Len(q) |-> [n \in DOMAIN nodes |-> B(n, p)]] = g
    BY <2>1
  <2>3. QED BY <2>2 DEF f
<1>6. QED BY <1>5 DEF Solves

\* Every solution finds the best of what is below each node: there is no
\* position in the request furthest to its end where it does not.
LEMMA SolutionBest ==
  ASSUME Tree(nodes, full), NEW q \in Strings, NEW f, Solves(q, f)
  PROVE  \A n \in 1..Len(nodes), p \in 0..Len(q) : Best(n, Reaching(q, n, p), f[p][n])
<1> DEFINE Good(p) == \A n \in 1..Len(nodes) : Best(n, Reaching(q, n, p), f[p][n])
           D == {d \in 0..Len(q) : ~ Good(Len(q) - d)}
<1>1. DOMAIN nodes = 1..Len(nodes) /\ Len(q) \in Nat
  BY DEF Tree, Typed, Strings
<1>2. ASSUME NEW p \in 0..Len(q), \A l \in 0..Len(q) : l > p => Good(l) PROVE Good(p)
  <2> SUFFICES ASSUME NEW n \in 1..Len(nodes) PROVE Best(n, Reaching(q, n, p), f[p][n])
    OBVIOUS
  <2>1. Best(n, Reaching(q, n, p), Tried(q, f, n, p))
    BY <1>2, TriedBest
  <2>2. f[p][n] = Tried(q, f, n, p)
    BY <1>1, Solved
  <2>3. QED BY <2>1, <2>2
<1> HIDE DEF Good
<1>3. SUFFICES D = {}
  <2>1. ASSUME D = {}, NEW p \in 0..Len(q) PROVE Good(p)
    <3>1. Len(q) - p \in 0..Len(q) /\ Len(q) - (Len(q) - p) = p
      BY <1>1
    <3>2. QED BY <2>1, <3>1
  <2>2. QED BY <2>1 DEF Good
<1>4. SUFFICES ASSUME D # {} PROVE FALSE
  OBVIOUS
<1>5. D \in SUBSET Nat
  BY <1>1
<1>6. PICK d \in D : \A x \in D : d <= x
  <2> HIDE DEF D
  <2>1. QED BY <1>4, <1>5, LeastNumber
<1> DEFINE p == Len(q) - d
<1>7. d \in 0..Len(q) /\ ~ Good(p)
  BY <1>6
<1>8. p \in 0..Len(q)
  BY <1>1, <1>7
<1>9. ASSUME NEW l \in 0..Len(q), l > p PROVE Good(l)
  <2>1. Len(q) - l \in 0..Len(q) /\ Len(q) - (Len(q) - l) = l /\ ~ (d <= Len(q) - l)
    BY <1>1, <1>7, <1>9
  <2>2. Len(q) - l \notin D
    <3> HIDE DEF D
    <3>1. QED BY <1>6, <2>1
  <2>3. QED BY <2>1, <2>2
<1> HIDE DEF p
<1>10. QED BY <1>2, <1>7, <1>8, <1>9

\* So search finds the best of what is below the root.
LEMMA SearchBest ==
  ASSUME Tree(nodes, full), NEW q \in Strings
  PROVE  Best(1, q, search(q))
<1>1. PICK f : Solves(q, f) /\ search(q) = f[0][1]
  BY SolutionExists, SearchSolves
<1>2. 1 \in 1..Len(nodes) /\ full[1] = <<>> /\ 0 \in 0..Len(q)
  BY DEF Tree, Typed, Strings
<1>3. Best(1, Reaching(q, 1, 0), f[0][1])
  BY <1>1, <1>2, SolutionBest
<1>4. Reaching(q, 1, 0) = q
  <2>1. Suffix(q, 0) = q
    BY SubSeqFull DEF Suffix, Strings
  <2>2. <<>> \o q = q
    BY DEF Strings
  <2>3. QED BY <1>2, <2>1, <2>2 DEF Reaching
<1>5. QED BY <1>1, <1>3, <1>4

\* The longest match of the table is the best of what is below the root.
LEMMA LongestBest ==
  ASSUME Tree(nodes, full), nodes[1].handler = 0, NEW q \in Strings
  PROVE  Best(1, q, Promise!LongestMatch(q))
<1> DEFINE E == {x \in Table(nodes, full) :
                   IsPrefix(x.path, q) /\ (x.match_type = "Prefix" \/ x.path = q)}
<1>1. Promise!Eligible(q) = E
  BY DEF Promise!Eligible, Promise!IsPrefix, IsPrefix, Table, Entry
<1>2. nodes \in Seq(NodeType) /\ full[1] = <<>> /\ 1 \in 1..Len(nodes)
  BY DEF Tree, Typed
<1>3. ASSUME NEW m \in 1..Len(nodes), nodes[m].handler # 0
      PROVE  m \in Hits(1, q) <=>
               IsPrefix(full[m], q) /\ (nodes[m].match_type = "Prefix" \/ full[m] = q)
  <2>1. full[m] \in Strings /\ Under(<<>>, full[m]) /\ m # 1
    BY <1>3, NodeFacts DEF Under, Agree
  <2>2. IsPrefix(full[m], q) <=> Under(full[m], q)
    BY <2>1, PrefixIsUnder
  <2>3. Under(full[m], q) => (full[m] = q <=> Len(full[m]) = Len(q))
    <3>1. Under(q, q)
      BY UnderItself
    <3>2. ASSUME Under(full[m], q), Len(full[m]) = Len(q) PROVE full[m] = q
      <4>1. Under(q, full[m])
        BY <2>1, <3>1, <3>2, UnderSame DEF Strings
      <4>2. QED BY <2>1, <3>2, <4>1, UnderBoth
    <3>3. QED BY <3>2
  <2>4. QED BY <1>2, <1>3, <2>1, <2>2, <2>3 DEF Hits
<1>4. \A x : x \in E <=> \E m \in Hits(1, q) : x = Entry(nodes, full, m)
  <2>1. ASSUME NEW x \in E PROVE \E m \in Hits(1, q) : x = Entry(nodes, full, m)
    <3>1. PICK m \in 1..Len(nodes) : nodes[m].handler # 0 /\ x = Entry(nodes, full, m)
      BY <1>2, <2>1, TableIs
    <3>2. x.path = full[m] /\ x.match_type = nodes[m].match_type
      BY <3>1 DEF Entry
    <3>3. QED BY <1>3, <2>1, <3>1, <3>2
  <2>2. ASSUME NEW m \in Hits(1, q) PROVE Entry(nodes, full, m) \in E
    <3>1. m \in 1..Len(nodes) /\ nodes[m].handler # 0
      BY DEF Hits
    <3>2. Entry(nodes, full, m) \in Table(nodes, full)
      BY <1>2, <3>1, TableIs
    <3>3. Entry(nodes, full, m).path = full[m]
          /\ Entry(nodes, full, m).match_type = nodes[m].match_type
      BY DEF Entry
    <3>4. QED BY <1>3, <2>2, <3>1, <3>2, <3>3
  <2>3. QED BY <2>1, <2>2
<1> HIDE DEF E
<1>5. CASE E = {}
  <2>1. Promise!LongestMatch(q) = None
    BY <1>1, <1>5 DEF Promise!LongestMatch, Promise!None, None
  <2>2. Hits(1, q) = {}
    BY <1>4, <1>5
  <2>3. QED BY <2>1, <2>2 DEF Best
<1>6. CASE E # {}
  <2> DEFINE best == CHOOSE e \in E : \A f \in E : Len(f.path) <= Len(e.path)
  <2>1. Promise!LongestMatch(q) =
          [handler |-> best.handler, rest |-> Suffix(q, Len(best.path))]
    BY <1>1, <1>6 DEF Promise!LongestMatch, Suffix
  <2>2. PICK m \in Hits(1, q) : \A k \in Hits(1, q) : Len(full[k]) <= Len(full[m])
    <3>1. Hits(1, q) # {}
      BY <1>4, <1>6
    <3>2. QED BY <3>1, BestExists DEF Best
  <2>3. \A k : Entry(nodes, full, k).path = full[k] /\ Entry(nodes, full, k).handler = nodes[k].handler
    BY DEF Entry
  <2>4. \E e \in E : \A f \in E : Len(f.path) <= Len(e.path)
    BY <1>4, <2>2, <2>3
  <2>5. best \in E /\ \A f \in E : Len(f.path) <= Len(best.path)
    BY <2>4
  <2> HIDE DEF best
  <2>6. PICK l \in Hits(1, q) : best = Entry(nodes, full, l)
    BY <1>4, <2>5
  <2>7. \A k \in Hits(1, q) : Len(full[k]) <= Len(full[l])
    BY <1>4, <2>3, <2>5, <2>6
  <2>8. Promise!LongestMatch(q) = Served(l, q)
    BY <2>1, <2>3, <2>6 DEF Served
  <2>9. QED BY <2>7, <2>8 DEF Best
<1>7. QED BY <1>5, <1>6

\* search, which goes down one edge after another, returns the longest of all
\* the locations that may serve a request and what is left of the request
\* behind it, for every tree that insertions make and every request.
THEOREM SearchCorrect == NoEmptyPath /\ Spec => []SearchIsLongestMatch
<1>1. IInv => SearchIsLongestMatch
  <2> SUFFICES ASSUME IInv, NEW q \in Queries PROVE search(q) = Promise!LongestMatch(q)
    BY DEF SearchIsLongestMatch
  <2>1. Tree(nodes, full) /\ nodes[1].handler = 0 /\ q \in Strings
    BY StringsAssumption DEF IInv, Stored, Strings
  <2>2. Best(1, q, search(q)) /\ Best(1, q, Promise!LongestMatch(q))
    BY <2>1, SearchBest, LongestBest
  <2>3. QED BY <2>1, <2>2, BestUnique
<1>2. QED BY <1>1, Invariant, PTL

===============================================================================
