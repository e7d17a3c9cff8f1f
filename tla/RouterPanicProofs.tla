-------------------------- MODULE RouterPanicProofs --------------------------
(***************************************************************************)
(* When the construction of the router panics: the proof of PanicPredicted *)
(* of Router, for any bytes, any paths in UTF-8 and any order of them.     *)
(***************************************************************************)
EXTENDS RouterProofs

\* An entry of the configuration.
Location == [path : Paths, match_type : MatchTypes]

-------------------------------------------------------------------------------
(* Where two paths part. *)

\* Paths p and q go on from w with different characters.
Part(p, q, w) ==
  /\ Under(w, p) /\ Under(w, q) /\ Len(w) < Len(p) /\ Len(w) < Len(q)
  /\ \A l : Agree(p, q, l) /\ Boundary(p, l) => l <= Len(w)

\* The characters of what follows u in a string are those of the string.
LEMMA BoundaryBehind ==
  ASSUME NEW u \in Strings, NEW v \in Strings, NEW k \in 1..Len(v)
  PROVE  Boundary(v, k) <=> Boundary(u \o v, Len(u) + k)
<1> DEFINE a == Len(u)
           b == Len(v)
           x == u \o v
<1>1. /\ a \in Nat /\ b \in Nat /\ x \in Strings /\ Len(x) = a + b
      /\ \A i \in 1..b : x[a + i] = v[i]
  BY Concatenated DEF Strings
<1>2. b = Len(v) /\ k \in 1..b
  OBVIOUS
<1> HIDE DEF a, b, x
<1>3. k \in 1..(b - 1) <=> a + k \in 1..((a + b) - 1)
  BY <1>1, <1>2
<1>4. k \in 1..(b - 1) => x[(a + k) + 1] = v[k + 1]
  <2> HAVE k \in 1..(b - 1)
  <2>1. k + 1 \in 1..b /\ (a + k) + 1 = a + (k + 1)
    BY <1>1
  <2>2. QED BY <1>1, <2>1
<1>5. Boundary(v, k) <=> Boundary(x, a + k)
  BY <1>1, <1>2, <1>3, <1>4 DEF Boundary
<1>6. QED BY <1>5 DEF a, x

\* Two strings go on from u with the same character when a character ends
\* where they still agree.
LEMMA SameCharacter ==
  ASSUME NEW u \in Strings, NEW v \in Strings, NEW r \in Strings, v # <<>>, r # <<>>,
         Whole(u \o v), Whole(u \o r)
  PROVE  EdgeChar(v) = EdgeChar(r)
           <=> \E l : Len(u) < l /\ Agree(u \o v, u \o r, l) /\ Boundary(u \o v, l)
<1> DEFINE a == Len(u)
           x == u \o v
           y == u \o r
<1>1. a \in Nat /\ Len(v) \in Nat /\ Len(r) \in Nat /\ Len(x) = a + Len(v) /\ Len(y) = a + Len(r)
      /\ x \in Strings /\ y \in Strings
  BY Concatenated DEF Strings
<1>2. /\ \A k \in 1..Len(v) : Boundary(v, k) <=> Boundary(x, a + k)
      /\ \A k \in 1..Len(r) : Boundary(r, k) <=> Boundary(y, a + k)
  BY BoundaryBehind
<1>3. \A k \in Nat : Agree(v, r, k) <=> Agree(x, y, a + k)
  BY AgreeBehind
<1>4. Whole(x) /\ Whole(y)
  OBVIOUS
<1>5. PICK b \in 1..Len(v) :
        /\ EdgeChar(v) \in Strings /\ Len(EdgeChar(v)) = b /\ Under(EdgeChar(v), v)
        /\ Boundary(v, b) /\ \A j \in 1..(b - 1) : ~ Boundary(v, j)
  BY EdgeCharIs
<1>6. PICK c \in 1..Len(r) :
        /\ EdgeChar(r) \in Strings /\ Len(EdgeChar(r)) = c /\ Under(EdgeChar(r), r)
        /\ Boundary(r, c) /\ \A j \in 1..(c - 1) : ~ Boundary(r, j)
  BY EdgeCharIs
<1>7. \A k : k \in 1..Len(v) /\ k \in 1..Len(r) /\ Agree(v, r, k) => (Boundary(v, k) <=> Boundary(r, k))
  <2> SUFFICES ASSUME NEW k, k \in 1..Len(v), k \in 1..Len(r), Agree(v, r, k)
               PROVE  Boundary(v, k) <=> Boundary(r, k)
    OBVIOUS
  <2>1. k \in Nat /\ Agree(x, y, a + k)
    BY <1>1, <1>3
  <2> DEFINE l == a + k
  <2>2. Agree(x, y, l)
    BY <2>1
  <2> HIDE DEF l, x, y
  <2>3. Boundary(x, l) <=> Boundary(y, l)
    BY <1>1, <1>4, <2>2, WholeAgree
  <2>4. QED BY <1>2, <2>3 DEF l
<1>8. ASSUME EdgeChar(v) = EdgeChar(r)
      PROVE  \E l : Len(u) < l /\ Agree(x, y, l) /\ Boundary(x, l)
  <2>1. Agree(v, r, Len(EdgeChar(v)))
    BY <1>5, <1>6, <1>8, AgreeOver
  <2>2. b \in Nat /\ b > 0 /\ Agree(v, r, b)
    BY <1>5, <2>1
  <2>3. a < a + b /\ Agree(x, y, a + b) /\ Boundary(x, a + b)
    BY <1>1, <1>2, <1>3, <1>5, <2>2
  <2> HIDE DEF x, y
  <2>4. QED BY <2>3 DEF a
<1>9. ASSUME NEW l, a < l, Agree(x, y, l), Boundary(x, l)
      PROVE  EdgeChar(v) = EdgeChar(r)
  <2> DEFINE k == l - a
  <2>0. l \in Nat /\ l <= Len(x) /\ l <= Len(y)
    BY <1>9 DEF Agree
  <2>1. k \in Nat /\ l = a + k /\ k \in 1..Len(v) /\ k \in 1..Len(r)
    BY <1>1, <1>9, <2>0
  <2> HIDE DEF k, x, y
  <2>2. Agree(v, r, k) /\ Boundary(v, k)
    BY <1>2, <1>3, <1>9, <2>1
  <2>3. Boundary(r, k)
    BY <1>7, <2>1, <2>2
  <2>4. b <= k /\ c <= k
    <3>1. ~ (k \in 1..(b - 1)) /\ ~ (k \in 1..(c - 1))
      BY <1>5, <1>6, <2>2, <2>3
    <3>2. QED BY <1>1, <1>5, <1>6, <2>1, <3>1
  <2>5. b = c
    <3>1. Agree(v, r, b) /\ Agree(v, r, c)
      BY <1>1, <1>5, <1>6, <2>2, <2>4 DEF Agree
    <3>2. b \in 1..Len(r) /\ c \in 1..Len(v)
      BY <1>1, <2>1, <2>4
    <3>3. Boundary(r, b) /\ Boundary(v, c)
      BY <1>5, <1>6, <1>7, <3>1, <3>2
    <3>4. ~ (c \in 1..(b - 1)) /\ ~ (b \in 1..(c - 1))
      BY <1>5, <1>6, <3>3
    <3>5. QED BY <1>1, <1>5, <1>6, <3>4
  <2>6. EdgeChar(v) = EdgeChar(r)
    <3> DEFINE g == EdgeChar(v)
               h == EdgeChar(r)
    <3>1. g \in Strings /\ h \in Strings /\ Len(g) = b /\ Len(h) = b /\ b <= k /\ b \in Nat
      BY <1>5, <1>6, <2>4, <2>5
    <3>2. /\ \A i \in 1..b : g[i] = v[i] /\ h[i] = r[i]
          /\ \A i \in 1..k : v[i] = r[i]
      BY <1>5, <1>6, <2>2, <2>5 DEF Under, Agree
    <3> HIDE DEF g, h
    <3>3. \A i \in 1..b : g[i] = h[i]
      BY <2>1, <3>1, <3>2
    <3>4. g = h
      BY <3>1, <3>3, SeqEqual DEF Strings
    <3>5. QED BY <3>4 DEF g, h
  <2>7. QED BY <2>6
<1>10. QED BY <1>8, <1>9

\* HasNode asks where two paths part.
LEMMA PartIs ==
  ASSUME NEW p \in Paths, NEW q \in Paths, NEW w \in Strings
  PROVE  Part(p, q, w)
           <=> /\ IsStrictPrefix(w, p) /\ IsStrictPrefix(w, q)
               /\ EdgeChar(SubSeq(p, Len(w) + 1, Len(p))) # EdgeChar(SubSeq(q, Len(w) + 1, Len(q)))
<1> DEFINE v == SubSeq(p, Len(w) + 1, Len(p))
           r == SubSeq(q, Len(w) + 1, Len(q))
<1>1. p \in Strings /\ q \in Strings /\ Len(w) \in Nat /\ Len(p) \in Nat /\ Len(q) \in Nat
  BY StringsAssumption DEF Strings
<1>2. \A x \in Paths : Whole(x)
  <2> TAKE x \in Paths
  <2>1. x \in Strings
    BY StringsAssumption DEF Strings
  <2>2. QED BY <2>1, UnderItself, BoundaryAtEnd DEF Whole
<1>3. /\ IsStrictPrefix(w, p) <=> Under(w, p) /\ Len(w) < Len(p)
      /\ IsStrictPrefix(w, q) <=> Under(w, q) /\ Len(w) < Len(q)
  <2>1. ASSUME NEW x \in Strings PROVE IsStrictPrefix(w, x) <=> Under(w, x) /\ Len(w) < Len(x)
    <3>1. IsPrefix(w, x) <=> Under(w, x)
      BY PrefixIsUnder
    <3>2. Under(w, x) => Len(w) <= Len(x) /\ Len(x) \in Nat
      BY UnderLength
    <3>3. Under(w, x) /\ Len(w) = Len(x) => w = x
      BY <1>1, SeqEqual DEF Under, Agree, Strings
    <3>4. QED BY <1>1, <3>1, <3>2, <3>3 DEF IsStrictPrefix
  <2>2. QED BY <1>1, <2>1
<1>4. ASSUME NEW x \in Strings, Under(w, x), Len(w) < Len(x)
      PROVE  LET t == SubSeq(x, Len(w) + 1, Len(x)) IN t \in Strings /\ t # <<>> /\ x = w \o t
  <2> DEFINE a == Len(w)
             t == SubSeq(x, a + 1, Len(x))
             s == SubSeq(x, 1, a)
  <2>1. a \in 0..Len(x) /\ Len(x) \in Nat
    BY <1>1, <1>4 DEF Strings
  <2>2. /\ s \in Strings /\ Len(s) = a /\ Under(s, x)
        /\ t \in Strings /\ Len(t) = Len(x) - a /\ x = s \o t
    BY <2>1, Cut
  <2>3. a < Len(x) /\ a = Len(w)
    BY <1>4
  <2> HIDE DEF a, s, t
  <2>4. Under(s, w)
    BY <1>4, <2>2, <2>3, <1>1, UnderSame
  <2>5. Under(w, s)
    BY <1>4, <2>2, <2>3, <1>1, UnderSame
  <2>6. s = w
    BY <2>2, <2>4, <2>5, UnderBoth
  <2>7. Len(t) # 0
    BY <1>1, <2>1, <2>2, <2>3
  <2>8. t # <<>>
    BY <2>7
  <2>9. QED BY <2>2, <2>6, <2>8 DEF t, a
<1>5. ASSUME Under(w, p), Len(w) < Len(p), Under(w, q), Len(w) < Len(q)
      PROVE  EdgeChar(v) # EdgeChar(r) <=> \A l : Agree(p, q, l) /\ Boundary(p, l) => l <= Len(w)
  <2>1. v \in Strings /\ v # <<>> /\ p = w \o v /\ r \in Strings /\ r # <<>> /\ q = w \o r
    BY <1>1, <1>4, <1>5
  <2> HIDE DEF v, r
  <2>2. Whole(w \o v) /\ Whole(w \o r)
    BY <1>2, <2>1
  <2>3. EdgeChar(v) = EdgeChar(r)
           <=> \E l : Len(w) < l /\ Agree(w \o v, w \o r, l) /\ Boundary(w \o v, l)
    BY <2>1, <2>2, SameCharacter
  <2>4. EdgeChar(v) = EdgeChar(r) <=> \E l : Len(w) < l /\ Agree(p, q, l) /\ Boundary(p, l)
    BY <2>1, <2>3
  <2>5. \A l : Agree(p, q, l) => (Len(w) < l <=> ~ (l <= Len(w)))
    BY <1>1 DEF Agree
  <2>6. QED BY <2>4, <2>5
<1>6. QED BY <1>3, <1>5 DEF Part

-------------------------------------------------------------------------------
(* The nodes that the locations ask for. *)

\* A node of the tree has path w.
HasPath(fl, w) == \E n \in 1..Len(fl) : fl[n] = w

\* Each of the locations R has a node.
Held(R, fl) == \A i \in 1..Len(R) : HasPath(fl, R[i].path)

\* Each node but the root is on the way to one of the locations R.
Rooted(R, fl) ==
  \A w : HasPath(fl, w) => w = <<>> \/ \E i \in 1..Len(R) : Under(w, R[i].path)

\* A path that is registered.
LEMMA LocationFacts ==
  ASSUME NEW R \in Seq(Location), NEW i \in 1..Len(R)
  PROVE  R[i].path \in Paths /\ R[i].path \in Strings /\ Whole(R[i].path) /\ Len(R[i].path) \in Nat
<1>1. R[i] \in Location
  <2> HIDE DEF Location
  <2>1. QED OBVIOUS
<1>2. R[i].path \in Paths /\ R[i].path \in Strings
  BY <1>1, StringsAssumption DEF Location, Strings
<1>3. Whole(R[i].path)
  BY <1>2, UnderItself, BoundaryAtEnd DEF Whole
<1>4. QED BY <1>2, <1>3 DEF Strings

\* HasNode, in these words.
LEMMA HasNodeIs ==
  ASSUME NEW R \in Seq(Location), NEW w \in Strings
  PROVE  HasNode(R, w) <=> \/ w = <<>>
                           \/ \E i \in 1..Len(R) : R[i].path = w
                           \/ \E i, j \in 1..Len(R) : Part(R[i].path, R[j].path, w)
<1>1. DOMAIN R = 1..Len(R)
  <2> HIDE DEF Location
  <2>1. QED OBVIOUS
<1>2. \A i \in 1..Len(R) : R[i].path \in Paths
  BY LocationFacts
<1>3. \A i, j \in 1..Len(R) :
        Part(R[i].path, R[j].path, w)
          <=> LET p == R[i].path
                  q == R[j].path
              IN  /\ IsStrictPrefix(w, p) /\ IsStrictPrefix(w, q)
                  /\ EdgeChar(SubSeq(p, Len(w) + 1, Len(p)))
                       # EdgeChar(SubSeq(q, Len(w) + 1, Len(q)))
  BY <1>2, PartIs
<1>4. QED BY <1>1, <1>3 DEF HasNode

\* Of the nodes on the way to w one is the deepest.
LEMMA Deepest ==
  ASSUME NEW nd, NEW fl, Tree(nd, fl), NEW w \in Strings
  PROVE  \E m \in 1..Len(nd) :
           /\ Under(fl[m], w)
           /\ \A n \in 1..Len(nd) : Under(fl[n], w) => Len(fl[n]) <= Len(fl[m])
<1> DEFINE D == {d \in 0..Len(w) : \E m \in 1..Len(nd) : Under(fl[m], w) /\ Len(fl[m]) = Len(w) - d}
<1>1. Len(w) \in Nat /\ Len(nd) \in Nat /\ Len(nd) >= 1 /\ fl[1] = <<>>
  BY DEF Strings, Tree, Typed
<1>2. \A n \in 1..Len(nd) : Under(fl[n], w) => Len(fl[n]) \in 0..Len(w)
  <2> TAKE n \in 1..Len(nd)
  <2> HAVE Under(fl[n], w)
  <2>1. fl[n] \in Strings
    BY NodeFacts
  <2>2. Len(fl[n]) \in Nat /\ Len(fl[n]) <= Len(w)
    BY <2>1, UnderLength
  <2>3. QED BY <1>1, <2>2
<1>3. \A n \in 1..Len(nd) : Under(fl[n], w) => Len(w) - Len(fl[n]) \in D
  <2> TAKE n \in 1..Len(nd)
  <2> HAVE Under(fl[n], w)
  <2> DEFINE l == Len(fl[n])
  <2>1. l \in 0..Len(w)
    BY <1>2
  <2> HIDE DEF l
  <2>2. Len(w) - l \in 0..Len(w) /\ l = Len(w) - (Len(w) - l)
    BY <1>1, <2>1
  <2>3. QED BY <2>2 DEF l
<1>4. D \in SUBSET Nat
  BY <1>1
<1>5. D # {}
  <2>1. Under(fl[1], w) /\ 1 \in 1..Len(nd)
    BY <1>1 DEF Under, Agree
  <2>2. QED BY <1>3, <2>1
<1>6. PICK d \in D : \A e \in D : d <= e
  BY <1>4, <1>5, LeastNumber
<1>7. PICK m \in 1..Len(nd) : Under(fl[m], w) /\ Len(fl[m]) = Len(w) - d
  BY <1>6
<1>8. d \in 0..Len(w)
  BY <1>6
<1> HIDE DEF D
<1>9. ASSUME NEW n \in 1..Len(nd), Under(fl[n], w) PROVE Len(fl[n]) <= Len(fl[m])
  <2> DEFINE l == Len(fl[n])
  <2>1. l \in 0..Len(w) /\ Len(w) - l \in D
    BY <1>2, <1>3, <1>9
  <2> HIDE DEF l
  <2>2. d <= Len(w) - l
    BY <1>6, <2>1
  <2>3. l <= Len(w) - d
    BY <1>1, <1>8, <2>1, <2>2
  <2>4. QED BY <1>7, <2>3 DEF l
<1>10. QED BY <1>7, <1>9

\* Where the paths of two nodes part there is a node.
LEMMA PartHasPath ==
  ASSUME NEW nd, NEW fl, Tree(nd, fl), NEW x \in 1..Len(nd), NEW y \in 1..Len(nd),
         NEW w \in Strings, Whole(w), Part(fl[x], fl[y], w)
  PROVE  HasPath(fl, w)
<1> SUFFICES ASSUME ~ HasPath(fl, w) PROVE FALSE
  OBVIOUS
<1>1. /\ Len(fl) = Len(nd) /\ Len(w) \in Nat
      /\ \A n \in 1..Len(nd) : fl[n] \in Strings /\ Len(fl[n]) \in Nat /\ Whole(fl[n])
  <2>1. Len(fl) = Len(nd) /\ Len(w) \in Nat
    BY DEF Tree, Typed, Strings
  <2>2. QED BY <2>1, NodeFacts
<1>2. PICK m \in 1..Len(nd) :
        /\ Under(fl[m], w)
        /\ \A n \in 1..Len(nd) : Under(fl[n], w) => Len(fl[n]) <= Len(fl[m])
  BY Deepest
<1>3. Under(w, fl[x]) /\ Under(w, fl[y]) /\ Len(w) < Len(fl[x]) /\ Len(w) < Len(fl[y])
      /\ \A l : Agree(fl[x], fl[y], l) /\ Boundary(fl[x], l) => l <= Len(w)
  BY DEF Part
<1>4. Len(fl[m]) < Len(w)
  <2>1. Len(fl[m]) <= Len(w)
    BY <1>1, <1>2, UnderLength
  <2>2. CASE Len(fl[m]) = Len(w)
    <3>1. fl[m] = w
      BY <1>1, <1>2, <2>2, SeqEqual DEF Under, Agree, Strings
    <3>2. QED BY <1>1, <3>1 DEF HasPath
  <2>3. QED BY <1>1, <2>1, <2>2
<1>5. ASSUME NEW z \in 1..Len(nd), Under(w, fl[z]), Len(w) < Len(fl[z])
      PROVE  \E c : Child(nd, m, c) /\ Under(fl[c], fl[z]) /\ Under(w, fl[c]) /\ Len(w) < Len(fl[c])
  <2>1. m # z /\ Under(fl[m], fl[z])
    BY <1>1, <1>2, <1>4, <1>5, UnderTransitive
  <2>2. PICK c : Child(nd, m, c) /\ Under(fl[c], fl[z])
    BY <2>1 DEF Tree, Covered
  <2>3. c \in 1..Len(nd) /\ fl[c] \in Strings /\ Len(fl[c]) \in Nat /\ Len(fl[m]) < Len(fl[c])
    BY <2>2, ChildBelow
  <2>4. ~ (Len(fl[c]) <= Len(w))
    <3> SUFFICES ASSUME Len(fl[c]) <= Len(w) PROVE FALSE
      OBVIOUS
    <3>1. Under(fl[c], w)
      BY <1>1, <1>5, <2>2, <2>3, UnderSame
    <3>2. Len(fl[c]) <= Len(fl[m])
      BY <1>2, <2>3, <3>1
    <3>3. QED BY <1>1, <2>3, <3>2
  <2>5. Len(w) < Len(fl[c])
    BY <1>1, <2>3, <2>4
  <2>6. Under(w, fl[c])
    BY <1>1, <1>5, <2>2, <2>3, <2>5, UnderSame
  <2>7. QED BY <2>2, <2>5, <2>6
<1>6. PICK c : Child(nd, m, c) /\ Under(fl[c], fl[x]) /\ Under(w, fl[c]) /\ Len(w) < Len(fl[c])
  BY <1>3, <1>5
<1>7. PICK d : Child(nd, m, d) /\ Under(fl[d], fl[y]) /\ Under(w, fl[d]) /\ Len(w) < Len(fl[d])
  BY <1>3, <1>5
<1>8. /\ c \in 1..Len(nd) /\ d \in 1..Len(nd) /\ fl[c] \in Strings /\ fl[d] \in Strings
      /\ Len(fl[c]) \in Nat
  BY <1>6, <1>7, ChildBelow
<1>9. c = d
  <2>1. Agree(fl[c], fl[d], Len(w))
    BY <1>6, <1>7, <1>8, AgreeOver
  <2>2. Boundary(fl[c], Len(w))
    <3>1. Agree(w, fl[c], Len(w))
      BY <1>6 DEF Under
    <3>2. Boundary(w, Len(w))
      BY BoundaryAtEnd
    <3>3. Whole(fl[c])
      BY <1>1, <1>8
    <3>4. QED BY <1>8, <3>1, <3>2, <3>3, WholeAgree
  <2>3. QED BY <1>1, <1>4, <1>6, <1>7, <2>1, <2>2, OneChild
<1>10. Agree(fl[x], fl[y], Len(fl[c]))
  BY <1>1, <1>6, <1>7, <1>8, <1>9, AgreeOver
<1>11. Boundary(fl[x], Len(fl[c]))
  <2>1. Agree(fl[c], fl[x], Len(fl[c]))
    BY <1>6 DEF Under
  <2>2. Boundary(fl[c], Len(fl[c]))
    BY <1>8, BoundaryAtEnd
  <2>3. QED BY <1>1, <1>8, <2>1, <2>2, WholeAgree
<1>12. Len(fl[c]) <= Len(w)
  BY <1>3, <1>10, <1>11
<1>13. QED BY <1>1, <1>6, <1>8, <1>12

\* So a tree that holds the locations has every node they ask for.
LEMMA AskedIsHeld ==
  ASSUME NEW nd, NEW fl, Tree(nd, fl), NEW R \in Seq(Location), Held(R, fl),
         NEW w \in Strings, Whole(w), HasNode(R, w)
  PROVE  HasPath(fl, w)
<1>1. Len(fl) = Len(nd) /\ 1 \in 1..Len(fl) /\ fl[1] = <<>>
  BY DEF Tree, Typed
<1>2. CASE w = <<>>
  BY <1>1, <1>2 DEF HasPath
<1>3. CASE \E i \in 1..Len(R) : R[i].path = w
  BY <1>3 DEF Held
<1>4. ASSUME NEW i \in 1..Len(R), NEW j \in 1..Len(R), Part(R[i].path, R[j].path, w)
      PROVE  HasPath(fl, w)
  <2>1. PICK x \in 1..Len(nd) : fl[x] = R[i].path
    BY <1>1 DEF Held, HasPath
  <2>2. PICK y \in 1..Len(nd) : fl[y] = R[j].path
    BY <1>1 DEF Held, HasPath
  <2>3. Part(fl[x], fl[y], w)
    BY <1>4, <2>1, <2>2
  <2>4. QED BY <2>3, PartHasPath
<1>5. QED BY <1>2, <1>3, <1>4, HasNodeIs

-------------------------------------------------------------------------------
(* Where a character is cut. *)

\* Paths q and p part inside a character, and w is what comes before it.
Cuts(q, p, w) ==
  \E k : /\ Agree(q, p, k) /\ k < Len(q) /\ k < Len(p) /\ q[k + 1] # p[k + 1]
         /\ ~ Boundary(p, k)
         /\ Under(w, p) /\ Len(w) <= k /\ Boundary(p, Len(w))
         /\ \A l \in (Len(w) + 1)..k : ~ Boundary(p, l)

\* The last character that ends before byte k.
LEMMA LastEnd ==
  ASSUME NEW p, NEW k \in Nat
  PROVE  \E e \in 0..k : Boundary(p, e) /\ \A l \in (e + 1)..k : ~ Boundary(p, l)
<1> DEFINE D == {d \in 0..k : Boundary(p, k - d)}
<1>1. D \in SUBSET Nat
  OBVIOUS
<1>2. D # {}
  <2>1. Boundary(p, 0)
    BY DEF Boundary
  <2>2. k \in 0..k /\ k - k = 0
    OBVIOUS
  <2>3. QED BY <2>1, <2>2
<1>3. PICK d \in D : \A e \in D : d <= e
  BY <1>1, <1>2, LeastNumber
<1>4. d \in 0..k /\ Boundary(p, k - d)
  BY <1>3
<1>5. ASSUME NEW l \in (k - d + 1)..k, Boundary(p, l) PROVE FALSE
  <2>1. l \in Nat /\ k - l \in 0..k /\ k - (k - l) = l /\ k - l < d
    BY <1>4
  <2>2. k - l \in D
    BY <1>5, <2>1
  <2> HIDE DEF D
  <2>3. d <= k - l
    BY <1>3, <2>2
  <2>4. QED BY <1>4, <2>1, <2>3
<1>6. k - d \in 0..k
  BY <1>4
<1>7. QED BY <1>4, <1>5, <1>6

\* CutsCharacter, in these words.
LEMMA CutsIs ==
  ASSUME NEW R \in Seq(Location), NEW p \in Paths
  PROVE  CutsCharacter(R, p)
           <=> \E i \in 1..Len(R) : \E w \in Strings : Cuts(R[i].path, p, w) /\ ~ HasNode(R, w)
<1> DEFINE Length(i) == calculate_common_prefix_len(R[i].path, p)
           LastIn(k, e) == e \in 0..k /\ Boundary(p, e) /\ \A l \in (e + 1)..k : ~ Boundary(p, l)
           End(k) == CHOOSE e \in 0..k : Boundary(p, e) /\ \A l \in (e + 1)..k : ~ Boundary(p, l)
<1>1. DOMAIN R = 1..Len(R)
  <2> HIDE DEF Location
  <2>1. QED OBVIOUS
<1>2. p \in Strings /\ Len(p) \in Nat /\ Whole(p)
  <2>1. p \in Strings
    BY StringsAssumption DEF Strings
  <2>2. QED BY <2>1, UnderItself, BoundaryAtEnd DEF Whole, Strings
<1>3. CutsCharacter(R, p)
        <=> \E i \in 1..Len(R) :
              ~ Boundary(p, Length(i)) /\ ~ HasNode(R, SubSeq(p, 1, End(Length(i))))
  BY <1>1 DEF CutsCharacter
<1>4. \A k \in Nat : LastIn(k, End(k)) /\ \A e : LastIn(k, e) => e = End(k)
  <2> TAKE k \in Nat
  <2>1. LastIn(k, End(k))
    BY LastEnd
  <2>2. ASSUME NEW e, LastIn(k, e), NEW d, LastIn(k, d) PROVE e = d
    <3>1. e \in Nat /\ d \in Nat /\ e <= k /\ d <= k
      BY <2>2
    <3>2. ~ (e \in (d + 1)..k) /\ ~ (d \in (e + 1)..k)
      BY <2>2
    <3>3. QED BY <3>1, <3>2
  <2> HIDE DEF LastIn, End
  <2>3. QED BY <2>1, <2>2
<1> HIDE DEF End
<1>5. ASSUME NEW i \in 1..Len(R), ~ Boundary(p, Length(i))
      PROVE  /\ Cuts(R[i].path, p, SubSeq(p, 1, End(Length(i))))
             /\ SubSeq(p, 1, End(Length(i))) \in Strings
  <2> DEFINE q == R[i].path
             k == Length(i)
             e == End(k)
             w == SubSeq(p, 1, e)
  <2>1. q \in Strings /\ Len(q) \in Nat /\ Whole(q)
    BY LocationFacts
  <2>2. /\ Agree(q, p, k)
        /\ k < Len(q) /\ k < Len(p) => q[k + 1] # p[k + 1]
    BY <1>2, <2>1, CommonPrefix
  <2>3. ~ Boundary(p, k)
    BY <1>5
  <2> HIDE DEF Length, q, k
  <2>4. k \in Nat /\ k <= Len(p) /\ k <= Len(q)
    BY <2>2 DEF Agree
  <2>5. ~ Boundary(q, k)
    BY <1>2, <2>1, <2>2, <2>3, WholeAgree
  <2>6. k < Len(p) /\ k < Len(q)
    <3>1. k # Len(p) /\ k # Len(q)
      BY <1>2, <2>1, <2>3, <2>5, BoundaryAtEnd
    <3>2. QED BY <1>2, <2>1, <2>4, <3>1
  <2>7. e \in 0..k /\ Boundary(p, e) /\ \A l \in (e + 1)..k : ~ Boundary(p, l)
    BY <1>4, <2>4
  <2> HIDE DEF e
  <2>8. e \in 0..Len(p)
    BY <1>2, <2>4, <2>7
  <2>9. w \in Strings /\ Len(w) = e /\ Under(w, p)
    BY <1>2, <2>8, Cut
  <2> HIDE DEF w
  <2>10. Cuts(q, p, w)
    BY <2>2, <2>3, <2>6, <2>7, <2>9 DEF Cuts
  <2>11. QED BY <2>9, <2>10 DEF q, k, e, w
<1>6. ASSUME NEW i \in 1..Len(R), NEW w \in Strings, Cuts(R[i].path, p, w)
      PROVE  ~ Boundary(p, Length(i)) /\ w = SubSeq(p, 1, End(Length(i)))
  <2> DEFINE q == R[i].path
             m == Length(i)
  <2>1. q \in Strings /\ Len(q) \in Nat /\ Len(w) \in Nat
    BY LocationFacts DEF Strings
  <2>2. /\ Agree(q, p, m)
        /\ m < Len(q) /\ m < Len(p) => q[m + 1] # p[m + 1]
    BY <1>2, <2>1, CommonPrefix
  <2>3. PICK k : /\ Agree(q, p, k) /\ k < Len(q) /\ k < Len(p) /\ q[k + 1] # p[k + 1]
                 /\ ~ Boundary(p, k)
                 /\ Under(w, p) /\ Len(w) <= k /\ Boundary(p, Len(w))
                 /\ \A l \in (Len(w) + 1)..k : ~ Boundary(p, l)
    BY <1>6 DEF Cuts
  <2> HIDE DEF Length, q, m
  <2>4. /\ k \in Nat /\ m \in Nat /\ m <= Len(q) /\ m <= Len(p)
        /\ \A l \in 1..k : q[l] = p[l]
        /\ \A l \in 1..m : q[l] = p[l]
    BY <2>2, <2>3 DEF Agree
  <2>5. ~ (k < m)
    <3> SUFFICES ASSUME k < m PROVE FALSE
      OBVIOUS
    <3>1. k + 1 \in 1..m
      BY <2>4
    <3>2. QED BY <2>3, <2>4, <3>1
  <2>6. ~ (m < k)
    <3> SUFFICES ASSUME m < k PROVE FALSE
      OBVIOUS
    <3>1. m + 1 \in 1..k /\ m < Len(q) /\ m < Len(p)
      BY <1>2, <2>1, <2>3, <2>4
    <3>2. QED BY <2>2, <2>4, <3>1
  <2>7. m = k
    BY <2>4, <2>5, <2>6
  <2>8. Len(w) = End(k)
    <3>1. LastIn(k, Len(w))
      BY <2>1, <2>3, <2>4
    <3> HIDE DEF LastIn
    <3>2. QED BY <1>4, <2>4, <3>1
  <2>9. w = SubSeq(p, 1, Len(w))
    <3>1. Len(w) \in 0..Len(p)
      BY <1>2, <2>1, <2>3, <2>4
    <3> DEFINE v == SubSeq(p, 1, Len(w))
    <3>2. v \in Strings /\ Len(v) = Len(w) /\ Under(v, p)
      BY <1>2, <3>1, Cut
    <3> HIDE DEF v
    <3>3. \A l \in 1..Len(w) : v[l] = w[l]
      BY <2>3, <3>2 DEF Under, Agree
    <3>4. v = w
      BY <3>2, <3>3, SeqEqual DEF Strings
    <3>5. QED BY <3>4 DEF v
  <2>10. QED BY <2>3, <2>7, <2>8, <2>9 DEF m
<1> HIDE DEF Length
<1>7. QED BY <1>3, <1>5, <1>6

-------------------------------------------------------------------------------
(* The invariant. *)

\* A location of R goes on from w with another byte than path p.
Beside(R, p, w) ==
  \E i \in 1..Len(R) :
    LET q == R[i].path
    IN  /\ Under(w, q) /\ Under(w, p) /\ Len(w) < Len(q) /\ Len(w) < Len(p)
        /\ q[Len(w) + 1] # p[Len(w) + 1]

\* Each node is one the locations ask for, except the one a split has just
\* made, which the location being inserted is about to ask for.
Justified ==
  \A w : HasPath(full, w) =>
    \/ HasNode(Registered, w)
    \/ /\ pc = "insert" /\ SameEdge = {} /\ w = full[at]
       /\ Beside(Registered, current.path, w)

\* No location that has been inserted cut a character.
Uncut ==
  \A n \in 1..Len(Registered) :
    ~ CutsCharacter(SubSeq(locations, 1, n - 1), locations[n].path)

\* The location at which the construction panicked did.
Halted ==
  pc = "panicked" =>
    Len(locations) >= 1 /\ CutsCharacter(Front(locations), current.path)

\* What is added to the invariant of the insertions.
PInv ==
  Held(Registered, full) /\ Rooted(Registered, full) /\ Justified /\ Uncut /\ Halted

\* What p and a location of R part at, R asks for once p is registered.
LEMMA BesideAsked ==
  ASSUME NEW R \in Seq(Location), NEW x \in Location, NEW w \in Strings, Beside(R, x.path, w)
  PROVE  HasNode(Append(R, x), w)
<1> DEFINE p == x.path
           S == Append(R, x)
<1>1. PICK i \in 1..Len(R) :
        LET q == R[i].path
        IN  /\ Under(w, q) /\ Under(w, p) /\ Len(w) < Len(q) /\ Len(w) < Len(p)
            /\ q[Len(w) + 1] # p[Len(w) + 1]
  BY DEF Beside
<1>2. /\ S \in Seq(Location) /\ Len(S) = Len(R) + 1 /\ Len(R) \in Nat
      /\ \A j \in 1..Len(R) : S[j] = R[j]
      /\ S[Len(R) + 1] = x
  <2> HIDE DEF Location
  <2>1. QED BY AppendProperties, LenProperties
<1>3. i \in 1..Len(S) /\ Len(S) \in 1..Len(S) /\ S[i].path = R[i].path /\ S[Len(S)].path = p
  BY <1>2
<1>4. Part(p, R[i].path, w)
  <2> DEFINE q == R[i].path
             a == Len(w)
  <2>1. a \in Nat
    BY DEF Strings
  <2>2. ASSUME NEW l, Agree(p, q, l) PROVE l <= a
    <3>1. l \in Nat /\ \A j \in 1..l : p[j] = q[j]
      BY <2>2 DEF Agree
    <3>2. q[a + 1] # p[a + 1]
      BY <1>1
    <3> HIDE DEF a, p, q
    <3>3. ~ (a + 1 \in 1..l)
      BY <3>1, <3>2
    <3>4. QED BY <2>1, <3>1, <3>3
  <2>3. QED BY <1>1, <2>2 DEF Part
<1> HIDE DEF S
<1>5. \E j, k \in 1..Len(S) : Part(S[j].path, S[k].path, w)
  BY <1>3, <1>4
<1>6. HasNode(S, w)
  BY <1>2, <1>5, HasNodeIs
<1>7. QED BY <1>6 DEF S

\* What R asks for is asked for once another location is registered.
LEMMA StillAsked ==
  ASSUME NEW R \in Seq(Location), NEW x \in Location, NEW w \in Strings, HasNode(R, w)
  PROVE  HasNode(Append(R, x), w)
<1> DEFINE S == Append(R, x)
<1>1. /\ S \in Seq(Location) /\ Len(S) = Len(R) + 1 /\ Len(R) \in Nat
      /\ \A j \in 1..Len(R) : S[j] = R[j]
  <2> HIDE DEF Location
  <2>1. QED BY AppendProperties, LenProperties
<1>2. \A j \in 1..Len(R) : j \in 1..Len(S) /\ S[j].path = R[j].path
  BY <1>1
<1> HIDE DEF S
<1>3. HasNode(S, w)
  <2>1. \/ w = <<>>
        \/ \E i \in 1..Len(R) : R[i].path = w
        \/ \E i, j \in 1..Len(R) : Part(R[i].path, R[j].path, w)
    BY HasNodeIs
  <2>2. \/ w = <<>>
        \/ \E i \in 1..Len(S) : S[i].path = w
        \/ \E i, j \in 1..Len(S) : Part(S[i].path, S[j].path, w)
    BY <1>2, <2>1
  <2>3. QED BY <1>1, <2>2, HasNodeIs
<1>4. QED BY <1>3 DEF S

\* Once p has a node, and no node is new but those p and a location of R ask
\* for, p has cut no character: the node at the cut would be asked for by R.
LEMMA NotCut ==
  ASSUME NEW nd, NEW fl, Tree(nd, fl), NEW R \in Seq(Location), NEW p \in Paths,
         Held(R, fl), HasPath(fl, p),
         \A w : HasPath(fl, w) => w = p \/ HasNode(R, w) \/ Beside(R, p, w)
  PROVE  ~ CutsCharacter(R, p)
<1> SUFFICES ASSUME CutsCharacter(R, p) PROVE FALSE
  OBVIOUS
<1>1. PICK i \in 1..Len(R) : \E w \in Strings : Cuts(R[i].path, p, w) /\ ~ HasNode(R, w)
  BY CutsIs
<1>2. PICK w \in Strings : Cuts(R[i].path, p, w) /\ ~ HasNode(R, w)
  BY <1>1
<1> DEFINE q == R[i].path
           a == Len(w)
<1>3. PICK k : /\ Agree(q, p, k) /\ k < Len(q) /\ k < Len(p) /\ q[k + 1] # p[k + 1]
               /\ ~ Boundary(p, k)
               /\ Under(w, p) /\ a <= k /\ Boundary(p, a)
               /\ \A l \in (a + 1)..k : ~ Boundary(p, l)
  BY <1>2 DEF Cuts
<1>4. /\ p \in Strings /\ Whole(p) /\ Len(p) \in Nat /\ q \in Strings /\ Len(q) \in Nat /\ a \in Nat
      /\ k \in Nat
  <2>1. p \in Strings
    BY StringsAssumption DEF Strings
  <2>2. Whole(p)
    BY <2>1, UnderItself, BoundaryAtEnd DEF Whole
  <2>3. q \in Strings /\ Len(q) \in Nat
    BY LocationFacts
  <2>4. k \in Nat
    BY <1>3 DEF Agree
  <2>5. QED BY <2>1, <2>2, <2>3, <2>4 DEF Strings
<1>5. a < k
  <2>1. a # k
    BY <1>3
  <2>2. QED BY <1>3, <1>4, <2>1
<1>6. Under(w, q)
  BY <1>3, <1>4 DEF Under, Agree
<1>7. Part(p, q, w)
  <2>1. ASSUME NEW l, Agree(p, q, l), Boundary(p, l) PROVE l <= a
    <3>1. l \in Nat /\ \A j \in 1..l : p[j] = q[j]
      BY <2>1 DEF Agree
    <3> HIDE DEF a, q
    <3>2. ~ (k + 1 \in 1..l)
      BY <1>3, <3>1
    <3>3. ~ (l \in (a + 1)..k)
      BY <1>3, <2>1
    <3>4. QED BY <1>4, <3>1, <3>2, <3>3
  <2>2. a < Len(p) /\ a < Len(q)
    <3> HIDE DEF a, q
    <3>1. QED BY <1>3, <1>4, <1>5
  <2>3. QED BY <1>3, <1>6, <2>1, <2>2 DEF Part
<1>8. HasPath(fl, w)
  <2>1. Len(fl) = Len(nd)
    BY DEF Tree, Typed
  <2>2. PICK x \in 1..Len(nd) : fl[x] = p
    BY <2>1 DEF HasPath
  <2>3. PICK y \in 1..Len(nd) : fl[y] = q
    BY <2>1 DEF Held, HasPath
  <2>4. Whole(w)
    BY <1>3, <1>4, WholePrefix
  <2>5. Part(fl[x], fl[y], w)
    BY <1>7, <2>2, <2>3
  <2>6. QED BY <2>4, <2>5, PartHasPath
<1>9. w # p
  <2> HIDE DEF q
  <2>1. QED BY <1>3, <1>4, <1>5
<1>10. Beside(R, p, w)
  BY <1>2, <1>8, <1>9
<1>11. PICK j \in 1..Len(R) :
         /\ Under(w, R[j].path) /\ a < Len(R[j].path)
         /\ R[j].path[a + 1] # p[a + 1]
  BY <1>10 DEF Beside
<1>12. Part(q, R[j].path, w)
  <2> DEFINE r == R[j].path
  <2>1. q[a + 1] = p[a + 1] /\ a < Len(q)
    <3>1. a + 1 \in 1..k /\ \A l \in 1..k : q[l] = p[l]
      BY <1>3, <1>4, <1>5 DEF Agree
    <3> HIDE DEF a, q
    <3>2. QED BY <1>3, <1>4, <1>5, <3>1
  <2>2. ASSUME NEW l, Agree(q, r, l) PROVE l <= a
    <3>1. l \in Nat /\ \A n \in 1..l : q[n] = r[n]
      BY <2>2 DEF Agree
    <3>2. r[a + 1] # q[a + 1]
      BY <1>11, <2>1
    <3> HIDE DEF a, q, r
    <3>3. ~ (a + 1 \in 1..l)
      BY <3>1, <3>2
    <3>4. QED BY <1>4, <3>1, <3>3
  <2>3. QED BY <1>6, <1>11, <2>1, <2>2 DEF Part
<1>13. HasNode(R, w)
  BY <1>12, HasNodeIs
<1>14. QED BY <1>2, <1>13

-------------------------------------------------------------------------------
(* What insert does to the paths of the nodes. *)

\* All but the last of a sequence of locations.
LEMMA FrontFacts ==
  ASSUME NEW s \in Seq(Location), Len(s) >= 1
  PROVE  /\ Front(s) \in Seq(Location) /\ Len(s) \in Nat /\ Len(Front(s)) = Len(s) - 1
         /\ \A i \in 1..(Len(s) - 1) : Front(s)[i] = s[i]
         /\ s[Len(s)] \in Location /\ Append(Front(s), s[Len(s)]) = s
<1> HIDE DEF Location
<1>1. Len(s) \in Nat /\ s[Len(s)] \in Location
  OBVIOUS
<1>2. Append(Front(s), s[Len(s)]) = s
  BY <1>1, FrontAppend
<1> DEFINE l == Len(s) - 1
<1>3. 1 \in 1..(Len(s) + 1) /\ l \in (1 - 1)..Len(s) /\ l - 1 + 1 = l
  BY <1>1
<1>4. Front(s) = SubSeq(s, 1, l)
  BY DEF Front
<1> HIDE DEF l
<1>5. /\ SubSeq(s, 1, l) \in Seq(Location) /\ Len(SubSeq(s, 1, l)) = l
      /\ \A i \in 1..l : SubSeq(s, 1, l)[i] = s[i]
  BY <1>3, SubSeqProperties
<1>6. QED BY <1>1, <1>2, <1>4, <1>5 DEF l

\* Where an insertion runs.
LEMMA InsertFacts ==
  ASSUME IInv, pc = "insert"
  PROVE  /\ Tree(nodes, full) /\ Len(full) = Len(nodes) /\ at \in 1..Len(nodes)
         /\ locations \in Seq(Location) /\ Len(locations) >= 1 /\ Len(locations) \in Nat
         /\ Registered = Front(locations) /\ Registered \in Seq(Location)
         /\ Len(Registered) = Len(locations) - 1
         /\ \A i \in 1..Len(Registered) : Registered[i] = locations[i]
         /\ current \in Location /\ current.path \in Paths /\ current.path \in Strings
         /\ Whole(current.path) /\ Append(Registered, current) = locations
<1>1. /\ Tree(nodes, full) /\ Len(full) = Len(nodes) /\ at \in 1..Len(nodes)
      /\ locations \in Seq(Location) /\ Len(locations) >= 1
  BY DEF IInv, Stored, Inserting, Location, Tree, Typed
<1>2. Registered = Front(locations)
  BY DEF Registered
<1>3. /\ Front(locations) \in Seq(Location) /\ Len(locations) \in Nat
      /\ Len(Front(locations)) = Len(locations) - 1
      /\ \A i \in 1..(Len(locations) - 1) : Front(locations)[i] = locations[i]
      /\ current \in Location /\ Append(Front(locations), current) = locations
  BY <1>1, FrontFacts DEF current
<1>4. current.path \in Paths /\ current.path \in Strings
  BY <1>3, StringsAssumption DEF Location, Strings
<1>5. Whole(current.path)
  BY <1>4, UnderItself, BoundaryAtEnd DEF Whole
<1>6. QED BY <1>1, <1>2, <1>3, <1>4, <1>5

\* The path goes on with the first character of the child's edge.
LEMMA FirstFits ==
  ASSUME IInv, pc = "insert", SameEdge # {}
  PROVE  IsPrefix(EdgeChar(nodes[child].path), rest)
<1>1. at \in 1..Len(nodes) /\ Tree(nodes, full)
  BY InsertFacts
<1>2. SameEdge \in SUBSET Nat
  BY <1>1, NodeFacts DEF SameEdge
<1>3. PICK i \in SameEdge : \A j \in SameEdge : i <= j
  BY <1>2, LeastNumber
<1> DEFINE first == CHOOSE x \in SameEdge : \A j \in SameEdge : x <= j
<1>4. first \in SameEdge
  BY <1>3
<1>5. child = nodes[at].children[first]
  BY DEF child
<1> HIDE DEF first
<1>6. QED BY <1>4, <1>5 DEF SameEdge

\* Preparing the child adds at most its new path.
LEMMA PreparedPaths ==
  ASSUME IInv, pc = "insert", SameEdge # {}, Boundary(nodes[child].path, common)
  PROVE  \A w : HasPath(PreparedFull, w) <=> HasPath(full, w) \/ w = PreparedFull[child]
<1>1. child \in 1..Len(nodes) /\ Len(nodes) \in Nat /\ Len(full) = Len(nodes)
  BY ChildFacts DEF IInv, Tree, Typed
<1>2. CASE ~ Splits
  <2>1. PreparedFull = full
    BY <1>2, PreparedFacts
  <2>2. QED BY <1>1, <2>1 DEF HasPath
<1>3. CASE Splits
  <2>1. /\ Len(PreparedFull) = Len(nodes) + 1
        /\ \A n \in 1..Len(nodes) : n # child => PreparedFull[n] = full[n]
        /\ PreparedFull[Len(nodes) + 1] = full[child]
    BY <1>3, PreparedFacts DEF Tree, Typed
  <2>2. \A n : n \in 1..Len(PreparedFull) <=> n \in 1..Len(nodes) \/ n = Len(nodes) + 1
    BY <1>1, <2>1
  <2>3. QED BY <1>1, <2>1, <2>2 DEF HasPath
<1>4. QED BY <1>2, <1>3

\* Where edge and path part, a location below the child and the path part.
LEMMA InsertParts ==
  ASSUME IInv, pc = "insert", SameEdge # {}, Rooted(Registered, full),
         common < Len(nodes[child].path), common < Len(rest)
  PROVE  LET k == Len(full[at]) + common
         IN  /\ Agree(full[child], current.path, k) /\ k < Len(full[child]) /\ k < Len(current.path)
             /\ \E i \in 1..Len(Registered) :
                  /\ Under(full[child], Registered[i].path)
                  /\ Agree(Registered[i].path, current.path, k) /\ k < Len(Registered[i].path)
                  /\ Registered[i].path[k + 1] # current.path[k + 1]
<1> DEFINE u == full[at]
           e == nodes[child].path
           f == full[child]
           p == current.path
           a == Len(u)
           k == a + common
<1>1. /\ Tree(nodes, full) /\ at \in 1..Len(nodes) /\ Len(full) = Len(nodes)
      /\ Registered \in Seq(Location) /\ p \in Strings
  BY InsertFacts
<1>2. rest \in Strings /\ p = u \o rest
  BY DEF IInv, Inserting
<1>3. /\ child \in 2..Len(nodes) /\ Child(nodes, at, child) /\ e \in Strings
      /\ common \in 1..Len(e) /\ Agree(e, rest, common) /\ e[common + 1] # rest[common + 1]
  BY ChildFacts
<1>4. /\ child \in 1..Len(nodes) /\ u \in Strings /\ f \in Strings /\ Len(u) < Len(f)
      /\ Len(u) \in Nat
  BY <1>1, <1>3, ChildBelow
<1>5. f = u \o e
  BY <1>1, <1>3 DEF Tree, Linked
<1>6. Len(e) \in Nat /\ Len(rest) \in Nat /\ common \in Nat /\ common < Len(e) /\ common < Len(rest)
  BY <1>2, <1>3 DEF Strings
<1>7. f # <<>>
  BY <1>4
<1>8. PICK i \in 1..Len(Registered) : Under(f, Registered[i].path)
  <2>1. HasPath(full, f)
    BY <1>1, <1>4 DEF HasPath
  <2>2. QED BY <1>7, <2>1 DEF Rooted
<1> DEFINE q == Registered[i].path
<1>9. q \in Strings /\ Under(f, q)
  BY <1>1, <1>8, LocationFacts
<1>10. a \in Nat /\ a = Len(u) /\ k = a + common
  BY <1>4
<1> HIDE DEF u, e, f, p, a, k, q
<1>11. Agree(f, p, k)
  BY <1>2, <1>3, <1>4, <1>5, <1>6, <1>10, AgreeBehind
<1>12. Len(f) = a + Len(e) /\ Len(p) = a + Len(rest)
  BY <1>2, <1>3, <1>4, <1>5, <1>10, Concatenated
<1>13. k < Len(f) /\ k < Len(p) /\ k \in Nat
  BY <1>6, <1>10, <1>12
<1>14. f[k + 1] = e[common + 1] /\ p[k + 1] = rest[common + 1]
  <2>1. common + 1 \in 1..Len(e) /\ common + 1 \in 1..Len(rest) /\ a + (common + 1) = k + 1
    BY <1>6, <1>10
  <2>2. \A j \in 1..Len(e) : f[a + j] = e[j]
    BY <1>3, <1>4, <1>5, <1>10, Concatenated
  <2>3. \A j \in 1..Len(rest) : p[a + j] = rest[j]
    BY <1>2, <1>4, <1>10, Concatenated
  <2>4. QED BY <2>1, <2>2, <2>3
<1>15. /\ Len(f) \in Nat /\ Len(q) \in Nat /\ Len(f) <= Len(q)
       /\ \A j \in 1..Len(f) : f[j] = q[j]
  BY <1>4, <1>9 DEF Under, Agree, Strings
<1>16. k < Len(q) /\ q[k + 1] = f[k + 1]
  BY <1>13, <1>15
<1>17. Agree(q, p, k)
  BY <1>11, <1>13, <1>15 DEF Agree
<1>18. /\ Agree(f, p, k) /\ k < Len(f) /\ k < Len(p)
       /\ Under(f, q) /\ Agree(q, p, k) /\ k < Len(q) /\ q[k + 1] # p[k + 1]
  BY <1>3, <1>9, <1>11, <1>13, <1>14, <1>16, <1>17
<1>19. QED BY <1>18 DEF u, f, p, a, k, q

-------------------------------------------------------------------------------
(* The steps. *)

\* Nothing is registered at first.
LEMMA InitPanic == Init => PInv
<1> SUFFICES ASSUME Init PROVE PInv
  OBVIOUS
<1>1. locations = <<>> /\ full = << <<>> >> /\ pc = "idle"
  BY DEF Init
<1>2. Registered = <<>> /\ Len(Registered) = 0
  BY <1>1 DEF Registered
<1>3. \A w : HasPath(full, w) => w = <<>>
  BY <1>1 DEF HasPath
<1>4. Held(Registered, full) /\ Uncut
  BY <1>2 DEF Held, Uncut
<1>5. Rooted(Registered, full) /\ Justified
  BY <1>3 DEF Rooted, Justified, HasNode
<1>6. Halted
  BY <1>1 DEF Halted
<1>7. QED BY <1>4, <1>5, <1>6 DEF PInv

\* Taking the next location changes neither the tree nor what is registered.
LEMMA BeginPanic ==
  ASSUME IInv, PInv, NEW p \in Paths, NEW ty \in MatchTypes, BeginInsert(p, ty)
  PROVE  PInv'
<1> DEFINE x == [path |-> p, match_type |-> ty]
<1>1. /\ pc = "idle" /\ locations' = Append(locations, x) /\ pc' = "insert" /\ full' = full
  BY DEF BeginInsert
<1>2. locations \in Seq(Location) /\ x \in Location
  BY DEF IInv, Stored, Location
<1>3. Registered = locations /\ Registered' = locations
  <2>1. Front(Append(locations, x)) = locations
    <3> HIDE DEF Location, x
    <3>1. QED BY <1>2, FrontAppend
  <2>2. QED BY <1>1, <2>1 DEF Registered
<1>4. Len(locations) \in Nat /\ \A n \in 1..Len(locations) : locations'[n] = locations[n]
  <2> HIDE DEF Location, x
  <2>1. QED BY <1>1, <1>2, AppendProperties, LenProperties
<1>5. \A n \in 1..Len(locations) : SubSeq(locations', 1, n - 1) = SubSeq(locations, 1, n - 1)
  <2> TAKE n \in 1..Len(locations)
  <2> HIDE DEF Location, x
  <2> DEFINE m == n - 1
             t == locations'
  <2>1. t \in Seq(Location) /\ Len(t) = Len(locations) + 1
    BY <1>1, <1>2, AppendProperties
  <2>2. m \in Nat /\ m <= Len(locations) /\ m <= Len(t)
    BY <1>4, <2>1
  <2> HIDE DEF m, t
  <2>3. \A j \in 1..m : t[j] = locations[j]
    BY <1>4, <2>2 DEF t
  <2>4. SubSeq(t, 1, m) = [j \in 1..m |-> t[j]] /\ SubSeq(locations, 1, m) = [j \in 1..m |-> locations[j]]
    BY <1>2, <2>1, <2>2
  <2>5. SubSeq(t, 1, m) = SubSeq(locations, 1, m)
    BY <2>3, <2>4
  <2>6. QED BY <2>5 DEF m, t
<1>6. Held(Registered, full)' /\ Rooted(Registered, full)'
  BY <1>1, <1>3 DEF PInv
<1>7. Justified'
  BY <1>1, <1>3 DEF PInv, Justified
<1>8. Uncut'
  BY <1>3, <1>4, <1>5 DEF PInv, Uncut
<1>9. Halted'
  BY <1>1 DEF Halted
<1>10. QED BY <1>6, <1>7, <1>8, <1>9 DEF PInv

\* An insertion that ends has given its location a node, and no other.
LEMMA EndPanic ==
  ASSUME IInv, PInv, pc = "insert", pc' = "idle", locations' = locations, Tree(nodes', full'),
         \A w : HasPath(full', w) <=> HasPath(full, w) \/ w = current.path
  PROVE  PInv'
<1> DEFINE R == Registered
           p == current.path
           S == locations
<1>1. /\ Tree(nodes, full) /\ S \in Seq(Location) /\ Len(S) >= 1 /\ Len(S) \in Nat
      /\ R = Front(S) /\ R \in Seq(Location) /\ Len(R) = Len(S) - 1
      /\ \A i \in 1..Len(R) : R[i] = S[i]
      /\ current \in Location /\ p \in Paths /\ p \in Strings /\ Append(R, current) = S
      /\ S[Len(S)].path = p
  BY InsertFacts DEF current
<1>2. Registered' = S
  BY DEF Registered
<1>3. \A i : i \in 1..Len(S) <=> i \in 1..Len(R) \/ i = Len(S)
  BY <1>1
<1>4. Held(R, full) /\ Rooted(R, full) /\ Justified /\ Uncut
  BY DEF PInv
<1>5. \A w : HasPath(full, w) => w \in Strings
  BY <1>1 DEF HasPath, Tree, Typed
<1>6. Held(S, full')
  <2>1. \A i \in 1..Len(R) : HasPath(full', S[i].path)
    BY <1>1, <1>4 DEF Held
  <2>2. HasPath(full', S[Len(S)].path)
    BY <1>1
  <2>3. QED BY <1>3, <2>1, <2>2 DEF Held
<1>7. Rooted(S, full')
  <2> SUFFICES ASSUME NEW w, HasPath(full', w)
               PROVE  w = <<>> \/ \E i \in 1..Len(S) : Under(w, S[i].path)
    BY DEF Rooted
  <2>1. CASE HasPath(full, w)
    BY <1>1, <1>3, <1>4, <2>1 DEF Rooted
  <2>2. CASE w = p
    BY <1>1, <1>3, <2>2, UnderItself
  <2>3. QED BY <2>1, <2>2
<1>8. \A w : HasPath(full, w) => HasNode(R, w) \/ Beside(R, p, w)
  BY <1>4 DEF Justified
<1>9. \A w : HasPath(full', w) => HasNode(S, w)
  <2> SUFFICES ASSUME NEW w, HasPath(full', w) PROVE HasNode(S, w)
    OBVIOUS
  <2>1. CASE HasPath(full, w) /\ HasNode(R, w)
    BY <1>1, <1>5, <2>1, StillAsked
  <2>2. CASE HasPath(full, w) /\ Beside(R, p, w)
    BY <1>1, <1>5, <2>2, BesideAsked
  <2>3. CASE w = p
    BY <1>1, <1>3, <2>3, HasNodeIs
  <2>4. QED BY <1>8, <2>1, <2>2, <2>3
<1>10. ~ CutsCharacter(R, p)
  <2>1. Held(R, full') /\ HasPath(full', p)
    BY <1>4 DEF Held
  <2>2. \A w : HasPath(full', w) => w = p \/ HasNode(R, w) \/ Beside(R, p, w)
    BY <1>8
  <2> HIDE DEF R, p
  <2>3. QED BY <1>1, <2>1, <2>2, NotCut
<1>11. Uncut'
  <2> SUFFICES ASSUME NEW n \in 1..Len(S)
               PROVE  ~ CutsCharacter(SubSeq(S, 1, n - 1), S[n].path)
    BY <1>2 DEF Uncut
  <2>1. CASE n \in 1..Len(R)
    BY <1>4, <2>1 DEF Uncut
  <2>2. CASE n = Len(S)
    <3>1. SubSeq(S, 1, n - 1) = R
      BY <1>1, <2>2 DEF Front
    <3>2. QED BY <1>1, <1>10, <2>2, <3>1
  <2>3. QED BY <1>3, <2>1, <2>2
<1>12. Justified' /\ Halted'
  BY <1>2, <1>9 DEF Justified, Halted
<1>13. QED BY <1>2, <1>6, <1>7, <1>11, <1>12 DEF PInv

\* A leaf is the node of its location.
LEMMA PushPanic == ASSUME IInv, PInv, PushChild PROVE PInv'
<1>1. pc = "insert" /\ pc' = "idle" /\ locations' = locations
  BY DEF PushChild
<1>2. /\ Tree(nodes', full') /\ Len(full') = Len(nodes) + 1
      /\ \A n \in 1..Len(nodes) : full'[n] = full[n]
      /\ full'[Len(nodes) + 1] = current.path
  BY PushFacts
<1>3. Len(nodes) \in Nat /\ Len(full) = Len(nodes)
  BY DEF IInv, Tree, Typed
<1>4. \A n : n \in 1..Len(full') <=> n \in 1..Len(nodes) \/ n = Len(nodes) + 1
  BY <1>2, <1>3
<1>5. \A w : HasPath(full', w) <=> HasPath(full, w) \/ w = current.path
  BY <1>2, <1>3, <1>4 DEF HasPath
<1>6. QED BY <1>1, <1>2, <1>5, EndPanic

\* So is the child that becomes one.
LEMMA HandlerPanic == ASSUME IInv, PInv, SetHandler PROVE PInv'
<1>1. /\ pc = "insert" /\ pc' = "idle" /\ locations' = locations
      /\ SameEdge # {} /\ Boundary(nodes[child].path, common)
  BY DEF SetHandler
<1>2. Tree(nodes', full') /\ full' = PreparedFull /\ full'[child] = current.path
  BY HandlerFacts
<1>3. \A w : HasPath(full', w) <=> HasPath(full, w) \/ w = current.path
  BY <1>1, <1>2, PreparedPaths
<1>4. QED BY <1>1, <1>2, <1>3, EndPanic

\* A split on the way down makes a node beside which the location goes on.
LEMMA DescendPanic == ASSUME IInv, PInv, Descend, IInv' PROVE PInv'
<1> DEFINE R == Registered
           w == full'[child]
<1>1. /\ pc = "insert" /\ SameEdge # {} /\ Boundary(nodes[child].path, common)
      /\ common < Len(rest) /\ nodes' = Prepared /\ full' = PreparedFull /\ at' = child
      /\ locations' = locations /\ pc' = pc
  BY DEF Descend
<1>2. Registered' = R /\ current' = current
  BY <1>1 DEF Registered, current
<1>3. /\ Held(R, full) /\ Rooted(R, full)
      /\ \A v : HasPath(full, v) => HasNode(R, v)
  BY <1>1 DEF PInv, Justified
<1>4. \A v : HasPath(full', v) <=> HasPath(full, v) \/ v = w
  BY <1>1, PreparedPaths
<1>5. Held(R, full')
  BY <1>3, <1>4 DEF Held
<1>6. Uncut' /\ Halted'
  BY <1>1, <1>2 DEF PInv, Uncut, Halted
<1>7. CASE ~ Splits
  <2>1. full' = full
    BY <1>1, <1>7, PreparedFacts
  <2>2. Rooted(R, full)' /\ Justified'
    BY <1>2, <1>3, <2>1 DEF Rooted, Justified
  <2>3. QED BY <1>2, <1>3, <1>6, <2>1, <2>2 DEF PInv
<1>8. CASE Splits
  <2> DEFINE u == full[at]
             s == SubSeq(rest, 1, common)
             f == full[child]
             p == current.path
             k == Len(u) + common
  <2>1. /\ Agree(f, p, k) /\ k < Len(f) /\ k < Len(p)
        /\ \E i \in 1..Len(R) :
             /\ Under(f, R[i].path) /\ Agree(R[i].path, p, k) /\ k < Len(R[i].path)
             /\ R[i].path[k + 1] # p[k + 1]
    <3>1. common < Len(nodes[child].path)
      BY <1>8 DEF Splits
    <3>2. QED BY <1>1, <1>3, <3>1, InsertParts
  <2>2. PICK i \in 1..Len(R) :
          /\ Under(f, R[i].path) /\ Agree(R[i].path, p, k) /\ k < Len(R[i].path)
          /\ R[i].path[k + 1] # p[k + 1]
    BY <2>1
  <2> DEFINE q == R[i].path
  <2>3. /\ Tree(nodes, full) /\ at \in 1..Len(nodes) /\ R \in Seq(Location) /\ p \in Strings
        /\ Len(full) = Len(nodes) /\ rest \in Strings /\ u \o rest = p
    BY <1>1, InsertFacts DEF IInv, Inserting
  <2>4. q \in Strings
    BY <2>3, LocationFacts
  <2>5. child \in 1..Len(nodes) /\ child \in 2..Len(nodes) /\ f \in Strings /\ u \in Strings
    BY <1>1, <2>3, ChildFacts, ChildBelow
  <2>6. /\ s \in Strings /\ Len(s) = common /\ w = u \o s /\ common \in Nat
    <3>1. common \in 1..Len(rest)
      BY <1>1, ChildFacts
    <3>2. common \in 0..Len(rest) /\ common \in Nat
      BY <3>1
    <3>3. w = u \o s
      BY <1>1, PreparedFacts
    <3>4. QED BY <2>3, <3>2, <3>3, Cut
  <2>7. w \in Strings /\ Len(w) = k /\ k \in Nat
    <3> HIDE DEF u, s
    <3>1. w \in Strings /\ Len(w) = Len(u) + Len(s)
      BY <2>5, <2>6, Concatenated
    <3>2. QED BY <2>5, <2>6, <3>1 DEF Strings
  <2>8. Under(w, p)
    <3> DEFINE t == SubSeq(rest, common + 1, Len(rest))
    <3>1. t \in Strings /\ PreparedFull[child] \o t = p
      BY <1>1, RestOfPath
    <3>2. w \o t = p
      BY <1>1, <3>1
    <3> HIDE DEF t, w, p
    <3>3. QED BY <2>7, <3>1, <3>2, Concatenated
  <2> HIDE DEF w, q, f, p, k
  <2>9. Under(w, q)
    BY <2>2, <2>7, <2>8 DEF Under, Agree, q
  <2>10. Rooted(R, full')
    <3> SUFFICES ASSUME NEW v, HasPath(full', v)
                 PROVE  v = <<>> \/ \E j \in 1..Len(R) : Under(v, R[j].path)
      BY DEF Rooted
    <3>1. CASE HasPath(full, v)
      BY <1>3, <3>1 DEF Rooted
    <3>2. CASE v = w
      BY <2>9, <3>2 DEF q
    <3>3. QED BY <1>4, <3>1, <3>2
  <2>11. Beside(R, p, w)
    BY <2>1, <2>2, <2>7, <2>8, <2>9 DEF Beside, q
  <2>12. SameEdge' = {}
    <3>1. /\ nodes'[child].children = <<Len(nodes) + 1>> /\ nodes'[child].handler = 0
          /\ Len(nodes') = Len(nodes) + 1
      BY <1>1, <1>8, PreparedFacts
    <3>2. Len(nodes) \in Nat
      BY <2>3 DEF Tree, Typed
    <3>3. child \in 2..Len(nodes') /\ Len(nodes'[child].children) = 1
      BY <2>5, <3>1, <3>2
    <3>4. Branches' /\ pc' # "panicked"
      BY <1>1 DEF IInv
    <3>5. \/ Len(nodes'[child].children) >= 2
          \/ SameEdge' = {}
      BY <3>1, <3>3, <3>4 DEF Branches
    <3>6. QED BY <3>3, <3>5
  <2>13. Justified'
    <3> SUFFICES ASSUME NEW v, HasPath(full', v)
                 PROVE  \/ HasNode(R, v)
                        \/ /\ pc' = "insert" /\ SameEdge' = {} /\ v = full'[at']
                           /\ Beside(R, current.path, v)
      BY <1>2 DEF Justified
    <3>1. CASE HasPath(full, v)
      BY <1>3, <3>1
    <3>2. CASE v = w
      BY <1>1, <2>11, <2>12, <3>2 DEF w, p
    <3>3. QED BY <1>4, <3>1, <3>2
  <2>14. QED BY <1>2, <1>5, <1>6, <2>10, <2>13 DEF PInv
<1>9. QED BY <1>7, <1>8

\* A slice that panics cuts a character, and no location has asked for a node
\* just before it: insert would have gone into that node.
LEMMA HaltPanic ==
  ASSUME IInv, PInv, SplitPanics
  PROVE  CutsCharacter(Registered, current.path)
<1> DEFINE R == Registered
           u == full[at]
           e == nodes[child].path
           f == full[child]
           p == current.path
           k == Len(u) + common
<1>1. pc = "insert" /\ SameEdge # {} /\ ~ Boundary(e, common)
  BY DEF SplitPanics
<1>2. /\ Tree(nodes, full) /\ at \in 1..Len(nodes) /\ Len(full) = Len(nodes)
      /\ R \in Seq(Location) /\ p \in Paths /\ p \in Strings /\ Whole(p)
  BY <1>1, InsertFacts
<1>3. rest \in Strings /\ p = u \o rest /\ rest # <<>>
  BY <1>1 DEF IInv, Inserting
<1>4. /\ child \in 2..Len(nodes) /\ Child(nodes, at, child) /\ e \in Strings
      /\ common \in 1..Len(e) /\ common \in 1..Len(rest) /\ Agree(e, rest, common)
  BY <1>1, ChildFacts
<1>5. /\ child \in 1..Len(nodes) /\ u \in Strings /\ f \in Strings
      /\ Len(u) \in Nat /\ Len(f) \in Nat /\ f = u \o e /\ Whole(f)
  <2>1. child \in 1..Len(nodes) /\ u \in Strings /\ f \in Strings /\ Len(u) \in Nat /\ Len(f) \in Nat
    BY <1>2, <1>4, ChildBelow
  <2>2. f = u \o e
    BY <1>2, <1>4 DEF Tree, Linked
  <2>3. Whole(f)
    BY <1>2, <2>1, NodeFacts
  <2>4. QED BY <2>1, <2>2, <2>3
<1>6. Len(e) \in Nat /\ Len(rest) \in Nat /\ Len(p) \in Nat /\ common \in Nat /\ k \in Nat
  BY <1>2, <1>3, <1>4, <1>5 DEF Strings
<1>7. Agree(f, p, k)
  <2> DEFINE a == Len(u)
  <2>1. a = Len(u)
    OBVIOUS
  <2>2. k = a + common
    OBVIOUS
  <2> HIDE DEF a, u, e, f, p, k
  <2>3. QED BY <1>3, <1>4, <1>5, <1>6, <2>1, <2>2, AgreeBehind
<1>8. ~ Boundary(f, k) /\ ~ Boundary(p, k)
  <2>1. Boundary(e, common) <=> Boundary(f, k)
    BY <1>2, <1>4, EdgeFacts
  <2>2. Boundary(f, k) <=> Boundary(p, k)
    <3> HIDE DEF f, p, k
    <3>1. QED BY <1>2, <1>5, <1>7, WholeAgree
  <2>3. QED BY <1>1, <2>1, <2>2
<1>9. common < Len(e) /\ common < Len(rest)
  <2>1. common # Len(e)
    BY <1>1, <1>4, BoundaryAtEnd
  <2>2. common # Len(rest)
    <3> SUFFICES ASSUME common = Len(rest) PROVE FALSE
      OBVIOUS
    <3>1. Len(p) = Len(u) + Len(rest)
      <4> HIDE DEF u, p
      <4>1. QED BY <1>3, <1>5, Concatenated
    <3>2. k = Len(p)
      BY <3>1
    <3> HIDE DEF k, p
    <3>3. QED BY <1>2, <1>8, <3>2, BoundaryAtEnd
  <2>3. QED BY <1>4, <1>6, <2>1, <2>2
<1>10. Held(R, full) /\ Rooted(R, full)
  BY DEF PInv
<1>11. PICK i \in 1..Len(R) :
         /\ Agree(R[i].path, p, k) /\ k < Len(R[i].path)
         /\ R[i].path[k + 1] # p[k + 1]
  BY <1>1, <1>9, <1>10, InsertParts
<1>12. k < Len(f) /\ k < Len(p)
  BY <1>1, <1>9, <1>10, InsertParts
<1>13. PICK m \in 0..k : Boundary(p, m) /\ \A l \in (m + 1)..k : ~ Boundary(p, l)
  <2> HIDE DEF k, p
  <2>1. QED BY <1>6, LastEnd
<1> DEFINE w == SubSeq(p, 1, m)
<1>14. w \in Strings /\ Len(w) = m /\ Under(w, p)
  <2>1. m \in 0..Len(p)
    <3> HIDE DEF k, p
    <3>1. QED BY <1>6, <1>12, <1>13
  <2>2. QED BY <1>2, <2>1, Cut
<1> HIDE DEF w
<1>15. Cuts(R[i].path, p, w)
  <2> HIDE DEF k, p
  <2>1. QED BY <1>8, <1>11, <1>12, <1>13, <1>14 DEF Cuts
\* The first character of the edge is in the path too.
<1>16. Len(u) < m
  <2>1. PICK b \in 1..Len(e) :
          /\ EdgeChar(e) \in Strings /\ Len(EdgeChar(e)) = b /\ Under(EdgeChar(e), e) /\ Boundary(e, b)
    <3>1. e # <<>>
      BY <1>4, <1>6
    <3>2. QED BY <1>4, <3>1, EdgeCharIs
  <2>2. Under(EdgeChar(e), rest)
    <3>1. IsPrefix(EdgeChar(e), rest)
      BY <1>1, FirstFits
    <3>2. QED BY <1>3, <2>1, <3>1, PrefixIsUnder
  <2>3. b <= common
    <3> SUFFICES ASSUME common < b PROVE FALSE
      BY <1>6, <2>1
    <3>1. e[common + 1] # rest[common + 1]
      BY <1>1, <1>9, ChildFacts
    <3> DEFINE h == EdgeChar(e)
    <3>2. common + 1 \in 1..b
      BY <1>6, <2>1
    <3>3. /\ Len(h) = b
          /\ \A j \in 1..Len(h) : h[j] = e[j]
          /\ \A j \in 1..Len(h) : h[j] = rest[j]
      BY <2>1, <2>2 DEF Under, Agree
    <3> HIDE DEF h, e
    <3>4. QED BY <3>1, <3>2, <3>3
  <2>4. Boundary(f, Len(u) + b)
    <3>1. e \in Strings /\ u \in Strings /\ f = u \o e /\ b \in 1..Len(e) /\ Boundary(e, b)
      BY <1>4, <1>5, <2>1
    <3> HIDE DEF u, e, f
    <3>2. QED BY <3>1, BoundaryBehind
  <2> DEFINE a == Len(u)
             l == a + b
  <2>5. a \in Nat /\ b \in Nat /\ b > 0 /\ k = a + common
    BY <1>5, <2>1
  <2>6. Boundary(f, l)
    BY <2>4
  <2> HIDE DEF e, f, p, k, a
  <2>7. l \in Nat /\ l <= k /\ a < l
    BY <1>6, <2>3, <2>5
  <2> HIDE DEF l
  <2>8. Agree(f, p, l)
    BY <1>6, <1>7, <2>7 DEF Agree
  <2>9. Boundary(p, l)
    BY <1>2, <1>5, <2>6, <2>8, WholeAgree
  <2>10. ~ (l \in (m + 1)..k)
    BY <1>13, <2>9
  <2>11. a < m
    BY <1>6, <1>13, <2>5, <2>7, <2>10
  <2>12. QED BY <2>11 DEF a
<1>17. ~ HasNode(R, w)
  <2> SUFFICES ASSUME HasNode(R, w) PROVE FALSE
    OBVIOUS
  <2>1. Whole(w)
    <3> HIDE DEF p
    <3>1. QED BY <1>2, <1>13, <1>14, WholePrefix
  <2>2. HasPath(full, w)
    <3> HIDE DEF R
    <3>1. QED BY <1>2, <1>10, <1>14, <2>1, AskedIsHeld
  <2>3. PICK n \in 1..Len(nodes) : full[n] = w
    BY <1>2, <2>2 DEF HasPath
  <2>4. Under(w, f)
    <3> HIDE DEF f, p, k
    <3>1. m \in Nat /\ m <= k /\ k \in Nat /\ k <= Len(f) /\ \A j \in 1..k : f[j] = p[j]
      BY <1>6, <1>7, <1>13 DEF Agree
    <3>2. \A j \in 1..m : w[j] = p[j]
      BY <1>14 DEF Under, Agree
    <3>3. \A j \in 1..m : w[j] = f[j]
      BY <3>1, <3>2
    <3>4. m <= Len(f)
      <4> DEFINE b == Len(f)
      <4>1. b \in Nat /\ k <= b
        BY <1>5, <3>1
      <4> HIDE DEF b
      <4>2. m <= b
        BY <3>1, <4>1
      <4>3. QED BY <4>2 DEF b
    <3>5. QED BY <1>14, <3>1, <3>3, <3>4 DEF Under, Agree
  <2>5. n # child
    <3>1. m # Len(f)
      <4> HIDE DEF f, k
      <4>1. QED BY <1>6, <1>12, <1>13
    <3>2. QED BY <1>14, <2>3, <3>1
  <2>6. Under(w, u)
    BY <1>2, <1>4, <1>5, <2>3, <2>4, <2>5, AboveStem
  <2>7. m <= Len(u)
    BY <1>5, <1>14, <2>6, UnderLength
  <2> HIDE DEF u, k
  <2>8. QED BY <1>5, <1>6, <1>13, <1>16, <2>7
<1>18. QED BY <1>2, <1>14, <1>15, <1>17, CutsIs

\* Every step keeps the invariant.
LEMMA StepPanic == NoEmptyPath /\ IInv /\ PInv /\ [Next]_vars => PInv'
<1> SUFFICES ASSUME NoEmptyPath, IInv, PInv, [Next]_vars PROVE PInv'
  OBVIOUS
<1>1. IInv'
  BY StepInvariant
<1>2. ASSUME NEW p \in Paths, NEW ty \in MatchTypes, BeginInsert(p, ty) PROVE PInv'
  BY <1>2, BeginPanic
<1>3. CASE PushChild
  BY <1>3, PushPanic
<1>4. CASE SplitPanics
  <2>1. /\ pc = "insert" /\ SameEdge # {} /\ pc' = "panicked"
        /\ locations' = locations /\ full' = full
    BY <1>4 DEF SplitPanics
  <2>2. Registered' = Registered /\ current' = current
    BY <2>1 DEF Registered, current
  <2>3. Held(Registered, full)' /\ Rooted(Registered, full)' /\ Uncut'
    BY <2>1, <2>2 DEF PInv, Uncut
  <2>4. Justified'
    BY <2>1, <2>2 DEF PInv, Justified
  <2>5. Halted'
    <3>1. CutsCharacter(Registered, current.path)
      BY <1>4, HaltPanic
    <3>2. Registered = Front(locations) /\ Len(locations) >= 1
      BY <2>1, InsertFacts
    <3>3. QED BY <2>1, <2>2, <3>1, <3>2 DEF Halted
  <2>6. QED BY <2>3, <2>4, <2>5 DEF PInv
<1>5. CASE SetHandler
  BY <1>5, HandlerPanic
<1>6. CASE Descend
  BY <1>1, <1>6, DescendPanic
<1>7. CASE Finish
  <2>1. /\ pc = "idle" /\ pc' = "serving" /\ locations' = locations /\ full' = full
    BY <1>7 DEF Finish
  <2>2. Registered' = Registered
    BY <2>1 DEF Registered
  <2>3. QED BY <2>1, <2>2 DEF PInv, Justified, Uncut, Halted
<1>8. CASE UNCHANGED vars
  <2>1. /\ pc' = pc /\ locations' = locations /\ full' = full /\ nodes' = nodes /\ at' = at
        /\ rest' = rest
    BY <1>8 DEF vars
  <2>2. Registered' = Registered /\ current' = current /\ SameEdge' = SameEdge
    BY <2>1 DEF Registered, current, SameEdge
  <2>3. QED BY <2>1, <2>2 DEF PInv, Justified, Uncut, Halted
<1>9. QED BY <1>2, <1>3, <1>4, <1>5, <1>6, <1>7, <1>8 DEF Next

\* The nodes of the tree are those the locations registered ask for, but for
\* the one a split has just made: what PanicPredicted needs of every state.
THEOREM NodesAsked == NoEmptyPath /\ Spec => []PInv
<1>1. ASSUME NoEmptyPath PROVE Spec => []PInv
  <2>1. Init => IInv /\ PInv
    BY InitInvariant, InitPanic
  <2>2. IInv /\ PInv /\ [Next]_vars => (IInv /\ PInv)'
    BY <1>1, StepInvariant, StepPanic
  <2>3. QED BY <2>1, <2>2, PTL DEF Spec
<1>2. QED BY <1>1

\* That is what PanicPredicted says of a router that panicked and of one that serves.
LEMMA InvariantPanic == IInv /\ PInv => PanicPredicted
<1> SUFFICES ASSUME IInv, PInv PROVE PanicPredicted
  OBVIOUS
<1>1. ASSUME pc = "panicked"
      PROVE  CutsCharacter(SubSeq(locations, 1, Len(locations) - 1), locations[Len(locations)].path)
  BY <1>1 DEF PInv, Halted, Front, current
<1>2. ASSUME pc = "serving", NEW n \in DOMAIN locations
      PROVE  ~ CutsCharacter(SubSeq(locations, 1, n - 1), locations[n].path)
  <2>1. Registered = locations
    BY <1>2 DEF Registered
  <2>2. locations \in Seq(Location)
    BY DEF IInv, Stored, Location
  <2>3. n \in 1..Len(locations)
    <3> HIDE DEF Location
    <3>1. QED BY <2>2
  <2>4. QED BY <2>1, <2>3 DEF PInv, Uncut
<1>3. QED BY <1>1, <1>2 DEF PanicPredicted

\* For every configuration and every order of its locations: when from_config
\* panics, the location it was inserting parts with an earlier one inside a
\* character before which the earlier locations made no node; when it returns,
\* no location does.
THEOREM PanicsPredicted == NoEmptyPath /\ Spec => []PanicPredicted
<1>1. QED BY Invariant, NodesAsked, InvariantPanic, PTL
===============================================================================
