--------------------------- MODULE PathSafetyProofs ---------------------------
(***************************************************************************)
(* Proofs about PathSafety, for any names, any decoding of segments and    *)
(* any requests, roots and index files.                                    *)
(*                                                                         *)
(* The first half runs the two loops side by side, IndInv; the second half *)
(* relates what sanitize_path keeps on its stack to the components it has  *)
(* read, Normal.                                                           *)
(***************************************************************************)
EXTENDS PathSafety, WellOrder, SequenceTheorems, FiniteSetTheorems, FunctionTheorems, TLAPS

\* What is made of a path: the components a loop may meet.
Parts == Names \cup {"/", ".", ".."}

\* What is answered with is below base_dir, by names that the request gave, and
\* at most one that the configuration gave.
Found ==
  sane = "some" =>
    \E rest \in Seq(Names) : file = components(base_dir) \o rest

\* The two loops are at the same place and have seen the same.
Together ==
  /\ sane = "called" <=> safe = "called" /\ sane # "none"
  /\ sane = "loop" <=> safe = "loop"
  /\ sane = "some" <=> safe = "ok"
  /\ sane = "called" => clean_path = <<>> /\ depth = 0
  /\ sane \in {"loop", "some"} => depth = Len(clean_path)

\* The inductive invariant.
IndInv == TypeOK /\ Found /\ Together

-------------------------------------------------------------------------------
(* Sequences.  FlattenSeq is a recursive function: that it is one at all is  *)
(* shown by the principle of the least number.                               *)

\* A sequence is one over any set that has all its members.
LEMMA MembersIn ==
  ASSUME NEW S, NEW T, NEW s \in Seq(S), \A i \in 1..Len(s) : s[i] \in T
  PROVE  s \in Seq(T)
<1>1. s = [i \in 1..Len(s) |-> s[i]] /\ Len(s) \in Nat
  OBVIOUS
<1>2. s \in [1..Len(s) -> T]
  BY <1>1
<1>3. QED BY <1>1, <1>2

\* g is the table by which FlattenSeq concatenates the first n members of s.
Flattens(g, s, n) ==
  g = [i \in 1..n |-> IF i = 1 THEN s[i] ELSE g[i - 1] \o s[i]]

\* There is such a table: were there a least n without one, the table for n - 1
\* could be extended.
LEMMA FlattenExists ==
  ASSUME NEW S, NEW s \in Seq(Seq(S))
  PROVE  \A n \in 1..Len(s) : \E g \in [1..n -> Seq(S)] : Flattens(g, s, n)
<1> DEFINE Bad == {n \in 1..Len(s) : ~ \E g \in [1..n -> Seq(S)] : Flattens(g, s, n)}
<1> SUFFICES ASSUME Bad # {} PROVE FALSE
  OBVIOUS
<1>1. Bad \in SUBSET Nat
  OBVIOUS
<1>2. PICK m \in Bad : \A k \in Bad : m <= k
  BY <1>1, LeastNumber
<1>3. m \in 1..Len(s) /\ m \in Nat /\ s[m] \in Seq(S)
  OBVIOUS
<1>4. CASE m = 1
  <2> DEFINE g == [i \in 1..1 |-> s[1]]
  <2>1. g \in [1..m -> Seq(S)]
    BY <1>3, <1>4
  <2>2. Flattens(g, s, m)
    BY <1>4 DEF Flattens
  <2>3. QED BY <2>1, <2>2
<1>5. CASE m # 1
  <2>9. m - 1 \in 1..Len(s) /\ ~ (m <= m - 1)
    BY <1>3, <1>5
  <2>1. m - 1 \in 1..Len(s) /\ m - 1 \notin Bad
    <3> HIDE DEF Bad
    <3> QED BY <2>9, <1>2
  <2>2. PICK g \in [1..(m - 1) -> Seq(S)] : Flattens(g, s, m - 1)
    BY <2>1
  <2> DEFINE h == [i \in 1..m |-> IF i = m THEN g[m - 1] \o s[m] ELSE g[i]]
  <2>3. g[m - 1] \o s[m] \in Seq(S)
    BY <1>3, <2>1, <2>2
  <2>4. h \in [1..m -> Seq(S)]
    BY <1>3, <2>2, <2>3
  <2>5. \A i \in 1..(m - 1) : g[i] = IF i = 1 THEN s[i] ELSE g[i - 1] \o s[i]
    BY <2>2 DEF Flattens
  <2>6. \A i \in 1..m : h[i] = IF i = 1 THEN s[i] ELSE h[i - 1] \o s[i]
    <3> TAKE i \in 1..m
    <3>1. CASE i = m
      <4>1. m \in 1..m /\ m - 1 \in 1..m /\ m - 1 # m
        BY <1>3, <1>5
      <4>2. h[m] = g[m - 1] \o s[m] /\ h[m - 1] = g[m - 1]
        BY <4>1
      <4>3. QED BY <3>1, <4>2, <1>5
    <3>2. CASE i # m /\ i = 1
      <4>1. i \in 1..(m - 1)
        BY <3>2, <1>3
      <4>2. h[i] = g[i] 
        BY <3>2
      <4>3. QED BY <4>1, <4>2, <3>2, <2>5
    <3>3. CASE i # m /\ i # 1
      <4>1. i \in 1..(m - 1) /\ i - 1 \in 1..(m - 1) /\ i - 1 # m
        BY <3>3, <1>3
      <4>2. h[i] = g[i] /\ h[i - 1] = g[i - 1]
        BY <4>1, <3>3, <1>3
      <4>3. QED BY <4>1, <4>2, <2>5
    <3>4. QED BY <3>1, <3>2, <3>3
  <2>7. Flattens(h, s, m)
    BY <2>6 DEF Flattens
  <2>8. QED BY <2>4, <2>7
<1>6. QED BY <1>4, <1>5

\* FlattenSeq of sequences of parts is a sequence of parts.
LEMMA FlattenType ==
  ASSUME NEW S, NEW s \in Seq(Seq(S))
  PROVE  FlattenSeq(s) \in Seq(S)
<1>1. CASE s = <<>>
  BY <1>1 DEF FlattenSeq
<1>2. CASE s # <<>>
  <2> DEFINE n == Len(s)
             f == CHOOSE g : g = [i \in 1..n |-> IF i = 1 THEN s[i] ELSE g[i - 1] \o s[i]]
             Bad == {i \in 1..n : f[i] \notin Seq(S)}
  <2>1. n \in 1..n /\ n \in Nat /\ \A i \in 1..n : s[i] \in Seq(S)
    BY <1>2
  <2>2. FlattenSeq(s) = f[n]
    BY <2>1 DEF FlattenSeq
  <2>3. Flattens(f, s, n)
    <3>1. \E g : Flattens(g, s, n)
      BY <2>1, FlattenExists
    <3>2. f = CHOOSE g : Flattens(g, s, n)
      BY DEF Flattens
    <3> HIDE DEF f, n
    <3>3. QED BY <3>1, <3>2
  <2> HIDE DEF f, n
  <2>4. \A i \in 1..n : f[i] = IF i = 1 THEN s[i] ELSE f[i - 1] \o s[i]
    BY <2>3 DEF Flattens
  <2>5. ASSUME Bad # {} PROVE FALSE
    <3>1. Bad \in SUBSET Nat
      BY <2>1
    <3>2. PICK m \in Bad : \A k \in Bad : m <= k
      BY <2>5, <3>1, LeastNumber
    <3>3. m \in 1..n /\ m \in Nat /\ f[m] \notin Seq(S) /\ s[m] \in Seq(S)
      BY <2>1
    <3>4. m # 1
      BY <2>4, <3>3
    <3>5. m - 1 \in 1..n /\ ~ (m <= m - 1)
      BY <2>1, <3>3, <3>4
    <3>6. m - 1 \notin Bad
      <4> HIDE DEF Bad
      <4>1. QED BY <3>2, <3>5
    <3>7. f[m - 1] \in Seq(S)
      BY <3>5, <3>6
    <3>8. f[m] = f[m - 1] \o s[m]
      BY <2>4, <3>3, <3>4
    <3>9. f[m - 1] \o s[m] \in Seq(S)
      BY <3>3, <3>7
    <3>10. QED BY <3>3, <3>8, <3>9
  <2>6. QED BY <2>1, <2>2, <2>5
<1>3. QED BY <1>1, <1>2

\* What is left when parts are filtered out is a sequence of parts.
LEMMA WithoutType ==
  ASSUME NEW T, NEW t \in Seq(T), NEW S
  PROVE  Without(t, S) \in Seq(T \ S)
<1> DEFINE ss == [i \in DOMAIN t |-> IF t[i] \in S THEN <<>> ELSE <<t[i]>>]
<1>1. \A i \in 1..Len(t) : t[i] \in S \/ t[i] \in T \ S
  OBVIOUS
<1>2. \A x \in T \ S : <<x>> \in Seq(T \ S)
  OBVIOUS
<1>3. \A i \in 1..Len(t) : (IF t[i] \in S THEN <<>> ELSE <<t[i]>>) \in Seq(T \ S)
  <2> TAKE i \in 1..Len(t)
  <2>1. CASE t[i] \in S
    BY <2>1
  <2>2. CASE t[i] \notin S
    <3>1. t[i] \in T \ S
      BY <1>1, <2>2
    <3>2. <<t[i]>> \in Seq(T \ S)
      BY <1>2, <3>1
    <3>3. QED BY <2>2, <3>2
  <2>3. QED BY <2>1, <2>2
<1>4. ss = [i \in 1..Len(t) |-> IF t[i] \in S THEN <<>> ELSE <<t[i]>>] /\ Len(t) \in Nat
  OBVIOUS
<1>5. ss \in Seq(Seq(T \ S))
  BY <1>3, <1>4
<1> HIDE DEF ss
<1>6. FlattenSeq(ss) \in Seq(T \ S)
  BY <1>5, FlattenType
<1>7. QED BY <1>6 DEF Without, ss

-------------------------------------------------------------------------------
(* Paths. *)

\* Path::components gives a sequence of parts.
LEMMA ComponentsType ==
  ASSUME NEW t \in Seq(Segments)
  PROVE  components(t) \in Seq(Parts)
<1> DEFINE w == Without(t, {"", "."})
           h == IF Head(t) = "" /\ Len(t) > 1 THEN <<"/">>
                ELSE IF Head(t) = "." THEN <<".">> ELSE <<>>
<1>1. w \in Seq(Segments \ {"", "."})
  BY WithoutType
<1>2. Segments \ {"", "."} \subseteq Parts
  BY DEF Segments, Parts
<1> HIDE DEF w
<1>3. w \in Seq(Parts)
  <2>1. \A i \in 1..Len(w) : w[i] \in Parts
    <3> TAKE i \in 1..Len(w)
    <3>1. w[i] \in Segments \ {"", "."}
      BY <1>1, ElementOfSeq
    <3>2. QED BY <1>2, <3>1
  <2>2. QED BY <1>1, <2>1, MembersIn
<1>4. <<"/">> \in Seq(Parts) /\ <<".">> \in Seq(Parts) /\ <<>> \in Seq(Parts)
  BY DEF Parts
<1>5. h \in Seq(Parts)
  BY <1>4
<1> HIDE DEF h
<1>6. h \o w \in Seq(Parts)
  BY <1>3, <1>5
<1>7. QED BY <1>6 DEF components, h, w

\* So does stripping the leading slash.
LEMMA StrippedType ==
  ASSUME NEW p \in Requests
  PROVE  Stripped(p) \in Seq(Encoded)
BY PathsAssumption, HeadTailProperties DEF Stripped

\* So does decoding a segment.
LEMMA DecodedType ==
  ASSUME NEW p \in Seq(Encoded)
  PROVE  Decoded(p) \in Seq(Segments)
<1> DEFINE ss == [i \in DOMAIN p |-> Decoding[p[i]]]
<1>1. \A i \in 1..Len(p) : Decoding[p[i]] \in Seq(Segments)
  BY DecodingAssumption
<1>2. ss = [i \in 1..Len(p) |-> Decoding[p[i]]] /\ Len(p) \in Nat
  OBVIOUS
<1>3. ss \in Seq(Seq(Segments))
  BY <1>1, <1>2
<1> HIDE DEF ss
<1>4. FlattenSeq(ss) \in Seq(Segments)
  BY <1>3, FlattenType
<1>5. QED BY <1>4 DEF Decoded, ss

\* And so does the base directory.
LEMMA BaseType == TypeOK => components(base_dir) \in Seq(Parts)
BY PathsAssumption, ComponentsType DEF TypeOK

\* Names never make a path absolute: they are joined to what is before them.
LEMMA JoinNames ==
  ASSUME NEW base, NEW c \in Seq(Names)
  PROVE  join(base, c) = base \o c
<1>1. c # <<>> => Head(c) \in Names
  BY HeadTailProperties
<1>2. QED BY <1>1, NamesAssumption DEF join

\* A base extended by names starts with the base.
LEMMA StartsWithBase ==
  ASSUME NEW base \in Seq(Parts), NEW rest \in Seq(Names)
  PROVE  /\ starts_with(base \o rest, base)
         /\ \A i \in (Len(base) + 1)..Len(base \o rest) : (base \o rest)[i] \in Names
<1> DEFINE p == base \o rest
<1>1. /\ p \in Seq(Parts) /\ Len(p) = Len(base) + Len(rest)
      /\ Len(base) \in Nat /\ Len(rest) \in Nat
      /\ \A i \in 1..Len(base) : p[i] = base[i]
  BY DEF Parts
<1>2. \A i \in (Len(base) + 1)..Len(p) : p[i] \in Names
  <2> TAKE i \in (Len(base) + 1)..Len(p)
  <2>1. i - Len(base) \in 1..Len(rest)
    BY <1>1
  <2>2. p[i] = rest[i - Len(base)]
    BY <1>1
  <2>3. QED BY <2>1, <2>2
<1>3. SubSeq(p, 1, Len(base)) = [i \in 1..Len(base) |-> p[i]]
  BY <1>1
<1>4. base = [i \in 1..Len(base) |-> base[i]]
  OBVIOUS
<1>5. SubSeq(p, 1, Len(base)) = base
  BY <1>1, <1>3, <1>4
<1>6. QED BY <1>1, <1>2, <1>5 DEF starts_with

-------------------------------------------------------------------------------
(* The steps. *)

\* It holds initially.
LEMMA InitIndInv == Init => IndInv
<1> SUFFICES ASSUME Init PROVE IndInv
  OBVIOUS
<1>1. TypeOK
  BY DEF Init, TypeOK
<1>2. Found /\ Together
  BY DEF Init, Found, Together
<1>3. QED BY <1>1, <1>2 DEF IndInv

\* Begin keeps the invariant.
LEMMA BeginInv == ASSUME IndInv, Begin PROVE IndInv'
<1>1. /\ sane = "called" /\ safe = "called"
      /\ sane' = "loop" /\ safe' = "loop" /\ clean_path = <<>> /\ depth = 0
      /\ UNCHANGED <<remaining_path, base_dir, clean_path, depth, file>>
  BY DEF Begin, IndInv, Together
<1>2. todo' \in Seq(Parts)
  BY StrippedType, DecodedType, ComponentsType DEF Begin, IndInv, TypeOK
<1>3. TypeOK'
  BY <1>1, <1>2 DEF IndInv, TypeOK, Parts
<1>4. Found' /\ Together'
  BY <1>1 DEF Found, Together
<1>5. QED BY <1>3, <1>4 DEF IndInv

\* Undecodable keeps the invariant.
LEMMA UndecodableInv == ASSUME IndInv, Undecodable PROVE IndInv'
<1>1. /\ sane = "called" /\ safe = "called" /\ sane' = "none"
      /\ UNCHANGED <<remaining_path, base_dir, todo, clean_path, depth, safe, file>>
  BY DEF Undecodable, IndInv, Together
<1>2. TypeOK' /\ Found' /\ Together'
  BY <1>1 DEF IndInv, TypeOK, Found, Together
<1>3. QED BY <1>2 DEF IndInv

\* What one loop pushes and pops the other counts.
LEMMA ComponentInv == ASSUME IndInv, Component PROVE IndInv'
<1> DEFINE c == Head(todo)
<1>1. /\ todo # <<>> /\ todo' = Tail(todo) /\ todo \in Seq(Parts)
      /\ UNCHANGED <<remaining_path, base_dir, file>>
      /\ clean_path \in Seq(Names) /\ depth \in Int
  BY DEF Component, IndInv, TypeOK, Parts
<1>2. todo' \in Seq(Parts)
  BY <1>1, HeadTailProperties
<1>3. CASE sane = "loop"
  <2>1. safe = "loop" /\ depth = Len(clean_path) /\ sanitize(c) /\ check(c)
    BY <1>3 DEF Component, IndInv, Together
  <2> HIDE DEF c
  <2>2. CASE c \in Names
    <3>1. /\ clean_path' = Append(clean_path, c) /\ depth' = depth + 1
          /\ UNCHANGED <<sane, safe>>
      BY <2>1, <2>2, NamesAssumption DEF sanitize, check
    <3>2. clean_path' \in Seq(Names) /\ Len(clean_path') = depth' /\ depth' \in Int
      BY <3>1, <2>1, <2>2, <1>1
    <3>3. QED BY <1>1, <1>2, <1>3, <2>1, <3>1, <3>2 DEF IndInv, TypeOK, Found, Together, Parts
  <2>3. CASE c = ".." /\ clean_path # <<>>
    <3>1. /\ clean_path' = Front(clean_path) /\ depth' = depth - 1 /\ UNCHANGED sane
          /\ safe' = IF depth' < 0 THEN "err" ELSE safe
      BY <2>1, <2>3, NamesAssumption DEF sanitize, check
    <3>2. clean_path' \in Seq(Names) /\ Len(clean_path') = depth' /\ depth' \in Int /\ ~ (depth' < 0)
      BY <3>1, <2>1, <2>3, <1>1 DEF Front
    <3>3. UNCHANGED safe
      BY <3>1, <3>2
    <3>4. QED BY <1>1, <1>2, <1>3, <2>1, <3>1, <3>2, <3>3 DEF IndInv, TypeOK, Found, Together, Parts
  <2>4. CASE c = ".." /\ clean_path = <<>>
    <3>1. /\ UNCHANGED clean_path /\ depth' = depth - 1 /\ sane' = "none"
          /\ safe' = IF depth' < 0 THEN "err" ELSE safe
      BY <2>1, <2>4, NamesAssumption DEF sanitize, check
    <3>2. depth' < 0 /\ depth' \in Int
      BY <3>1, <2>1, <2>4, <1>1
    <3>3. safe' = "err"
      BY <3>1, <3>2
    <3>4. QED BY <1>1, <1>2, <1>3, <2>1, <3>1, <3>2, <3>3 DEF IndInv, TypeOK, Found, Together, Parts
  <2>5. CASE c \in {"/", "."}
    <3>1. UNCHANGED <<clean_path, sane, depth, safe>>
      BY <2>1, <2>5, NamesAssumption DEF sanitize, check
    <3>2. QED BY <1>1, <1>2, <1>3, <2>1, <3>1 DEF IndInv, TypeOK, Found, Together, Parts
  <2>6. QED BY <2>1, <2>2, <2>3, <2>4, <2>5 DEF sanitize
<1>4. CASE sane # "loop"
  <2>1. UNCHANGED <<clean_path, sane, depth, safe>>
    BY <1>4 DEF Component, IndInv, Together
  <2>2. QED BY <1>1, <1>2, <2>1 DEF IndInv, TypeOK, Found, Together, Parts
<1>5. QED BY <1>3, <1>4

\* The comparison with base_dir at the end never refuses anything.
LEMMA FinishInv == ASSUME IndInv, Finish PROVE IndInv'
<1>1. /\ sane = "loop" /\ safe = "loop" /\ depth = Len(clean_path) /\ safe' = "ok"
      /\ UNCHANGED <<remaining_path, base_dir, todo, clean_path, depth>>
  BY DEF Finish, IndInv, Together
<1>2. /\ final_path = components(base_dir) \o clean_path
      /\ clean_path \in Seq(Names) /\ components(base_dir) \in Seq(Parts)
  BY JoinNames, BaseType DEF final_path, IndInv, TypeOK
<1>3. starts_with(final_path, components(base_dir))
  BY <1>2, StartsWithBase
<1>4. sane' = "some" /\ file' = final_path
  BY <1>1, <1>3 DEF Finish
<1>5. file' \in Seq(Parts)
  BY <1>2, <1>4 DEF Parts
<1>6. TypeOK'
  BY <1>1, <1>4, <1>5 DEF IndInv, TypeOK, Parts
<1>7. Found' /\ Together'
  BY <1>1, <1>2, <1>4 DEF Found, Together
<1>8. QED BY <1>6, <1>7 DEF IndInv

\* A pure name is added to what was found.
LEMMA IndexInv == ASSUME IndInv, NEW t \in Indexes, Index(t) PROVE IndInv'
<1>1. /\ sane = "some" /\ file' = join(final_path, components(t))
      /\ UNCHANGED <<remaining_path, base_dir, todo, clean_path, sane, depth, safe>>
  BY DEF Index
<1>2. components(t) \in Seq(Names)
  <2> DEFINE c == components(t)
  <2>1. c \in Seq(Parts) /\ Len(c) = 1 /\ Head(c) \in Names
    BY PathsAssumption, ComponentsType DEF Index, is_pure_filename
  <2> HIDE DEF c
  <2>2. \A i \in 1..Len(c) : c[i] \in Names
    BY <2>1
  <2>3. c \in Seq(Names)
    BY <2>1, <2>2, MembersIn
  <2>4. QED BY <2>3 DEF c
<1>3. /\ final_path = components(base_dir) \o clean_path
      /\ clean_path \in Seq(Names) /\ components(base_dir) \in Seq(Parts)
  BY JoinNames, BaseType DEF final_path, IndInv, TypeOK
<1>4. file' = (components(base_dir) \o clean_path) \o components(t)
  BY <1>1, <1>2, <1>3, JoinNames
<1>5. file' = components(base_dir) \o (clean_path \o components(t))
  <2>1. Names \subseteq Parts
    BY DEF Parts
  <2>2. clean_path \in Seq(Parts) /\ components(t) \in Seq(Parts)
    BY <1>2, <1>3, <2>1
  <2>3. QED BY <1>3, <1>4, <2>2, ConcatAssociative
<1>6. clean_path \o components(t) \in Seq(Names)
  BY <1>2, <1>3
<1>7. file' \in Seq(Parts)
  BY <1>3, <1>5, <1>6 DEF Parts
<1>8. TypeOK' /\ Together'
  BY <1>1, <1>7 DEF IndInv, TypeOK, Together, Parts
<1>9. Found'
  BY <1>1, <1>5, <1>6 DEF Found
<1>10. QED BY <1>8, <1>9 DEF IndInv

\* Every step keeps it.
LEMMA NextIndInv == IndInv /\ [Next]_vars => IndInv'
<1> SUFFICES ASSUME IndInv, [Next]_vars PROVE IndInv'
  OBVIOUS
<1>1. CASE UNCHANGED vars
  BY <1>1 DEF vars, IndInv, TypeOK, Found, Together
<1>2. QED
  BY <1>1, BeginInv, UndecodableInv, ComponentInv, FinishInv, IndexInv DEF Next

-------------------------------------------------------------------------------
(* The invariants. *)

\* Both loops run as one, and what they find is below the root, in every state.
THEOREM Invariant == Spec => []IndInv
BY InitIndInv, NextIndInv, PTL DEF Spec

\* The state stays within its types.
THEOREM TypeCorrect == Spec => []TypeOK
<1>1. IndInv => TypeOK
  BY DEF IndInv
<1>2. QED BY <1>1, Invariant, PTL

\* Whatever a request says and however it is encoded, the file it is answered
\* with is reached from the root of its location by names alone.
THEOREM NeverLeavesBase == Spec => []StaysInBase
<1>1. IndInv => StaysInBase
  <2> SUFFICES ASSUME IndInv, sane = "some" PROVE StaysInBase
    BY DEF StaysInBase
  <2>1. PICK rest \in Seq(Names) : file = components(base_dir) \o rest
    BY DEF IndInv, Found
  <2>2. QED BY <2>1, BaseType, StartsWithBase DEF IndInv, StaysInBase
<1>2. QED BY <1>1, Invariant, PTL

\* sanitize_path and check_path_safety accept the same paths.
THEOREM LoopsAgree == Spec => []DepthAgrees
<1>1. IndInv => DepthAgrees
  <2> SUFFICES ASSUME IndInv PROVE DepthAgrees
    OBVIOUS
  <2>1. sane = "some" <=> safe = "ok"
    BY DEF IndInv, Together
  <2>2. ASSUME {sane, safe} \subseteq {"loop", "some", "ok"} PROVE depth = Len(clean_path)
    <3>1. sane \in {"loop", "some", "ok"} /\ sane # "ok"
      BY <2>2 DEF IndInv, TypeOK
    <3>2. sane \in {"loop", "some"}
      BY <3>1
    <3>3. QED BY <3>2 DEF IndInv, Together
  <2>3. QED BY <2>1, <2>2 DEF DepthAgrees
<1>2. QED BY <1>1, Invariant, PTL

-------------------------------------------------------------------------------
(* How deep a path is after each of its steps. *)

\* The steps of a path: "." and "/" make none.
Moves == Names \cup {".."}

\* Steps of s from i to j that go down, and that go up.
Downs(s, i, j) == {k \in i..j : s[k] \in Names}
Ups(s, i, j) == {k \in i..j : s[k] = ".."}

\* How deep s is after j steps.
Height(s, j) == Cardinality(Downs(s, 1, j)) - Cardinality(Ups(s, 1, j))

\* Steps can be counted.
LEMMA CountTypes ==
  ASSUME NEW s, NEW i \in Int, NEW j \in Int
  PROVE  /\ IsFiniteSet(Downs(s, i, j)) /\ Cardinality(Downs(s, i, j)) \in Nat
         /\ IsFiniteSet(Ups(s, i, j)) /\ Cardinality(Ups(s, i, j)) \in Nat
<1>1. IsFiniteSet(i..j)
  BY FS_Interval
<1>2. Downs(s, i, j) \subseteq i..j /\ Ups(s, i, j) \subseteq i..j
  BY DEF Downs, Ups
<1>3. IsFiniteSet(Downs(s, i, j)) /\ IsFiniteSet(Ups(s, i, j))
  BY <1>1, <1>2, FS_Subset
<1>4. QED BY <1>3, FS_CardinalityType

\* Heights are integers.
LEMMA HeightType ==
  ASSUME NEW s, NEW j \in Int
  PROVE  Height(s, j) \in Int
BY CountTypes DEF Height

\* A path starts at height 0.
LEMMA HeightZero ==
  ASSUME NEW s
  PROVE  Height(s, 0) = 0
<1>1. Downs(s, 1, 0) = {} /\ Ups(s, 1, 0) = {}
  BY DEF Downs, Ups
<1>2. QED BY <1>1, FS_EmptySet DEF Height

\* The height depends on the steps so far only.
LEMMA HeightSame ==
  ASSUME NEW s, NEW t, NEW j \in Nat, \A k \in 1..j : s[k] = t[k]
  PROVE  Height(s, j) = Height(t, j)
<1>1. Downs(s, 1, j) = Downs(t, 1, j) /\ Ups(s, 1, j) = Ups(t, 1, j)
  BY DEF Downs, Ups
<1>2. QED BY <1>1 DEF Height

\* A stretch of a path goes up more often than down when its end is higher up
\* than its beginning.
LEMMA RisesWhenLower ==
  ASSUME NEW s, NEW i \in Nat, NEW j \in Nat, i <= j
  PROVE  Cardinality(Ups(s, i + 1, j)) > Cardinality(Downs(s, i + 1, j))
           <=> Height(s, j) < Height(s, i)
<1>1. /\ Downs(s, 1, j) = Downs(s, 1, i) \cup Downs(s, i + 1, j)
      /\ Downs(s, 1, i) \cap Downs(s, i + 1, j) = {}
  BY DEF Downs
<1>2. /\ Ups(s, 1, j) = Ups(s, 1, i) \cup Ups(s, i + 1, j)
      /\ Ups(s, 1, i) \cap Ups(s, i + 1, j) = {}
  BY DEF Ups
<1> DEFINE a == Downs(s, 1, i)
           b == Downs(s, i + 1, j)
           c == Ups(s, 1, i)
           d == Ups(s, i + 1, j)
<1>3. /\ IsFiniteSet(a) /\ IsFiniteSet(b) /\ IsFiniteSet(c) /\ IsFiniteSet(d)
      /\ Cardinality(a) \in Nat /\ Cardinality(b) \in Nat
      /\ Cardinality(c) \in Nat /\ Cardinality(d) \in Nat
  BY CountTypes
<1>4. Height(s, i) = Cardinality(a) - Cardinality(c)
  BY DEF Height
<1>5. Height(s, j) = Cardinality(a \cup b) - Cardinality(c \cup d)
  BY <1>1, <1>2 DEF Height
<1> HIDE DEF a, b, c, d
<1>6. Cardinality(a \cup b) = Cardinality(a) + Cardinality(b)
  <2>1. a \cap b = {}
    BY <1>1 DEF a, b
  <2>2. Cardinality(a \cup b) = Cardinality(a) + Cardinality(b) - Cardinality(a \cap b)
    BY <1>3, FS_Union
  <2>3. Cardinality(a \cap b) = 0
    BY <2>1, FS_EmptySet
  <2>4. QED BY <1>3, <2>2, <2>3
<1>7. Cardinality(c \cup d) = Cardinality(c) + Cardinality(d)
  <2>1. c \cap d = {}
    BY <1>2 DEF c, d
  <2>2. Cardinality(c \cup d) = Cardinality(c) + Cardinality(d) - Cardinality(c \cap d)
    BY <1>3, FS_Union
  <2>3. Cardinality(c \cap d) = 0
    BY <2>1, FS_EmptySet
  <2>4. QED BY <1>3, <2>2, <2>3
<1>8. Cardinality(d) > Cardinality(b) <=> Height(s, j) < Height(s, i)
  BY <1>3, <1>4, <1>5, <1>6, <1>7
<1>9. QED BY <1>8 DEF b, d

\* A name goes one down, ".." one up.
LEMMA HeightStep ==
  ASSUME NEW s, NEW j \in Nat, s[j + 1] \in Moves
  PROVE  Height(s, j + 1) = IF s[j + 1] \in Names THEN Height(s, j) + 1 ELSE Height(s, j) - 1
<1>1. j + 1 \in Nat /\ j + 1 \notin 1..j /\ 1..(j + 1) = (1..j) \cup {j + 1}
  OBVIOUS
<1>2. /\ IsFiniteSet(Downs(s, 1, j)) /\ Cardinality(Downs(s, 1, j)) \in Nat
      /\ IsFiniteSet(Ups(s, 1, j)) /\ Cardinality(Ups(s, 1, j)) \in Nat
  BY CountTypes
<1>3. CASE s[j + 1] \in Names
  <2>1. s[j + 1] # ".."
    BY <1>3, NamesAssumption
  <2>2. Downs(s, 1, j + 1) = Downs(s, 1, j) \cup {j + 1} /\ j + 1 \notin Downs(s, 1, j)
    BY <1>1, <1>3 DEF Downs
  <2>3. Ups(s, 1, j + 1) = Ups(s, 1, j)
    BY <1>1, <2>1 DEF Ups
  <2>4. Cardinality(Downs(s, 1, j + 1)) = Cardinality(Downs(s, 1, j)) + 1
    BY <1>2, <2>2, FS_AddElement
  <2>5. QED BY <1>2, <1>3, <2>3, <2>4 DEF Height
<1>4. CASE s[j + 1] \notin Names
  <2>1. s[j + 1] = ".."
    BY <1>4 DEF Moves
  <2>2. Ups(s, 1, j + 1) = Ups(s, 1, j) \cup {j + 1} /\ j + 1 \notin Ups(s, 1, j)
    BY <1>1, <2>1 DEF Ups
  <2>3. Downs(s, 1, j + 1) = Downs(s, 1, j)
    BY <1>1, <1>4 DEF Downs
  <2>4. Cardinality(Ups(s, 1, j + 1)) = Cardinality(Ups(s, 1, j)) + 1
    BY <1>2, <2>2, FS_AddElement
  <2>5. QED BY <1>2, <1>4, <2>3, <2>4 DEF Height
<1>5. QED BY <1>3, <1>4

-------------------------------------------------------------------------------
(* What the stack is made of. *)

\* clean is what s leaves on the stack: at[v] is the step that pushed its v-th
\* name, and s has not gone up past it since.
Pushed(s, clean, at) ==
  /\ at \in [1..Len(clean) -> 1..Len(s)]
  /\ \A v \in 1..Len(clean) :
       /\ s[at[v]] = clean[v]
       /\ Height(s, at[v]) = v
       /\ \A j \in at[v]..Len(s) : Height(s, j) >= v
Stacked(s, clean) ==
  /\ \A j \in 1..Len(s) : Height(s, j) >= 0
  /\ Height(s, Len(s)) = Len(clean)
  /\ \E at : Pushed(s, clean, at)

\* Nothing leaves nothing.
LEMMA NothingStacked == Stacked(<<>>, <<>>)
<1>1. Pushed(<<>>, <<>>, <<>>)
  BY DEF Pushed
<1>2. QED BY <1>1, HeightZero DEF Stacked

\* A name is pushed.
LEMMA NameStacked ==
  ASSUME NEW s \in Seq(Moves), NEW clean \in Seq(Names), Stacked(s, clean), NEW c \in Names
  PROVE  Stacked(Append(s, c), Append(clean, c))
<1> DEFINE t == Append(s, c)
           n == Len(s)
           m == Len(clean)
<1>1. n \in Nat /\ m \in Nat /\ Len(t) = n + 1 /\ Len(Append(clean, c)) = m + 1
  OBVIOUS
<1>2. t[n + 1] = c /\ \A k \in 1..n : t[k] = s[k]
  OBVIOUS
<1>3. Append(clean, c)[m + 1] = c /\ \A v \in 1..m : Append(clean, c)[v] = clean[v]
  OBVIOUS
<1>4. \A j \in 0..n : Height(t, j) = Height(s, j)
  <2> TAKE j \in 0..n
  <2>1. j \in Nat /\ \A k \in 1..j : t[k] = s[k]
    BY <1>1, <1>2
  <2> HIDE DEF t
  <2>2. QED BY <2>1, HeightSame
<1>5. Height(t, n + 1) = m + 1
  <2>1. t[n + 1] \in Moves /\ t[n + 1] \in Names
    BY <1>2 DEF Moves
  <2> HIDE DEF t
  <2>2. Height(t, n + 1) = Height(t, n) + 1
    BY <1>1, <2>1, HeightStep
  <2>3. Height(t, n) = m
    BY <1>1, <1>4 DEF Stacked
  <2>4. QED BY <2>2, <2>3
<1>6. PICK at : Pushed(s, clean, at)
  BY DEF Stacked
<1> DEFINE at2 == [v \in 1..(m + 1) |-> IF v = m + 1 THEN n + 1 ELSE at[v]]
<1>7. \A v \in 1..m : at[v] \in 1..n
  BY <1>6 DEF Pushed
<1> HIDE DEF t
<1>8. at2 \in [1..(m + 1) -> 1..(n + 1)]
  BY <1>1, <1>7
<1>9. \A v \in 1..(m + 1) : /\ t[at2[v]] = Append(clean, c)[v]
                            /\ Height(t, at2[v]) = v
                            /\ \A j \in at2[v]..(n + 1) : Height(t, j) >= v
  <2> TAKE v \in 1..(m + 1)
  <2>1. CASE v = m + 1
    <3>1. at2[v] = n + 1
      BY <2>1
    <3>2. \A j \in (n + 1)..(n + 1) : j = n + 1
      BY <1>1
    <3>3. m + 1 >= m + 1
      BY <1>1
    <3> HIDE DEF at2
    <3>4. QED BY <2>1, <3>1, <3>2, <3>3, <1>2, <1>3, <1>5
  <2>2. CASE v # m + 1
    <3>1. v \in 1..m
      BY <1>1, <2>2
    <3>2. at2[v] = at[v] /\ at[v] \in 1..n /\ at[v] \in 0..n
      BY <1>7, <2>2, <3>1
    <3> HIDE DEF at2, n, m
    <3>3. s[at[v]] = clean[v] /\ Height(s, at[v]) = v /\ \A j \in at[v]..n : Height(s, j) >= v
      BY <1>6, <3>1 DEF Pushed, n, m
    <3>4. t[at2[v]] = Append(clean, c)[v] /\ Height(t, at2[v]) = v
      BY <1>2, <1>3, <1>4, <3>1, <3>2, <3>3
    <3>5. ASSUME NEW j \in at2[v]..(n + 1) PROVE Height(t, j) >= v
      <4>1. CASE j = n + 1
        BY <4>1, <1>1, <1>5, <3>1
      <4>2. CASE j # n + 1
        <5>1. j \in at[v]..n /\ j \in 0..n
          BY <4>2, <1>1, <3>2, <3>5
        <5>2. QED BY <5>1, <1>4, <3>3
      <4>3. QED BY <4>1, <4>2
    <3>6. QED BY <3>4, <3>5
  <2>3. QED BY <2>1, <2>2
<1>10. Pushed(t, Append(clean, c), at2)
  <2> HIDE DEF at2, n, m
  <2>1. QED BY <1>1, <1>8, <1>9 DEF Pushed
<1>11. \A j \in 1..(n + 1) : Height(t, j) >= 0
  <2> TAKE j \in 1..(n + 1)
  <2>1. CASE j = n + 1
    BY <2>1, <1>1, <1>5
  <2>2. CASE j # n + 1
    <3>1. j \in 1..n /\ j \in 0..n
      BY <2>2, <1>1
    <3>2. QED BY <3>1, <1>4 DEF Stacked
  <2>3. QED BY <2>1, <2>2
<1>12. Stacked(t, Append(clean, c))
  <2> HIDE DEF at2, n, m
  <2>1. QED BY <1>1, <1>5, <1>10, <1>11 DEF Stacked
<1>13. QED BY <1>12 DEF t

\* ".." pops the last name.
LEMMA UpStacked ==
  ASSUME NEW s \in Seq(Moves), NEW clean \in Seq(Names), Stacked(s, clean), clean # <<>>
  PROVE  Stacked(Append(s, ".."), Front(clean))
<1> DEFINE t == Append(s, "..")
           n == Len(s)
           m == Len(clean)
           cl == Front(clean)
<1>1. n \in Nat /\ m \in Nat /\ m >= 1 /\ Len(t) = n + 1
  OBVIOUS
<1>2. t[n + 1] = ".." /\ \A k \in 1..n : t[k] = s[k]
  OBVIOUS
<1>3. Len(cl) = m - 1 /\ \A v \in 1..(m - 1) : cl[v] = clean[v]
  <2>1. cl = [v \in 1..(m - 1) |-> clean[v]]
    BY <1>1 DEF Front
  <2> HIDE DEF cl
  <2>2. QED BY <1>1, <2>1
<1>4. \A j \in 0..n : Height(t, j) = Height(s, j)
  <2> TAKE j \in 0..n
  <2>1. j \in Nat /\ \A k \in 1..j : t[k] = s[k]
    BY <1>1, <1>2
  <2> HIDE DEF t
  <2>2. QED BY <2>1, HeightSame
<1>5. Height(t, n + 1) = m - 1
  <2>1. t[n + 1] \in Moves /\ t[n + 1] \notin Names
    BY <1>2, NamesAssumption DEF Moves
  <2> HIDE DEF t
  <2>2. Height(t, n + 1) = Height(t, n) - 1
    BY <1>1, <2>1, HeightStep
  <2>3. Height(t, n) = m
    BY <1>1, <1>4 DEF Stacked
  <2>4. QED BY <2>2, <2>3
<1>6. PICK at : Pushed(s, clean, at)
  BY DEF Stacked
<1> DEFINE at2 == [v \in 1..(m - 1) |-> at[v]]
<1>7. \A v \in 1..m : at[v] \in 1..n
  BY <1>6 DEF Pushed
<1> HIDE DEF t, cl
<1>8. at2 \in [1..(m - 1) -> 1..(n + 1)]
  BY <1>1, <1>7
<1>9. \A v \in 1..(m - 1) : /\ t[at2[v]] = cl[v]
                            /\ Height(t, at2[v]) = v
                            /\ \A j \in at2[v]..(n + 1) : Height(t, j) >= v
  <2> TAKE v \in 1..(m - 1)
  <2>1. v \in 1..m /\ m - 1 >= v /\ v \in Nat
    BY <1>1
  <2>2. at2[v] = at[v] /\ at[v] \in 1..n /\ at[v] \in 0..n
    BY <1>7, <2>1
  <2> HIDE DEF at2, n, m
  <2>3. s[at[v]] = clean[v] /\ Height(s, at[v]) = v /\ \A j \in at[v]..n : Height(s, j) >= v
    BY <1>6, <2>1 DEF Pushed, n, m
  <2>4. t[at2[v]] = cl[v] /\ Height(t, at2[v]) = v
    BY <1>2, <1>3, <1>4, <2>2, <2>3
  <2>5. ASSUME NEW j \in at2[v]..(n + 1) PROVE Height(t, j) >= v
    <3>1. CASE j = n + 1
      BY <3>1, <1>1, <1>5, <2>1
    <3>2. CASE j # n + 1
      <4>1. j \in at[v]..n /\ j \in 0..n
        BY <3>2, <1>1, <2>2, <2>5
      <4>2. QED BY <4>1, <1>4, <2>3
    <3>3. QED BY <3>1, <3>2
  <2>6. QED BY <2>4, <2>5
<1>10. Pushed(t, cl, at2)
  <2> HIDE DEF at2, n, m
  <2>1. QED BY <1>1, <1>3, <1>8, <1>9 DEF Pushed
<1>11. \A j \in 1..(n + 1) : Height(t, j) >= 0
  <2> TAKE j \in 1..(n + 1)
  <2>1. CASE j = n + 1
    BY <2>1, <1>1, <1>5
  <2>2. CASE j # n + 1
    <3>1. j \in 1..n /\ j \in 0..n
      BY <2>2, <1>1
    <3>2. QED BY <3>1, <1>4 DEF Stacked
  <2>3. QED BY <2>1, <2>2
<1>12. Stacked(t, cl)
  <2> HIDE DEF at2, n, m
  <2>1. QED BY <1>1, <1>3, <1>5, <1>10, <1>11 DEF Stacked
<1>13. QED BY <1>12 DEF t, cl

\* With nothing to pop, ".." leads above the beginning.
LEMMA UpAbove ==
  ASSUME NEW s \in Seq(Moves), Stacked(s, <<>>)
  PROVE  Height(Append(s, ".."), Len(s) + 1) < 0
<1> DEFINE t == Append(s, "..")
           n == Len(s)
<1>1. n \in Nat /\ t[n + 1] = ".." /\ \A k \in 1..n : t[k] = s[k]
  OBVIOUS
<1>2. Height(s, n) = 0
  BY DEF Stacked
<1>3. t[n + 1] \in Moves /\ t[n + 1] \notin Names
  BY <1>1, NamesAssumption DEF Moves
<1> HIDE DEF t, n
<1>4. Height(t, n + 1) = Height(t, n) - 1
  BY <1>1, <1>3, HeightStep
<1>5. Height(t, n) = 0
  BY <1>1, <1>2, HeightSame
<1>6. Height(t, n + 1) < 0
  BY <1>4, <1>5
<1>7. QED BY <1>6 DEF t, n

\* The steps down that nothing later goes up past.
KeptIn(s) ==
  {i \in Downs(s, 1, Len(s)) :
     \A j \in (i + 1)..Len(s) :
       ~ (Cardinality(Ups(s, i + 1, j)) > Cardinality(Downs(s, i + 1, j)))}

\* They are the steps that pushed the names on the stack.
LEMMA KeptArePushed ==
  ASSUME NEW s \in Seq(Moves), NEW clean \in Seq(Names), Stacked(s, clean), NEW at,
         Pushed(s, clean, at), NEW i
  PROVE  i \in KeptIn(s) <=> \E v \in 1..Len(clean) : i = at[v]
<1> DEFINE n == Len(s)
           m == Len(clean)
<1>1. n \in Nat /\ m \in Nat
  OBVIOUS
<1>2. \A v \in 1..m : at[v] \in 1..n
  BY DEF Pushed
<1>3. \A v \in 1..m : /\ s[at[v]] = clean[v] /\ Height(s, at[v]) = v
                      /\ \A j \in at[v]..n : Height(s, j) >= v
  BY DEF Pushed
<1>4. \A k \in 1..n : s[k] \in Moves
  OBVIOUS
<1> HIDE DEF n, m
<1>5. ASSUME NEW v \in 1..m, i = at[v] PROVE i \in KeptIn(s)
  <2>1. i \in 1..n /\ s[i] \in Names
    <3>1. clean[v] \in Names
      BY DEF m
    <3>2. QED BY <3>1, <1>2, <1>3, <1>5
  <2>2. ASSUME NEW j \in (i + 1)..n
        PROVE  ~ (Cardinality(Ups(s, i + 1, j)) > Cardinality(Downs(s, i + 1, j)))
    <3>1. i \in Nat /\ j \in Nat /\ i <= j /\ j \in i..n
      BY <2>1, <1>1
    <3>2. Height(s, j) >= v /\ Height(s, i) = v
      BY <3>1, <1>3, <1>5
    <3>3. ~ (Height(s, j) < Height(s, i))
      BY <3>1, <3>2, HeightType
    <3>4. QED BY <3>1, <3>3, RisesWhenLower
  <2>3. QED BY <2>1, <2>2 DEF KeptIn, Downs, n
<1>6. ASSUME i \in KeptIn(s) PROVE \E v \in 1..m : i = at[v]
  <2>1. i \in 1..n /\ s[i] \in Names /\ i \in Nat /\ i - 1 \in Nat
    BY <1>1, <1>6 DEF KeptIn, Downs, n
  <2>2. ASSUME NEW j \in i..n PROVE Height(s, j) >= Height(s, i)
    <3>1. Height(s, i) \in Int /\ Height(s, j) \in Int /\ j \in Nat /\ i <= j
      BY <2>1, <1>1, HeightType
    <3>2. CASE j = i
      BY <3>1, <3>2
    <3>3. CASE j # i
      <4>1. j \in (i + 1)..n
        BY <2>1, <3>1, <3>3, <1>1
      <4>2. ~ (Cardinality(Ups(s, i + 1, j)) > Cardinality(Downs(s, i + 1, j)))
        BY <4>1, <1>6 DEF KeptIn, n
      <4>3. ~ (Height(s, j) < Height(s, i))
        BY <2>1, <3>1, <4>2, RisesWhenLower
      <4>4. QED BY <3>1, <4>3
    <3>4. QED BY <3>2, <3>3
  <2>3. Height(s, i) = Height(s, i - 1) + 1
    <3>1. (i - 1) + 1 = i
      BY <2>1
    <3>2. QED BY <2>1, <3>1, <1>4, HeightStep
  <2>4. Height(s, i - 1) \in Nat
    <3>1. Height(s, i - 1) \in Int
      BY <2>1, HeightType
    <3>2. CASE i = 1
      BY <3>2, HeightZero
    <3>3. CASE i # 1
      <4>1. i - 1 \in 1..n
        BY <2>1, <3>3, <1>1
      <4>2. QED BY <3>1, <4>1 DEF Stacked, n
    <3>4. QED BY <3>2, <3>3
  <2>5. Height(s, n) = m /\ n \in i..n
    BY <2>1, <1>1 DEF Stacked, n, m
  <2> DEFINE v == Height(s, i)
             w == Height(s, i - 1)
  <2>6. v = w + 1 /\ w \in Nat /\ m >= v
    BY <2>2, <2>3, <2>4, <2>5
  <2> HIDE DEF v, w
  <2>7. v \in 1..m
    BY <2>6, <1>1
  <2>8. at[v] \in 1..n /\ Height(s, at[v]) = v /\ \A j \in at[v]..n : Height(s, j) >= v
    BY <2>7, <1>2, <1>3
  <2>9. ~ (i < at[v])
    <3> SUFFICES ASSUME i < at[v] PROVE FALSE
      OBVIOUS
    <3>1. at[v] - 1 \in Nat /\ at[v] - 1 \in i..n /\ (at[v] - 1) + 1 = at[v]
      BY <2>1, <2>8, <1>1
    <3>2. s[at[v]] \in Moves /\ s[at[v]] \in Names
      <4>1. s[at[v]] = clean[v] /\ clean[v] \in Names
        BY <2>7, <1>3 DEF m
      <4>2. QED BY <4>1 DEF Moves
    <3>3. Height(s, at[v]) = Height(s, at[v] - 1) + 1
      BY <3>1, <3>2, HeightStep
    <3>4. Height(s, at[v] - 1) >= v
      BY <3>1, <2>2 DEF v
    <3>5. Height(s, at[v] - 1) \in Int /\ v \in Nat
      BY <3>1, <2>6, HeightType
    <3>6. QED BY <3>3, <3>4, <3>5, <2>8
  <2>10. ~ (at[v] < i)
    <3> SUFFICES ASSUME at[v] < i PROVE FALSE
      OBVIOUS
    <3>1. i - 1 \in at[v]..n
      BY <2>1, <2>8, <1>1
    <3>2. w >= v
      BY <3>1, <2>8 DEF w
    <3>3. QED BY <3>2, <2>6
  <2>11. i = at[v]
    BY <2>1, <2>8, <2>9, <2>10
  <2>12. QED BY <2>7, <2>11
<1>7. QED BY <1>5, <1>6 DEF m

\* They are in the order in which they were pushed.
LEMMA PushedInOrder ==
  ASSUME NEW s \in Seq(Moves), NEW clean \in Seq(Names), NEW at, Pushed(s, clean, at),
         NEW v \in 1..Len(clean), NEW w \in 1..Len(clean)
  PROVE  at[v] <= at[w] <=> v <= w
<1>1. /\ at[v] \in 1..Len(s) /\ at[w] \in 1..Len(s) /\ Len(s) \in Nat
      /\ Height(s, at[v]) = v /\ \A j \in at[v]..Len(s) : Height(s, j) >= v
      /\ Height(s, at[w]) = w /\ \A j \in at[w]..Len(s) : Height(s, j) >= w
  BY DEF Pushed
<1>2. at[v] <= at[w] => v <= w
  <2>1. at[v] <= at[w] => at[w] \in at[v]..Len(s)
    BY <1>1
  <2>2. QED BY <1>1, <2>1
<1>3. at[w] <= at[v] => w <= v
  <2>1. at[w] <= at[v] => at[v] \in at[w]..Len(s)
    BY <1>1
  <2>2. QED BY <1>1, <2>1
<1>4. at[v] = at[w] => v = w
  BY <1>1
<1>5. QED BY <1>1, <1>2, <1>3, <1>4

\* So there are as many of them, up to each, as names on the stack.
LEMMA KeptCounted ==
  ASSUME NEW s \in Seq(Moves), NEW clean \in Seq(Names), Stacked(s, clean), NEW at,
         Pushed(s, clean, at), NEW v \in 0..Len(clean)
  PROVE  Cardinality({k \in KeptIn(s) : \E u \in 1..v : k = at[u]}) = v
<1> DEFINE K == {k \in KeptIn(s) : \E u \in 1..v : k = at[u]}
           f == [u \in 1..v |-> at[u]]
<1>1. v \in Nat /\ Len(clean) \in Nat /\ \A u \in 1..v : u \in 1..Len(clean)
  OBVIOUS
<1>2. \A u \in 1..v : at[u] \in K
  BY <1>1, KeptArePushed
<1>3. \A u, w \in 1..v : at[u] = at[w] => u = w
  BY <1>1 DEF Pushed
<1>4. f \in [1..v -> K]
  BY <1>2
<1>5. \A u, w \in 1..v : f[u] = f[w] => u = w
  BY <1>3
<1>6. \A k \in K : \E u \in 1..v : f[u] = k
  OBVIOUS
<1> HIDE DEF K, f
<1>7. f \in Bijection(1..v, K)
  BY <1>4, <1>5, <1>6, Fun_IsBij
<1>8. ExistsBijection(1..v, K)
  BY <1>7 DEF ExistsBijection
<1>9. IsFiniteSet(1..v) /\ Cardinality(1..v) = v
  <2>1. 1 \in Int /\ v \in Int
    BY <1>1
  <2>2. IsFiniteSet(1..v) /\ Cardinality(1..v) = IF 1 > v THEN 0 ELSE v - 1 + 1
    BY <2>1, FS_Interval
  <2>3. QED BY <1>1, <2>2
<1>10. Cardinality(K) = v
  BY <1>8, <1>9, FS_Bijection
<1>11. QED BY <1>10 DEF K

-------------------------------------------------------------------------------
(* The steps of a path, read one component after another. *)

\* u and v begin with the same n members.
Same(u, v, n) == \A i \in 1..n : u[i] = v[i]

\* Two tables that flatten the same sequences are the same, as far as both go.
LEMMA FlattensAgree ==
  ASSUME NEW s, NEW t, NEW n \in Nat, NEW m \in Nat, n <= m, Same(s, t, n),
         NEW f, Flattens(f, s, n), NEW g, Flattens(g, t, m)
  PROVE  Same(f, g, n)
<1> DEFINE Bad == {i \in 1..n : f[i] # g[i]}
<1>1. /\ \A i \in 1..n : f[i] = IF i = 1 THEN s[i] ELSE f[i - 1] \o s[i]
      /\ \A i \in 1..m : g[i] = IF i = 1 THEN t[i] ELSE g[i - 1] \o t[i]
  BY DEF Flattens
<1>2. ASSUME Bad # {} PROVE FALSE
  <2>1. Bad \in SUBSET Nat
    OBVIOUS
  <2>2. PICK k \in Bad : \A j \in Bad : k <= j
    BY <1>2, <2>1, LeastNumber
  <2>3. k \in 1..n /\ k \in 1..m /\ k \in Nat /\ f[k] # g[k] /\ s[k] = t[k]
    BY DEF Same
  <2>4. k # 1
    BY <1>1, <2>3
  <2>5. k - 1 \in 1..n /\ ~ (k <= k - 1)
    BY <2>3, <2>4
  <2>6. k - 1 \notin Bad
    <3> HIDE DEF Bad
    <3>1. QED BY <2>2, <2>5
  <2>7. f[k - 1] = g[k - 1]
    BY <2>5, <2>6
  <2>8. f[k] = f[k - 1] \o s[k] /\ g[k] = g[k - 1] \o t[k]
    BY <1>1, <2>3, <2>4
  <2>9. QED BY <2>3, <2>7, <2>8
<1>3. QED BY <1>2 DEF Same

\* FlattenSeq is the last entry of the table.
LEMMA FlattenLast ==
  ASSUME NEW S, NEW s \in Seq(Seq(S)), s # <<>>
  PROVE  \E g : Flattens(g, s, Len(s)) /\ FlattenSeq(s) = g[Len(s)]
<1> DEFINE n == Len(s)
           f == CHOOSE g : g = [i \in 1..n |-> IF i = 1 THEN s[i] ELSE g[i - 1] \o s[i]]
<1>1. n \in 1..n /\ n \in Nat
  OBVIOUS
<1>2. FlattenSeq(s) = f[n]
  BY <1>1 DEF FlattenSeq
<1>3. \E g : Flattens(g, s, n)
  BY <1>1, FlattenExists
<1>4. f = CHOOSE g : Flattens(g, s, n)
  BY DEF Flattens
<1> HIDE DEF f, n
<1>5. Flattens(f, s, n)
  BY <1>3, <1>4
<1>6. QED BY <1>2, <1>5 DEF n

\* Flattening one more sequence concatenates it.
LEMMA FlattenAppend ==
  ASSUME NEW S, NEW s \in Seq(Seq(S)), NEW x \in Seq(S)
  PROVE  FlattenSeq(Append(s, x)) = FlattenSeq(s) \o x
<1> DEFINE t == Append(s, x)
           n == Len(s)
<1>1. /\ t \in Seq(Seq(S)) /\ Len(t) = n + 1 /\ n \in Nat /\ t # <<>>
      /\ t[n + 1] = x /\ \A i \in 1..n : s[i] = t[i]
  <2> DEFINE Q == Seq(S)
  <2>1. s \in Seq(Q) /\ x \in Q
    OBVIOUS
  <2> HIDE DEF Q
  <2>2. t \in Seq(Q) /\ Len(t) = n + 1 /\ n \in Nat /\ t[n + 1] = x
    BY <2>1
  <2>3. t # <<>>
    BY <2>2
  <2>4. \A i \in 1..n : s[i] = t[i]
    BY <2>1
  <2>5. QED BY <2>2, <2>3, <2>4 DEF Q
<1> HIDE DEF t
<1>2. PICK g : Flattens(g, t, n + 1) /\ FlattenSeq(t) = g[n + 1]
  BY <1>1, FlattenLast
<1>3. g[n + 1] = IF n + 1 = 1 THEN t[n + 1] ELSE g[(n + 1) - 1] \o t[n + 1]
  <2>1. n + 1 \in 1..(n + 1)
    BY <1>1
  <2>2. \A i \in 1..(n + 1) : g[i] = IF i = 1 THEN t[i] ELSE g[i - 1] \o t[i]
    BY <1>2 DEF Flattens
  <2> HIDE DEF n
  <2>3. QED BY <2>1, <2>2
<1>4. CASE s = <<>>
  <2>1. FlattenSeq(t) = x
    BY <1>1, <1>2, <1>3, <1>4
  <2>2. FlattenSeq(s) = <<>>
    BY <1>4 DEF FlattenSeq
  <2>3. <<>> \o x = x
    OBVIOUS
  <2>4. QED BY <2>1, <2>2, <2>3 DEF t
<1>5. CASE s # <<>>
  <2>1. n # 0 /\ n + 1 # 1 /\ (n + 1) - 1 = n /\ n \in 1..n /\ n <= n + 1 /\ n + 1 \in Nat
    BY <1>1, <1>5
  <2>2. PICK f : Flattens(f, s, n) /\ FlattenSeq(s) = f[n]
    BY <1>5, FlattenLast
  <2> HIDE DEF n
  <2>3. Same(s, t, n)
    BY <1>1 DEF Same
  <2>4. Same(f, g, n)
    BY <1>1, <1>2, <2>1, <2>2, <2>3, FlattensAgree
  <2>5. f[n] = g[n]
    BY <2>1, <2>4 DEF Same
  <2>6. FlattenSeq(t) = FlattenSeq(s) \o x
    BY <1>1, <1>2, <1>3, <2>1, <2>2, <2>5
  <2>7. QED BY <2>6 DEF t
<1>6. QED BY <1>4, <1>5

\* Filtering one more part.
LEMMA WithoutAppend ==
  ASSUME NEW T, NEW t \in Seq(T), NEW S, NEW c \in T
  PROVE  Without(Append(t, c), S) = IF c \in S THEN Without(t, S) ELSE Append(Without(t, S), c)
<1> DEFINE ss == [i \in DOMAIN t |-> IF t[i] \in S THEN <<>> ELSE <<t[i]>>]
           u == Append(t, c)
           uu == [i \in DOMAIN u |-> IF u[i] \in S THEN <<>> ELSE <<u[i]>>]
           x == IF c \in S THEN <<>> ELSE <<c>>
<1>1. x \in Seq(T) /\ Len(t) \in Nat
  OBVIOUS
<1>2. ss \in Seq(Seq(T)) /\ Len(ss) = Len(t)
  <2>1. \A i \in 1..Len(t) : (IF t[i] \in S THEN <<>> ELSE <<t[i]>>) \in Seq(T)
    OBVIOUS
  <2>2. ss = [i \in 1..Len(t) |-> IF t[i] \in S THEN <<>> ELSE <<t[i]>>]
    OBVIOUS
  <2> HIDE DEF ss
  <2>3. QED BY <1>1, <2>1, <2>2
<1>3. uu = Append(ss, x)
  <2>1. DOMAIN u = 1..(Len(t) + 1) /\ u[Len(t) + 1] = c /\ \A i \in 1..Len(t) : u[i] = t[i]
    OBVIOUS
  <2> HIDE DEF u
  <2>2. uu = [i \in 1..(Len(t) + 1) |-> IF u[i] \in S THEN <<>> ELSE <<u[i]>>]
    BY <2>1
  <2>3. \A i \in 1..Len(t) : ss[i] = IF t[i] \in S THEN <<>> ELSE <<t[i]>>
    OBVIOUS
  <2> HIDE DEF ss, uu, x
  <2>4. Append(ss, x) = [i \in 1..(Len(t) + 1) |-> IF i = Len(t) + 1 THEN x ELSE ss[i]]
    <3> DEFINE Q == Seq(T)
    <3>1. ss \in Seq(Q) /\ x \in Q
      BY <1>1, <1>2
    <3> HIDE DEF Q
    <3> DEFINE z == Append(ss, x)
    <3>2. z \in Seq(Q) /\ Len(z) = Len(t) + 1
      BY <3>1, <1>2
    <3>3. \A i \in 1..(Len(t) + 1) : z[i] = IF i = Len(t) + 1 THEN x ELSE ss[i]
      BY <3>1, <1>1, <1>2
    <3> HIDE DEF z
    <3>4. z = [i \in 1..(Len(t) + 1) |-> z[i]]
      BY <3>2
    <3>5. z = [i \in 1..(Len(t) + 1) |-> IF i = Len(t) + 1 THEN x ELSE ss[i]]
      BY <3>3, <3>4
    <3>6. QED BY <3>5 DEF z
  <2>5. \A i \in 1..(Len(t) + 1) :
          (IF u[i] \in S THEN <<>> ELSE <<u[i]>>) = (IF i = Len(t) + 1 THEN x ELSE ss[i])
    <3> TAKE i \in 1..(Len(t) + 1)
    <3>1. CASE i = Len(t) + 1
      BY <3>1, <2>1 DEF x
    <3>2. CASE i # Len(t) + 1
      <4>1. i \in 1..Len(t)
        BY <3>2, <1>1
      <4>2. QED BY <4>1, <3>2, <2>1, <2>3
    <3>3. QED BY <3>1, <3>2
  <2>6. QED BY <2>2, <2>4, <2>5
<1> HIDE DEF ss, uu
<1>4. FlattenSeq(uu) = FlattenSeq(ss) \o x
  BY <1>1, <1>2, <1>3, FlattenAppend
<1>5. FlattenSeq(uu) = Without(u, S) /\ FlattenSeq(ss) = Without(t, S)
  BY DEF Without, uu, ss
<1>6. Without(t, S) \in Seq(T \ S)
  BY WithoutType
<1>7. CASE c \in S
  <2>1. Without(t, S) \o <<>> = Without(t, S)
    BY <1>6
  <2>2. QED BY <1>4, <1>5, <1>7, <2>1
<1>8. CASE c \notin S
  <2>1. x = <<c>> /\ c \in T \ S
    BY <1>8
  <2>2. Without(t, S) \o <<c>> = Append(Without(t, S), c)
    BY <1>6, <2>1
  <2>3. QED BY <1>4, <1>5, <1>8, <2>1, <2>2
<1>9. QED BY <1>7, <1>8

\* What is read first is filtered first.
LEMMA WithoutPrefix ==
  ASSUME NEW T, NEW u \in Seq(T), NEW v \in Seq(T), NEW S
  PROVE  LET w == Without(u, S)
             all == Without(u \o v, S)
         IN  Len(w) <= Len(all) /\ Same(w, all, Len(w))
<1> DEFINE Upto(k) == u \o SubSeq(v, 1, k)
           Good(k) == \E r \in Seq(T \ S) : Without(Upto(k), S) = Without(u, S) \o r
           Bad == {k \in 0..Len(v) : ~ Good(k)}
<1>1. Len(v) \in Nat /\ Without(u, S) \in Seq(T \ S)
  BY WithoutType
<1>2. Good(0)
  <2>1. Upto(0) = u
    OBVIOUS
  <2>2. Without(u, S) = Without(u, S) \o <<>> /\ <<>> \in Seq(T \ S)
    BY <1>1
  <2>3. QED BY <2>1, <2>2
<1>3. ASSUME NEW k \in 1..Len(v), Good(k - 1) PROVE Good(k)
  <2>1. PICK r \in Seq(T \ S) : Without(Upto(k - 1), S) = Without(u, S) \o r
    BY <1>3
  <2>2. v[k] \in T /\ k - 1 \in 0..Len(v) /\ k \in Nat /\ k - 1 \in Nat
    BY <1>1
  <2>3. Upto(k - 1) \in Seq(T) /\ Upto(k) = Append(Upto(k - 1), v[k])
    <3> DEFINE p == SubSeq(v, 1, k - 1)
               q == SubSeq(v, 1, k)
    <3>1. p \in Seq(T) /\ q \in Seq(T)
      BY <2>2
    <3>2. q = Append(p, v[k])
      BY <1>1, <2>2
    <3> HIDE DEF p, q
    <3>3. u \o p \in Seq(T) /\ u \o Append(p, v[k]) = Append(u \o p, v[k])
      BY <3>1, <2>2
    <3>4. QED BY <3>2, <3>3 DEF p, q
  <2> HIDE DEF Upto
  <2>4. CASE v[k] \in S
    <3>1. Without(Upto(k), S) = Without(u, S) \o r
      <4> DEFINE p == Upto(k - 1)
      <4>1. p \in Seq(T) /\ v[k] \in T /\ Upto(k) = Append(p, v[k])
        BY <2>2, <2>3
      <4> HIDE DEF p
      <4>2. Without(Append(p, v[k]), S) = Without(p, S)
        BY <4>1, <2>4, WithoutAppend
      <4>3. QED BY <4>1, <4>2, <2>1 DEF p
    <3>2. QED BY <3>1
  <2>5. CASE v[k] \notin S
    <3>1. Without(Upto(k), S) = Append(Without(u, S) \o r, v[k])
      <4> DEFINE p == Upto(k - 1)
      <4>1. p \in Seq(T) /\ v[k] \in T /\ Upto(k) = Append(p, v[k])
        BY <2>2, <2>3
      <4> HIDE DEF p
      <4>2. Without(Append(p, v[k]), S) = Append(Without(p, S), v[k])
        BY <4>1, <2>5, WithoutAppend
      <4>3. QED BY <4>1, <4>2, <2>1 DEF p
    <3>2. v[k] \in T \ S
      BY <2>2, <2>5
    <3>3. Append(Without(u, S) \o r, v[k]) = Without(u, S) \o Append(r, v[k])
      <4> DEFINE w == Without(u, S)
                 x == v[k]
                 Q == T \ S
      <4>1. w \in Seq(Q) /\ r \in Seq(Q) /\ x \in Q
        BY <1>1, <3>2
      <4> HIDE DEF w, x, Q
      <4>2. w \o r \in Seq(Q) /\ w \o Append(r, x) = Append(w \o r, x)
        BY <4>1
      <4>3. QED BY <4>2 DEF w, x
    <3>4. Append(r, v[k]) \in Seq(T \ S)
      BY <3>2
    <3>5. QED BY <3>1, <3>3, <3>4
  <2>6. QED BY <2>4, <2>5
<1> HIDE DEF Good
<1>4. Bad = {}
  <2> SUFFICES ASSUME Bad # {} PROVE FALSE
    OBVIOUS
  <2>1. Bad \in SUBSET Nat
    OBVIOUS
  <2>2. PICK k \in Bad : \A j \in Bad : k <= j
    BY <2>1, LeastNumber
  <2>3. k \in 0..Len(v) /\ ~ Good(k) /\ k # 0
    BY <1>2
  <2>4. k \in 1..Len(v) /\ k - 1 \in 0..Len(v) /\ ~ (k <= k - 1)
    BY <2>3, <1>1
  <2>5. k - 1 \notin Bad
    <3> HIDE DEF Bad
    <3>1. QED BY <2>2, <2>4
  <2>6. QED BY <1>3, <2>3, <2>4, <2>5
<1>5. Good(Len(v))
  <2>1. Len(v) \in 0..Len(v)
    BY <1>1
  <2>2. QED BY <1>4, <2>1
<1>6. Upto(Len(v)) = u \o v
  BY <1>1
<1>7. PICK r \in Seq(T \ S) : Without(u \o v, S) = Without(u, S) \o r
  BY <1>5, <1>6 DEF Good
<1> DEFINE w == Without(u, S)
           Q == T \ S
<1>8. w \in Seq(Q) /\ r \in Seq(Q)
  BY <1>1
<1> HIDE DEF w, Q
<1>9. Len(w \o r) = Len(w) + Len(r) /\ Len(w) \in Nat /\ Len(r) \in Nat
  BY <1>8
<1>10. \A i \in 1..Len(w) : w[i] = (w \o r)[i]
  BY <1>8
<1>11. Len(w) <= Len(w \o r) /\ Same(w, w \o r, Len(w))
  BY <1>9, <1>10 DEF Same
<1>12. QED BY <1>7, <1>11 DEF w

-------------------------------------------------------------------------------
(* The loop. *)

\* The components of the path of the request.
Path == components(Decoded(Stripped(remaining_path)))

\* What makes no step.
Dots == {"/", "."}

\* The stack holds what the components read so far leave; a path is refused
\* only when they lead above its beginning.
Normal ==
  /\ sane = "loop" =>
       \E done \in Seq(Parts) : Path = done \o todo /\ Stacked(Without(done, Dots), clean_path)
  /\ sane = "some" => Stacked(Steps, clean_path)
  /\ sane = "none" /\ Decodable(Stripped(remaining_path)) =>
       \E j \in DOMAIN Steps : Height(Steps, j) < 0

\* Without dots there are only steps.
LEMMA StepsType ==
  ASSUME NEW t \in Seq(Parts)
  PROVE  Without(t, Dots) \in Seq(Moves)
<1>1. Parts \ Dots = Moves
  BY NamesAssumption DEF Parts, Dots, Moves
<1>2. QED BY <1>1, WithoutType

\* The path, and its steps.
LEMMA PathType ==
  ASSUME TypeOK
  PROVE  Path \in Seq(Parts) /\ Steps = Without(Path, Dots) /\ Steps \in Seq(Moves)
<1>1. Path \in Seq(Parts)
  BY StrippedType, DecodedType, ComponentsType DEF TypeOK, Path
<1>2. Steps = Without(Path, Dots)
  BY DEF Steps, Path, Dots
<1>3. QED BY <1>1, <1>2, StepsType

\* Begin has read nothing yet.
LEMMA BeginNormal == ASSUME IndInv, Begin PROVE Normal'
<1>1. /\ sane' = "loop" /\ todo' = Path /\ clean_path' = <<>> /\ Path' = Path
  BY DEF Begin, IndInv, Together, Path
<1>2. Path = <<>> \o Path /\ <<>> \in Seq(Parts)
  BY PathType DEF IndInv
<1>3. Without(<<>>, Dots) = <<>>
  BY DEF Without, FlattenSeq
<1>4. Stacked(Without(<<>>, Dots), <<>>)
  BY <1>3, NothingStacked
<1> HIDE DEF Path
<1>5. QED BY <1>1, <1>2, <1>4 DEF Normal

\* One round of the loop, with its component c.
LEMMA ComponentNormal == ASSUME IndInv, Normal, Component PROVE Normal'
<1> DEFINE c == Head(todo)
<1>1. /\ TypeOK /\ Path \in Seq(Parts) /\ Steps = Without(Path, Dots)
      /\ Path' = Path /\ Steps' = Steps /\ UNCHANGED remaining_path
  BY PathType DEF IndInv, Component, Path, Steps
<1>2. todo # <<>> /\ todo' = Tail(todo) /\ todo \in Seq(Parts) /\ c \in Parts
  BY HeadTailProperties DEF Component, IndInv, TypeOK, Parts
<1>3. CASE sane # "loop"
  <2>1. UNCHANGED <<clean_path, sane>>
    BY <1>3 DEF Component
  <2>2. QED BY <1>1, <1>3, <2>1 DEF Normal
<1>4. CASE sane = "loop"
  <2>1. PICK done \in Seq(Parts) : Path = done \o todo /\ Stacked(Without(done, Dots), clean_path)
    BY <1>4 DEF Normal
  <2> DEFINE d == Append(done, c)
             s == Without(done, Dots)
  <2>2. d \in Seq(Parts) /\ Tail(todo) \in Seq(Parts) /\ Path = d \o Tail(todo)
    <3>1. d \in Seq(Parts) /\ Tail(todo) \in Seq(Parts)
      BY <1>2, <2>1
    <3>2. todo = <<c>> \o Tail(todo) /\ <<c>> \in Seq(Parts)
      BY <1>2
    <3> HIDE DEF c
    <3>3. d = done \o <<c>>
      BY <1>2, <2>1, AppendIsConcat
    <3>4. (done \o <<c>>) \o Tail(todo) = done \o (<<c>> \o Tail(todo))
      BY <2>1, <3>1, <3>2, ConcatAssociative
    <3>5. QED BY <2>1, <3>1, <3>2, <3>3, <3>4
  <2>3. sanitize(c) /\ clean_path \in Seq(Names) /\ s \in Seq(Moves)
    BY <1>4, <2>1, StepsType DEF Component, IndInv, TypeOK
  <2>4. Without(d, Dots) = IF c \in Dots THEN s ELSE Append(s, c)
    BY <1>2, <2>1, WithoutAppend
  <2> HIDE DEF c, d, s
  <2>5. CASE c \in Names
    <3>1. c \notin Dots /\ clean_path' = Append(clean_path, c) /\ UNCHANGED sane
      BY <2>3, <2>5, NamesAssumption DEF sanitize, Dots
    <3>2. Stacked(Without(d, Dots), clean_path')
      BY <2>1, <2>3, <2>4, <2>5, <3>1, NameStacked DEF s
    <3>3. QED BY <1>1, <1>2, <1>4, <2>2, <3>1, <3>2 DEF Normal
  <2>6. CASE c = ".." /\ clean_path # <<>>
    <3>1. c \notin Dots /\ clean_path' = Front(clean_path) /\ UNCHANGED sane
      BY <2>3, <2>6, NamesAssumption DEF sanitize, Dots
    <3>2. Stacked(Without(d, Dots), clean_path')
      BY <2>1, <2>3, <2>4, <2>6, <3>1, UpStacked DEF s
    <3>3. QED BY <1>1, <1>2, <1>4, <2>2, <3>1, <3>2 DEF Normal
  <2>7. CASE c = ".." /\ clean_path = <<>>
    <3>1. c \notin Dots /\ sane' = "none"
      BY <2>3, <2>7, NamesAssumption DEF sanitize, Dots
    <3> DEFINE t == Append(s, "..")
               n == Len(s) + 1
    <3>2. t \in Seq(Moves) /\ Len(t) = n /\ n \in Nat /\ n \in 1..n
      BY <2>3 DEF Moves
    <3>3. Height(t, n) < 0
      BY <2>1, <2>3, <2>7, UpAbove DEF s
    <3>4. Without(d, Dots) = t
      BY <2>4, <2>7, <3>1
    <3> HIDE DEF t, n
    <3>5. n <= Len(Steps) /\ Same(t, Steps, n)
      <4>1. Steps = Without(d \o Tail(todo), Dots)
        BY <1>1, <2>2
      <4>2. Len(t) <= Len(Steps) /\ Same(t, Steps, Len(t))
        BY <2>2, <3>4, <4>1, WithoutPrefix
      <4>3. QED BY <3>2, <4>2
    <3>6. n \in DOMAIN Steps /\ \A k \in 1..n : t[k] = Steps[k]
      <4>1. DOMAIN Steps = 1..Len(Steps) /\ Len(Steps) \in Nat
        BY <1>1, PathType
      <4>2. QED BY <3>2, <3>5, <4>1 DEF Same
    <3>7. Height(t, n) = Height(Steps, n)
      BY <3>2, <3>6, HeightSame
    <3>8. QED BY <1>1, <3>1, <3>3, <3>6, <3>7 DEF Normal
  <2>8. CASE c \in Dots
    <3>1. UNCHANGED <<clean_path, sane>>
      BY <2>3, <2>8, NamesAssumption DEF sanitize, Dots
    <3>2. Stacked(Without(d, Dots), clean_path')
      BY <2>1, <2>4, <2>8, <3>1 DEF s
    <3>3. QED BY <1>1, <1>2, <1>4, <2>2, <3>1, <3>2 DEF Normal
  <2>9. QED BY <2>3, <2>5, <2>6, <2>7, <2>8 DEF sanitize, Dots
<1>5. QED BY <1>3, <1>4

\* When nothing is left to read all of it has been read.
LEMMA FinishNormal == ASSUME IndInv, IndInv', Normal, Finish PROVE Normal'
<1>1. /\ TypeOK /\ Path \in Seq(Parts) /\ Steps = Without(Path, Dots)
      /\ Path' = Path /\ Steps' = Steps
      /\ UNCHANGED <<remaining_path, clean_path>> /\ todo = <<>>
  BY PathType DEF IndInv, Finish, Path, Steps
<1>2. sane = "loop" /\ sane' = "some"
  BY DEF Finish, IndInv, Together
<1>3. PICK done \in Seq(Parts) : Path = done \o todo /\ Stacked(Without(done, Dots), clean_path)
  BY <1>2 DEF Normal
<1>4. done \o <<>> = done
  OBVIOUS
<1>5. Stacked(Steps, clean_path)
  BY <1>1, <1>3, <1>4
<1>6. QED BY <1>1, <1>2, <1>5 DEF Normal

\* Every step keeps it.
LEMMA NextNormal == IndInv /\ IndInv' /\ Normal /\ [Next]_vars => Normal'
<1> SUFFICES ASSUME IndInv, IndInv', Normal, [Next]_vars PROVE Normal'
  OBVIOUS
<1>1. CASE Undecodable
  BY <1>1 DEF Undecodable, Normal
<1>2. ASSUME NEW t \in Indexes, Index(t) PROVE Normal'
  BY <1>2 DEF Index, Normal, Path, Steps
<1>3. CASE UNCHANGED vars
  BY <1>3 DEF vars, Normal, Path, Steps
<1>4. QED
  BY <1>1, <1>2, <1>3, BeginNormal, ComponentNormal, FinishNormal DEF Next

\* What the stack holds is the normal form.
LEMMA NormalForm == IndInv /\ Normal => SanitizeIsNormalForm
<1> SUFFICES ASSUME IndInv, Normal PROVE SanitizeIsNormalForm
  OBVIOUS
<1> DEFINE n == Len(Steps)
<1>1. Steps \in Seq(Moves) /\ n \in Nat /\ DOMAIN Steps = 1..n
  BY PathType DEF IndInv
<1>2. \A i, j : Rises(i, j) <=> Cardinality(Ups(Steps, i, j)) > Cardinality(Downs(Steps, i, j))
  BY DEF Rises, Up, Down, Ups, Downs
<1>3. \A j \in 1..n : Rises(1, j) <=> Height(Steps, j) < 0
  <2> TAKE j \in 1..n
  <2>1. 0 \in Nat /\ j \in Nat /\ 0 <= j /\ 0 + 1 = 1
    BY <1>1
  <2>2. Cardinality(Ups(Steps, 0 + 1, j)) > Cardinality(Downs(Steps, 0 + 1, j))
          <=> Height(Steps, j) < Height(Steps, 0)
    BY <2>1, RisesWhenLower
  <2>3. QED BY <1>2, <2>1, <2>2, HeightZero
<1>4. sane = "none" /\ Decodable(Stripped(remaining_path)) => \E j \in DOMAIN Steps : Rises(1, j)
  BY <1>1, <1>3 DEF Normal
<1>5. ASSUME sane = "some"
      PROVE  LET Kept == {i \in Down(1, n) : \A j \in (i + 1)..n : ~ Rises(i + 1, j)}
             IN /\ \A j \in 1..n : ~ Rises(1, j)
                /\ Len(clean_path) = Cardinality(Kept)
                /\ \A i \in Kept : clean_path[Cardinality({k \in Kept : k <= i})] = Steps[i]
  <2> DEFINE m == Len(clean_path)
             K == KeptIn(Steps)
  <2>1. Stacked(Steps, clean_path) /\ clean_path \in Seq(Names) /\ m \in Nat
    BY <1>5 DEF Normal, IndInv, TypeOK
  <2>2. PICK at : Pushed(Steps, clean_path, at)
    BY <2>1 DEF Stacked
  <2>3. K = {i \in Down(1, n) : \A j \in (i + 1)..n : ~ Rises(i + 1, j)}
    BY <1>2 DEF KeptIn, Down, Downs
  <2> HIDE DEF K, m, n
  <2>4. \A i : i \in K <=> \E v \in 1..m : i = at[v]
    BY <1>1, <2>1, <2>2, KeptArePushed DEF K, m
  <2>5. \A v \in 0..m : Cardinality({k \in K : \E u \in 1..v : k = at[u]}) = v
    BY <1>1, <2>1, <2>2, KeptCounted DEF K, m
  <2>6. \A j \in 1..n : ~ Rises(1, j)
    <3>1. \A j \in 1..n : j \in Int /\ Height(Steps, j) >= 0
      BY <1>1, <2>1 DEF Stacked, n
    <3>2. \A j \in 1..n : ~ (Height(Steps, j) < 0)
      BY <3>1, HeightType
    <3>3. QED BY <1>3, <3>2
  <2>7. m = Cardinality(K)
    <3>1. K = {k \in K : \E u \in 1..m : k = at[u]}
      BY <2>4
    <3>2. m \in 0..m
      BY <2>1
    <3>3. QED BY <2>5, <3>1, <3>2
  <2>8. ASSUME NEW i \in K PROVE clean_path[Cardinality({k \in K : k <= i})] = Steps[i]
    <3>1. PICK v \in 1..m : i = at[v]
      BY <2>4
    <3>2. \A u \in 1..m : at[u] <= i <=> u <= v
      BY <1>1, <2>1, <2>2, <3>1, PushedInOrder DEF m
    <3>3. v \in 0..m /\ v \in Nat
      BY <2>1, <3>1
    <3>4. {k \in K : k <= i} = {k \in K : \E u \in 1..v : k = at[u]}
      <4>1. ASSUME NEW k \in K, k <= i PROVE \E u \in 1..v : k = at[u]
        <5>1. PICK u \in 1..m : k = at[u]
          BY <2>4
        <5>2. u <= v
          BY <3>2, <4>1, <5>1
        <5>3. u \in 1..v
          BY <2>1, <3>1, <5>2
        <5>4. QED BY <5>1, <5>3
      <4>2. ASSUME NEW k \in K, NEW u \in 1..v, k = at[u] PROVE k <= i
        <5>1. u \in 1..m /\ u <= v
          BY <2>1, <3>1
        <5>2. QED BY <3>2, <4>2, <5>1
      <4>3. QED BY <4>1, <4>2
    <3>5. Cardinality({k \in K : k <= i}) = v
      BY <2>5, <3>3, <3>4
    <3>6. Steps[at[v]] = clean_path[v]
      BY <2>2, <3>1 DEF Pushed, m
    <3>7. QED BY <3>1, <3>5, <3>6
  <2>9. QED BY <2>3, <2>6, <2>7, <2>8 DEF m
<1>6. QED BY <1>4, <1>5 DEF SanitizeIsNormalForm

\* A path is refused exactly when it cannot be decoded or leads above its
\* beginning, and of any other the names that no ".." undoes are left, in their
\* order: what the stack of sanitize_path computes has a definition without one.
THEOREM LeavesNormalForm == Spec => []SanitizeIsNormalForm
<1>1. Init => Normal
  BY DEF Init, Normal
<1>2. Spec => []Normal
  BY <1>1, NextNormal, Invariant, PTL DEF Spec
<1>3. QED BY <1>2, NormalForm, Invariant, PTL

===============================================================================
