------------------------------ MODULE PathSafety ------------------------------
(***************************************************************************)
(* How a path becomes the name of a file: sanitize_path of                 *)
(* src/src/util.rs, which the path of every request goes through, and      *)
(* check_path_safety and is_pure_filename of src/src/config.rs, which      *)
(* decide on the paths of the configuration when the server starts.        *)
(*                                                                         *)
(* sanitize_path pushes and pops the components of a path on a stack;      *)
(* check_path_safety counts how deep they go.  Both loops are run here on  *)
(* the same path, one component at a time, and so can be compared.         *)
(*                                                                         *)
(* Abstractions.  A path is the sequence of its segments, the texts before,*)
(* between and after its slashes.  A segment of a request is percent-      *)
(* encoded, and may be decoded to several segments, or not at all.  A      *)
(* component is "/" (RootDir), "." (CurDir), ".." (ParentDir) or a name;   *)
(* the builds modelled are for systems where no path has a Prefix.         *)
(***************************************************************************)
EXTENDS Integers, Sequences, FiniteSets, SequencesExt

CONSTANTS
  Names,      \* segments that are names
  Encoded,    \* segments a request may have
  Decoding,   \* Decoding[x]: the segments x is decoded to, <<>> if not UTF-8
  Requests,   \* remaining_path: sequences of encoded segments
  Roots,      \* locations' root: sequences of segments
  Indexes     \* names in locations' index: sequences of segments

Segments == {"", ".", ".."} \cup Names

ASSUME NamesAssumption == Names \cap {"", ".", "..", "/"} = {}
ASSUME DecodingAssumption == Decoding \in [Encoded -> Seq(Segments)]
ASSUME PathsAssumption ==
  /\ Requests \subseteq Seq(Encoded) \ {<<>>}
  /\ Roots \subseteq Seq(Segments) \ {<<>>}
  /\ Indexes \subseteq Seq(Segments) \ {<<>>}

VARIABLES
  remaining_path,  \* the argument of RouterHandler::handle_request
  base_dir,        \* the root of its location
  todo,            \* components the loops have not come to
  clean_path,      \* the stack of sanitize_path
  sane,            \* how sanitize_path is doing
  depth,           \* the counter of check_path_safety
  safe,            \* how check_path_safety is doing, on the decoded path
  file             \* components of the path that was found, <<>> for none

vars == <<remaining_path, base_dir, todo, clean_path, sane, depth, safe, file>>

-------------------------------------------------------------------------------
(* std::path *)

\* The members of t that are not in S, in their order.
Without(t, S) == FlattenSeq([i \in DOMAIN t |-> IF t[i] \in S THEN <<>> ELSE <<t[i]>>])

\* Path::components: empty segments and "." are skipped but at the beginning.
components(t) ==
  (IF Head(t) = "" /\ Len(t) > 1 THEN <<"/">> ELSE IF Head(t) = "." THEN <<".">> ELSE <<>>)
    \o Without(t, {"", "."})

\* base.join(c), which is c itself when c is absolute.
join(base, c) == IF c # <<>> /\ Head(c) = "/" THEN c ELSE base \o c

starts_with(p, base) == Len(base) <= Len(p) /\ SubSeq(p, 1, Len(base)) = base

-------------------------------------------------------------------------------
(* Reading a path. *)

\* strip_prefix('/')
Stripped(p) == IF Head(p) = "" /\ Len(p) > 1 THEN Tail(p) ELSE p

\* urlencoding::decode
Decodable(p) == \A i \in DOMAIN p : Decoding[p[i]] # <<>>
Decoded(p) == FlattenSeq([i \in DOMAIN p |-> Decoding[p[i]]])

\* Faulty variant: the first component alone is looked at.
StartsWithName(t) == components(t) # <<>> /\ Head(components(t)) \in Names

is_pure_filename(t) == Len(components(t)) = 1 /\ Head(components(t)) \in Names

TypeOK ==
  /\ remaining_path \in Requests /\ base_dir \in Roots
  /\ todo \in Seq(Names \cup {"/", ".", ".."})
  /\ clean_path \in Seq(Names) /\ depth \in Int
  /\ sane \in {"called", "loop", "some", "none"}
  /\ safe \in {"called", "loop", "ok", "err"}
  /\ file \in Seq(Names \cup {"/", ".", ".."})

Init ==
  /\ remaining_path \in Requests /\ base_dir \in Roots
  /\ todo = <<>>
  /\ clean_path = <<>> /\ sane = "called"
  /\ depth = 0 /\ safe = "called"
  /\ file = <<>>

-------------------------------------------------------------------------------
(* The loops, and what is made of their results. *)

Undecodable ==
  /\ sane = "called"
  /\ ~ Decodable(Stripped(remaining_path))
  /\ sane' = "none"
  /\ UNCHANGED <<remaining_path, base_dir, todo, clean_path, depth, safe, file>>

Begin ==
  /\ sane = "called"
  /\ Decodable(Stripped(remaining_path))
  /\ todo' = components(Decoded(Stripped(remaining_path)))
  /\ sane' = "loop" /\ safe' = "loop"
  /\ UNCHANGED <<remaining_path, base_dir, clean_path, depth, file>>

\* Faulty variants: a ParentDir with nothing to pop is passed over; RootDir is
\* pushed.
sanitize_clamped(c) ==
  \/ c \in Names /\ clean_path' = Append(clean_path, c) /\ UNCHANGED sane
  \/ c = ".." /\ clean_path # <<>> /\ clean_path' = Front(clean_path) /\ UNCHANGED sane
  \/ c = ".." /\ clean_path = <<>> /\ UNCHANGED <<clean_path, sane>>
  \/ c \in {"/", "."} /\ UNCHANGED <<clean_path, sane>>
sanitize_rooted(c) ==
  \/ c \in Names \cup {"/"} /\ clean_path' = Append(clean_path, c) /\ UNCHANGED sane
  \/ c = ".." /\ clean_path # <<>> /\ clean_path' = Front(clean_path) /\ UNCHANGED sane
  \/ c = ".." /\ clean_path = <<>> /\ sane' = "none" /\ UNCHANGED clean_path
  \/ c = "." /\ UNCHANGED <<clean_path, sane>>

\* One round of sanitize_path.
sanitize(c) ==
  \/ c \in Names /\ clean_path' = Append(clean_path, c) /\ UNCHANGED sane
  \/ c = ".." /\ clean_path # <<>> /\ clean_path' = Front(clean_path) /\ UNCHANGED sane
  \/ c = ".." /\ clean_path = <<>> /\ sane' = "none" /\ UNCHANGED clean_path
  \/ c \in {"/", "."} /\ UNCHANGED <<clean_path, sane>>

\* Faulty variant: the depth may go below zero and come back.
check_late(c) ==
  \/ c \in Names /\ depth' = depth + 1 /\ UNCHANGED safe
  \/ c = ".." /\ depth' = depth - 1
       /\ safe' = IF depth' < 0 /\ Len(todo) = 1 THEN "err" ELSE safe
  \/ c \in {"/", "."} /\ UNCHANGED <<depth, safe>>

\* One round of check_path_safety.
check(c) ==
  \/ c \in Names /\ depth' = depth + 1 /\ UNCHANGED safe
  \/ c = ".." /\ depth' = depth - 1 /\ safe' = IF depth' < 0 THEN "err" ELSE safe
  \/ c \in {"/", "."} /\ UNCHANGED <<depth, safe>>

\* Each function goes on until it returns.
Component ==
  /\ todo # <<>>
  /\ todo' = Tail(todo)
  /\ IF sane = "loop" THEN sanitize(Head(todo)) ELSE UNCHANGED <<clean_path, sane>>
  /\ IF safe = "loop" THEN check(Head(todo)) ELSE UNCHANGED <<depth, safe>>
  /\ UNCHANGED <<remaining_path, base_dir, file>>

final_path == join(components(base_dir), clean_path)

Finish ==
  /\ todo = <<>>
  /\ "loop" \in {sane, safe}
  /\ safe' = IF safe = "loop" THEN "ok" ELSE safe
  /\ \/ /\ sane = "loop" /\ starts_with(final_path, components(base_dir))
        /\ sane' = "some" /\ file' = final_path
     \/ /\ sane = "loop" /\ ~ starts_with(final_path, components(base_dir))
        /\ sane' = "none" /\ UNCHANGED file
     \/ sane = "none" /\ UNCHANGED <<sane, file>>
  /\ UNCHANGED <<remaining_path, base_dir, todo, clean_path, depth>>

\* What was found is a directory, and an index file is looked for in it.  The
\* configuration is refused unless all its index files are pure.
Index(t) ==
  /\ sane = "some" /\ file = final_path
  /\ is_pure_filename(t)
  /\ file' = join(final_path, components(t))
  /\ UNCHANGED <<remaining_path, base_dir, todo, clean_path, sane, depth, safe>>

Next == Undecodable \/ Begin \/ Component \/ Finish \/ \E t \in Indexes : Index(t)

Spec == Init /\ [][Next]_vars

-------------------------------------------------------------------------------
(* Properties *)

\* Whatever the request says, encoded or not, the file it is answered with is
\* reached from the root of its location by names alone (util.rs:4-33,
\* router.rs:62-76, config.rs is_pure_filename).
StaysInBase ==
  sane = "some" =>
    LET base == components(base_dir)
    IN /\ starts_with(file, base)
       /\ \A i \in (Len(base) + 1)..Len(file) : file[i] \in Names

Steps == Without(components(Decoded(Stripped(remaining_path))), {"/", "."})
\* Positions from i to j of Steps that go down, and that go up.
Down(i, j) == {k \in i..j : Steps[k] \in Names}
Up(i, j) == {k \in i..j : Steps[k] = ".."}
Rises(i, j) == Cardinality(Up(i, j)) > Cardinality(Down(i, j))

\* A path is refused exactly when it cannot be decoded or some beginning of it
\* goes up more often than down; and what is left of any other is the names
\* that no later part of the path undoes, in their order.  The comparison with
\* base_dir at the end of sanitize_path never refuses anything.
SanitizeIsNormalForm ==
  /\ sane = "none" /\ Decodable(Stripped(remaining_path)) =>
       \E j \in DOMAIN Steps : Rises(1, j)
  /\ sane = "some" =>
       LET n == Len(Steps)
           Kept == {i \in Down(1, n) : \A j \in (i + 1)..n : ~ Rises(i + 1, j)}
       IN /\ \A j \in 1..n : ~ Rises(1, j)
          /\ Len(clean_path) = Cardinality(Kept)
          /\ \A i \in Kept :
               clean_path[Cardinality({k \in Kept : k <= i})] = Steps[i]

\* sanitize_path accepts a path as request exactly when check_path_safety
\* accepts it in the configuration, and counts what the other stacks.
DepthAgrees ==
  /\ sane = "some" <=> safe = "ok"
  /\ {sane, safe} \subseteq {"loop", "some", "ok"} => depth = Len(clean_path)
===============================================================================
