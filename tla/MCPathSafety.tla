----------------------------- MODULE MCPathSafety -----------------------------
(***************************************************************************)
(* Model-checking instance of PathSafety.  "%2F" hides a slash, "%2E%2E" a *)
(* parent, "%252E" decodes to the name "%2E", and "%FF" is not UTF-8.      *)
(***************************************************************************)
EXTENDS PathSafety

CONSTANT MaxLen  \* bound on the segments of a request

Decode ==
  "" :> <<"">> @@ "." :> <<".">> @@ ".." :> <<"..">> @@ "a" :> <<"a">> @@
  "%2F" :> <<"", "">> @@ "b%2F%2E%2E" :> <<"b", "..">> @@ "%252E" :> <<"%2E">> @@
  "%FF" :> <<>>

AllRequests == UNION {[1..n -> Encoded] : n \in 1..MaxLen}

\* ".", "", "/srv" and "r/../s/"
SomeRoots == {<<".">>, <<"">>, <<"", "a">>, <<"a", "..", "b", "">>}

\* "a", "a/", "a/b", "a/../..", "..", "./a" and "/a"
SomeIndexes == {<<"a">>, <<"a", "">>, <<"a", "b">>, <<"a", "..", "..">>, <<"..">>,
                <<".", "a">>, <<"", "a">>}
===============================================================================
