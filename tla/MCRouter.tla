------------------------------- MODULE MCRouter -------------------------------
(***************************************************************************)
(* Model-checking instances of Router.  Paths and queries are all strings  *)
(* of at most so many characters.                                          *)
(***************************************************************************)
EXTENDS Router

\* All strings of at most n characters of C, as sequences of bytes.
Strings(C, n) == {FlattenSeq(s) : s \in UNION {[1..k -> C] : k \in 0..n}}

\* Two characters of one byte.
Ascii == {<<"/">>, <<"a">>}
AsciiPathsOrEmpty == Strings(Ascii, 2)
AsciiQueries == Strings(Ascii, 4)

\* One character of one byte and two of two bytes that share the first.
Utf8 == {<<"/">>, <<"C3", "A8">>, <<"C3", "A9">>}
Utf8Continuation == {"A8", "A9"}

AllBytes == {"/", "a", "C3"} \cup Utf8Continuation
AllPaths == (Strings(Ascii, 3) \cup Strings(Utf8, 2)) \ {<<>>}
AllQueries == AsciiQueries \cup Strings(Utf8, 3)
===============================================================================
