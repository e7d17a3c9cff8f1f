----------------------------- MODULE MCConnection -----------------------------
(***************************************************************************)
(* Model-checking instances of Connection: the requests tried in each.     *)
(***************************************************************************)
EXTENDS Connection

Request(m, r, len, next, idx, auto) ==
  [method |-> m, route |-> r, length |-> len, next |-> next, indexes |-> idx,
   autoindex |-> auto]
Get(idx, auto) == Request("GET", "found", 1, 0, idx, auto)

\* Requests with every way to be refused, up to one byte too long for the
\* buffer of the instance.
ReadingRequests ==
  {Request(o[1], o[2], n, 0, 0, FALSE) :
     o \in {<<"malformed", "none">>, <<"other", "none">>, <<"GET", "none">>,
           <<"GET", "unsafe">>, <<"GET", "found">>},
     n \in {BufferSize, BufferSize + 1}}

\* Requests that reach a location: two index files, with autoindex and without;
\* and one that the client sends the next request behind.
AllRequests == ReadingRequests
  \cup {Get(2, FALSE), Get(2, TRUE), Request("GET", "found", 1, 1, 0, TRUE)}

\* Requests for a file, or a directory with one index file.
FileRequests == {Get(1, FALSE)}
===============================================================================
