--------------------------- MODULE MCErrorRegistry ---------------------------
(***************************************************************************)
(* Model-checking instance of ErrorRegistry: two pages for one status, one *)
(* for another, and a status with none.                                    *)
(***************************************************************************)
EXTENDS ErrorRegistry

Configured == {[status |-> 404, file |-> "a"], [status |-> 404, file |-> "b"],
               [status |-> 500, file |-> "b"]}
===============================================================================
