----------------------------- MODULE MCIndexCache -----------------------------
(***************************************************************************)
(* Model-checking instances of IndexCache.  The tasks are interchangeable, *)
(* and so are the directories and the names a page can list; symmetry is   *)
(* used only in the run without temporal properties.                       *)
(***************************************************************************)
EXTENDS IndexCache, TLC

Symmetry == Permutations(Requests) \cup Permutations(Names \ Hidden) \cup Permutations(Dirs)
===============================================================================
