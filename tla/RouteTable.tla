------------------------------ MODULE RouteTable ------------------------------
(***************************************************************************)
(* What the router promises, without a tree: locations are registered one  *)
(* by one under their paths, a later one replaces an earlier one with the  *)
(* same path, and a request goes to the longest registered path it starts  *)
(* with.  An exact location serves only the request for its own path.      *)
(*                                                                         *)
(* Router (src/src/router.rs) is shown to implement this module.           *)
(***************************************************************************)
EXTENDS Naturals, SequencesExt

CONSTANTS
  Paths,      \* paths a location can have, as sequences of bytes
  MatchTypes  \* "Exact" and "Prefix"

VARIABLES
  table,      \* the registered locations
  registered, \* the locations in the order of their registration
  phase       \* "building", "serving", or "panicked"

vars == <<table, registered, phase>>

Init == table = {} /\ registered = <<>> /\ phase = "building"

\* The location is known by its number in the configuration.
Register(p, ty) ==
  /\ phase = "building"
  /\ registered' = Append(registered, [path |-> p, match_type |-> ty])
  /\ table' = {e \in table : e.path # p}
                \cup {[path |-> p, match_type |-> ty, handler |-> Len(registered')]}
  /\ UNCHANGED phase

Finish(outcome) ==
  /\ phase = "building"
  /\ phase' = outcome
  /\ UNCHANGED <<table, registered>>

Next ==
  \/ \E p \in Paths, ty \in MatchTypes : Register(p, ty)
  \/ \E outcome \in {"serving", "panicked"} : Finish(outcome)

Spec == Init /\ [][Next]_vars

\* The locations that may serve a request for q.
Eligible(q) ==
  {e \in table : IsPrefix(e.path, q) /\ (e.match_type = "Prefix" \/ e.path = q)}

None == [handler |-> 0, rest |-> <<>>]

\* The location that serves q and what is left of q after its path.
LongestMatch(q) ==
  IF Eligible(q) = {} THEN None
  ELSE LET best == CHOOSE e \in Eligible(q) :
                     \A f \in Eligible(q) : Len(f.path) <= Len(e.path)
       IN  [handler |-> best.handler, rest |-> SubSeq(q, Len(best.path) + 1, Len(q))]
===============================================================================
