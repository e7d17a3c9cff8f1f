------------------------------ MODULE ErrorPages ------------------------------
(***************************************************************************)
(* What the error registry promises, with no cache in sight.  When the     *)
(* server opens, every status has one page: one of the pages configured    *)
(* for it, or the default page.  A configured page may be lost, and then   *)
(* the status has the default page for good.  A caller that asks for a     *)
(* status is answered once, with the page the status has at some moment of *)
(* the call.                                                               *)
(*                                                                         *)
(* ErrorRegistry (src/src/error/error_registry.rs) is shown to implement   *)
(* this module.                                                            *)
(***************************************************************************)

CONSTANTS
  Statuses,       \* HTTP statuses that can be asked for
  Callers,        \* connection tasks that may ask at the same time
  Candidates(_),  \* the pages a status may have when the server opens
  Default(_)      \* the page rendered for a status that has no other

VARIABLES
  open,     \* whether the server can ask yet
  page,     \* page[s]: the page of status s, once open
  phase,    \* phase[c]: "idle", "asked" or "answered"
  status,   \* status[c]: the status caller c asked for
  answer    \* answer[c]: the page it was answered with

vars == <<open, page, phase, status, answer>>

Init ==
  /\ open = FALSE
  /\ page = [s \in Statuses |-> Default(s)]
  /\ phase = [c \in Callers |-> "idle"]
  /\ status \in [Callers -> Statuses]
  /\ answer \in [Callers -> {Default(s) : s \in Statuses}]

Open ==
  /\ ~ open
  /\ open' = TRUE
  /\ \A s \in Statuses : page'[s] \in Candidates(s)
  /\ DOMAIN page' = Statuses
  /\ UNCHANGED <<phase, status, answer>>

Lose(s) ==
  /\ open
  /\ page' = [page EXCEPT ![s] = Default(s)]
  /\ UNCHANGED <<open, phase, status, answer>>

Ask(c, s) ==
  /\ open
  /\ phase[c] = "idle"
  /\ phase' = [phase EXCEPT ![c] = "asked"]
  /\ status' = [status EXCEPT ![c] = s]
  /\ UNCHANGED <<open, page, answer>>

\* All callers in C, which asked for the same status, are answered together.
Answer(C, s) ==
  /\ \A c \in C : phase[c] = "asked" /\ status[c] = s
  /\ phase' = [c \in Callers |-> IF c \in C THEN "answered" ELSE phase[c]]
  /\ answer' = [c \in Callers |-> IF c \in C THEN page[s] ELSE answer[c]]
  /\ UNCHANGED <<open, page, status>>

Forget(c) ==
  /\ phase[c] = "answered"
  /\ phase' = [phase EXCEPT ![c] = "idle"]
  /\ UNCHANGED <<open, page, status, answer>>

Next ==
  \/ Open
  \/ \E s \in Statuses : Lose(s)
  \/ \E c \in Callers : Forget(c) \/ \E s \in Statuses : Ask(c, s)
  \/ \E C \in SUBSET Callers, s \in Statuses : Answer(C, s)

Spec == Init /\ [][Next]_vars
===============================================================================
