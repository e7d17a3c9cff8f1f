--------------------------- MODULE DirectoryListing ---------------------------
(***************************************************************************)
(* What an automatically generated index page promises, with no cache in   *)
(* sight.  Files come and go in directories; a request asks for one        *)
(* directory and is answered once, either with a failure page or with a    *)
(* set of names.  The answer need not be a snapshot (a directory is read   *)
(* entry by entry while it changes), but it is bounded by what happened    *)
(* between the question and the answer: it holds every name that was there *)
(* the whole time, and no name that was never there.                       *)
(*                                                                         *)
(* IndexCache (src/src/index.rs) is shown to implement this module.        *)
(***************************************************************************)

CONSTANTS
  Requests,   \* requests that may be in flight together
  Dirs,       \* the directories that can be listed
  Names       \* the names a listing can show

VARIABLES
  listing,    \* listing[d]: the names directory d shows now
  phase,      \* phase[r]: "idle", "asked", "served" or "failed"
  target,     \* target[r]: the directory request r asked for
  always,     \* always[r]: names shown at every moment since r asked
  ever,       \* ever[r]: names shown at some moment since r asked
  answer      \* answer[r]: the names on the page r was served

vars == <<listing, phase, target, always, ever, answer>>

Phases == {"idle", "asked", "served", "failed"}

Init ==
  /\ listing \in [Dirs -> SUBSET Names]
  /\ phase = [r \in Requests |-> "idle"]
  /\ target \in [Requests -> Dirs]
  /\ always = [r \in Requests |-> {}]
  /\ ever = [r \in Requests |-> {}]
  /\ answer = [r \in Requests |-> {}]

\* Another process changes what directory d shows; the windows of the
\* requests in flight on d are adjusted.
Change(d, S) ==
  /\ listing' = [listing EXCEPT ![d] = S]
  /\ always' = [r \in Requests |->
                  IF phase[r] = "asked" /\ target[r] = d
                  THEN always[r] \cap S ELSE always[r]]
  /\ ever' = [r \in Requests |->
                IF phase[r] = "asked" /\ target[r] = d
                THEN ever[r] \cup S ELSE ever[r]]
  /\ UNCHANGED <<phase, target, answer>>

Ask(r, d) ==
  /\ phase[r] = "idle"
  /\ phase' = [phase EXCEPT ![r] = "asked"]
  /\ target' = [target EXCEPT ![r] = d]
  /\ always' = [always EXCEPT ![r] = listing[d]]
  /\ ever' = [ever EXCEPT ![r] = listing[d]]
  /\ UNCHANGED <<listing, answer>>

Serve(r, S) ==
  /\ phase[r] = "asked"
  /\ always[r] \subseteq S
  /\ S \subseteq ever[r]
  /\ phase' = [phase EXCEPT ![r] = "served"]
  /\ answer' = [answer EXCEPT ![r] = S]
  /\ UNCHANGED <<listing, target, always, ever>>

\* A directory that cannot be read is answered with the failure page.
Fail(r) ==
  /\ phase[r] = "asked"
  /\ phase' = [phase EXCEPT ![r] = "failed"]
  /\ UNCHANGED <<listing, target, always, ever, answer>>

\* The answer has been handed to the connection; its window is forgotten.
Forget(r) ==
  /\ phase[r] \in {"served", "failed"}
  /\ phase' = [phase EXCEPT ![r] = "idle"]
  /\ always' = [always EXCEPT ![r] = {}]
  /\ ever' = [ever EXCEPT ![r] = {}]
  /\ answer' = [answer EXCEPT ![r] = {}]
  /\ UNCHANGED <<listing, target>>

Next ==
  \/ \E d \in Dirs, S \in SUBSET Names : Change(d, S)
  \/ \E r \in Requests, d \in Dirs : Ask(r, d)
  \/ \E r \in Requests, S \in SUBSET Names : Serve(r, S)
  \/ \E r \in Requests : Fail(r) \/ Forget(r)

Spec == Init /\ [][Next]_vars
===============================================================================
