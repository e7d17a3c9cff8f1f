------------------------------- MODULE Exchange -------------------------------
(***************************************************************************)
(* What a client sees of one connection: nothing, or one response; a       *)
(* response with a body may be spoiled at its end by an error page; and    *)
(* nothing comes after the end.                                            *)
(*                                                                         *)
(* Connection is shown to implement this module, whatever the client, the  *)
(* file system and the stream do.                                          *)
(***************************************************************************)
EXTENDS Naturals, Sequences

CONSTANT Errors  \* statuses of error pages

VARIABLES
  heads,  \* statuses of the heads received
  body,   \* what came of the file
  over    \* whether the connection has ended

vars == <<heads, body, over>>

Init == heads = <<>> /\ body = <<>> /\ over = FALSE

Answer ==
  /\ ~ over /\ heads = <<>>
  /\ heads' = <<200>>
  /\ UNCHANGED <<body, over>>

Stream ==
  /\ ~ over /\ heads = <<200>>
  /\ Len(body') > Len(body) /\ SubSeq(body', 1, Len(body)) = body
  /\ UNCHANGED <<heads, over>>

\* An error page is the last thing sent; it may come into a body.
Refuse(s) ==
  /\ ~ over /\ heads \in {<<>>, <<200>>}
  /\ heads' = Append(heads, s) /\ over' = TRUE
  /\ UNCHANGED body

End ==
  /\ ~ over
  /\ over' = TRUE
  /\ UNCHANGED <<heads, body>>

Next == Answer \/ Stream \/ (\E s \in Errors : Refuse(s)) \/ End

Spec == Init /\ [][Next]_vars
===============================================================================
