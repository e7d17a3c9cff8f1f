------------------------------- MODULE MCServer -------------------------------
(***************************************************************************)
(* Model-checking instance of Server: a good configuration with TLS and    *)
(* one without, which need not have its provider, and one for each defect. *)
(***************************************************************************)
EXTENDS Server

WithTls == [syntax |-> TRUE, tls |-> "files", provider |-> TRUE, locations |-> "good"]

TriedConfigs ==
  {WithTls, [WithTls EXCEPT !.tls = "none", !.provider = FALSE],
   [WithTls EXCEPT !.syntax = FALSE], [WithTls EXCEPT !.tls = "unsafe"],
   [WithTls EXCEPT !.provider = FALSE],
   [WithTls EXCEPT !.locations = "unsafe"], [WithTls EXCEPT !.locations = "panic"]}
===============================================================================
