----------------------------- MODULE MCHttpModule -----------------------------
(* HttpModule on small instances.                                                 *)
EXTENDS HttpModule
=============================================================================
