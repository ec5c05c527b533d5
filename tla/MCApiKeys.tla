----------------------------- MODULE MCApiKeys -----------------------------
(* Two requests over three keys, one of which may be configured.           *)
EXTENDS ApiKeys

Either == {TRUE, FALSE}
=============================================================================
