--------------------------- MODULE MCLoadBalancer ----------------------------
(***************************************************************************)
(* Instances of LoadBalancer for TLC.                                      *)
(***************************************************************************)
EXTENDS LoadBalancer, TLC

CONSTANTS c1, c2, c3

AllChunks == {"ready", "end", "other", "post", "body"}

\* A health check and two score requests.
Mixed == (c1 :> <<"ready", "end">>) @@ (c2 :> <<"post">>)
           @@ (c3 :> <<"post", "body", "body">>)

\* Another route that starts like the health check.
ReadyPrefixed == (c1 :> <<"ready", "other">>) @@ (c2 :> <<"post", "body">>)
=============================================================================
