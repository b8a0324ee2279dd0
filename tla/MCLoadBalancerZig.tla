-------------------------- MODULE MCLoadBalancerZig --------------------------
(***************************************************************************)
(* Instances of LoadBalancerZig for TLC.                                   *)
(***************************************************************************)
EXTENDS LoadBalancerZig, TLC

CONSTANTS c1, c2, c3

AllChunks == {"a", "b", "c"}

\* What clients send.
Requests == (c1 :> <<"a", "b", "c">>) @@ (c2 :> <<"a">>) @@ (c3 :> <<"a", "b">>)
=============================================================================
