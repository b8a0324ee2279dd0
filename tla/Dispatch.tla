------------------------------ MODULE Dispatch -------------------------------
(***************************************************************************)
(* What a load balancer promises: each connection gets exactly one         *)
(* outcome.  It is answered on the spot if it is a health check, given to  *)
(* one worker, or dropped because a worker has gone; and none is kept      *)
(* waiting.                                                                *)
(***************************************************************************)
EXTENDS Integers

CONSTANTS Clients, Workers, HealthChecks

With(w) == <<"with", w>>

VARIABLES
  outcome,    \* of each connection: With(worker), or one of the names below
  gone        \* workers that have exited

vars == <<outcome, gone>>

Init ==
  /\ outcome = [c \in Clients |-> <<"none">>]
  /\ gone = {}

Arrive(c) ==
  /\ outcome[c] = <<"none">>
  /\ outcome' = [outcome EXCEPT ![c] = <<"waiting">>]
  /\ UNCHANGED gone

Serve(c) ==
  /\ outcome[c] = <<"waiting">> /\ c \in HealthChecks
  /\ outcome' = [outcome EXCEPT ![c] = <<"served">>]
  /\ UNCHANGED gone

Give(c, w) ==
  /\ outcome[c] = <<"waiting">> /\ w \notin gone
  /\ outcome' = [outcome EXCEPT ![c] = With(w)]
  /\ UNCHANGED gone

Drop(c) ==
  /\ outcome[c] = <<"waiting">> /\ gone # {}
  /\ outcome' = [outcome EXCEPT ![c] = <<"dropped">>]
  /\ UNCHANGED gone

\* A worker exits and takes its connections along.
Exit(w) ==
  /\ w \notin gone /\ gone' = gone \cup {w}
  /\ outcome' = [c \in Clients |-> IF outcome[c] = With(w)
                                   THEN <<"dropped">> ELSE outcome[c]]

Settle(c) == Serve(c) \/ Drop(c) \/ \E w \in Workers : Give(c, w)

Next ==
  \/ \E c \in Clients : Arrive(c) \/ Settle(c)
  \/ \E w \in Workers : Exit(w)

\* What may happen to a connection, and that something does.
Safe == Init /\ [][Next]_vars

Spec == Safe /\ \A c \in Clients : WF_vars(Settle(c))
=============================================================================
