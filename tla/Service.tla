------------------------------ MODULE Service -------------------------------
(***************************************************************************)
(* What a client of the HTTP service is promised on one keep-alive         *)
(* connection: each request it completes is answered once, whole and in    *)
(* order, until the connection is dropped; and while it is not dropped an  *)
(* answer that is due comes.                                               *)
(***************************************************************************)
EXTENDS Naturals

CONSTANTS Clients, MaxReq

VARIABLES
  asked,      \* requests the client completed
  answered,   \* whole responses put on the connection, in request order
  dropped     \* the server closed the connection

vars == <<asked, answered, dropped>>

Init ==
  /\ asked = [c \in Clients |-> 0]
  /\ answered = [c \in Clients |-> 0]
  /\ dropped = [c \in Clients |-> FALSE]

Ask(c) ==
  /\ ~dropped[c] /\ asked[c] < MaxReq
  /\ asked' = [asked EXCEPT ![c] = @ + 1]
  /\ UNCHANGED <<answered, dropped>>

Answer(c) ==
  /\ ~dropped[c] /\ answered[c] < asked[c]
  /\ answered' = [answered EXCEPT ![c] = @ + 1]
  /\ UNCHANGED <<asked, dropped>>

\* A socket closed with others still queued beside it takes them along.
Drop ==
  /\ \E C \in SUBSET Clients : 
       dropped' = [c \in Clients |-> dropped[c] \/ c \in C]
  /\ UNCHANGED <<asked, answered>>

Next == Drop \/ \E c \in Clients : Ask(c) \/ Answer(c)

Safe == Init /\ [][Next]_vars

Spec == Safe /\ \A c \in Clients : WF_vars(Answer(c))
=============================================================================
