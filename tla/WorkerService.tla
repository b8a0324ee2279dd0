---------------------------- MODULE WorkerService ----------------------------
(***************************************************************************)
(* The worker implements Service for clients that wait for each answer.    *)
(***************************************************************************)
EXTENDS Worker

\* The stream a client gets when nothing goes wrong.
Intact(c) ==
  \A i \in 1 .. Len(stream[c]) :
    stream[c][i] = <<((i - 1) \div RespParts) + 1, ((i - 1) % RespParts) + 1>>

\* A stream that is not the concatenation of whole responses in order maps to
\* a number of answers Service never reaches.
answeredBar ==
  [c \in Clients |-> IF Intact(c) THEN Len(stream[c]) \div RespParts
                     ELSE MaxReq + 1]

Abstract == INSTANCE Service WITH
  asked <- [c \in Clients |-> sent[c] \div ReqParts[c]],
  answered <- answeredBar,
  dropped <- [c \in Clients |-> sock[c] = "closed"]

\* Every behaviour of the worker is one Service allows: no request is answered
\* twice, early, in part or out of order, and an answer that is due comes
\* unless the connection is dropped.
ImplementsService == Abstract!Spec
=============================================================================
