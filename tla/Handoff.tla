------------------------------- MODULE Handoff -------------------------------
(***************************************************************************)
(* The surroundings both load balancers (src/lb.c, src/lb.zig) work in:    *)
(* clients whose connections arrive on a listener with the first bytes     *)
(* already buffered, and one SEQPACKET control connection per worker over  *)
(* which a client's descriptor is passed with the bytes read from it.      *)
(*                                                                         *)
(* The bytes of a client are a sequence of chunks.  "ready" stands for the *)
(* ten bytes GET /ready, "end" for a delimiter and the rest of that        *)
(* request; any other chunk is opaque.                                     *)
(***************************************************************************)
EXTENDS Integers, Sequences, FiniteSets

CONSTANTS
  Clients,
  Chunks,
  Request,        \* the chunks each client sends
  NB,             \* number of backends
  QCap,           \* messages a control connection holds
  MAX_PREFIX,     \* chunks the load balancer reads before it passes a socket
  MinArrived,     \* chunks TCP_DEFER_ACCEPT waits for (0: its timer expired)
  MayDie          \* a worker may exit

Backends == 0 .. NB - 1

ASSUME HandoffConstants ==
  /\ NB \in Nat \ {0} /\ QCap \in Nat \ {0}
  /\ MAX_PREFIX \in Nat \ {0} /\ MinArrived \in Nat
  /\ Request \in [Clients -> Seq(Chunks)]
  /\ MayDie \in BOOLEAN

VARIABLES
  sock,       \* the connection, as the load balancer's process sees it
  sent,       \* chunks each client has sent
  rx,         \* chunks in the receive buffer of each client's socket
  chan,       \* messages queued on each control connection
  taken,      \* messages each worker has received
  alive       \* the worker's end of the control connection is open

workerVars == <<chan, taken, alive>>
handoffVars == <<sock, sent, rx, workerVars>>

HandoffInit ==
  /\ sock = [c \in Clients |-> "none"]
  /\ sent = [c \in Clients |-> 0]
  /\ rx = [c \in Clients |-> <<>>]
  /\ chan = [b \in Backends |-> <<>>]
  /\ taken = [b \in Backends |-> <<>>]
  /\ alive = [b \in Backends |-> TRUE]

Queued == {c \in Clients : sock[c] = "queued"}
Arrived(c) == SubSeq(Request[c], 1, sent[c])

-----------------------------------------------------------------------------
(***************************************************************************)
(* System calls.                                                           *)
(***************************************************************************)

\* recv() of at most n chunks.
Taken(c, n) == SubSeq(rx[c], 1, IF Len(rx[c]) <= n THEN Len(rx[c]) ELSE n)

\* (Variant: the bytes are only peeked at.)
PeekOnly(c, n) == UNCHANGED rx

Consume(c, n) ==
  rx' = [rx EXCEPT ![c] = SubSeq(@, Len(Taken(c, n)) + 1, Len(@))]

\* sendmsg() on the control connection of backend b.
Room(b) == alive[b] /\ Len(chan[b]) < QCap
Send(b, c, bytes) ==
  chan' = [chan EXCEPT ![b] = Append(@, [client |-> c, prefix |-> bytes])]

\* (Variant: the copy is kept.)
KeepCopy(c) == UNCHANGED sock

CloseCopy(c) == sock' = [sock EXCEPT ![c] = "released"]

-----------------------------------------------------------------------------
(***************************************************************************)
(* Clients and workers.                                                    *)
(***************************************************************************)

\* A connection is queued once the chunks the kernel waits for have arrived.
Connect(c) ==
  /\ sock[c] = "none"
  /\ \E n \in MinArrived .. Len(Request[c]) :
       /\ sent' = [sent EXCEPT ![c] = n]
       /\ rx' = [rx EXCEPT ![c] = SubSeq(Request[c], 1, n)]
  /\ sock' = [sock EXCEPT ![c] = "queued"]
  /\ UNCHANGED workerVars

ClientSend(c) ==
  /\ sock[c] # "none" /\ sent[c] < Len(Request[c])
  /\ sent' = [sent EXCEPT ![c] = @ + 1]
  /\ rx' = [rx EXCEPT ![c] = Append(@, Request[c][sent[c] + 1])]
  /\ UNCHANGED <<sock, workerVars>>

WorkerTake(b) ==
  /\ alive[b] /\ chan[b] # <<>>
  /\ taken' = [taken EXCEPT ![b] = Append(@, Head(chan[b]))]
  /\ chan' = [chan EXCEPT ![b] = Tail(@)]
  /\ UNCHANGED <<sock, sent, rx, alive>>

\* The worker exits: its copies are closed, those still queued too.  A load
\* balancer never connects to a backend again.
WorkerDie(b) ==
  /\ MayDie /\ alive[b]
  /\ alive' = [alive EXCEPT ![b] = FALSE]
  /\ chan' = [chan EXCEPT ![b] = <<>>]
  /\ taken' = [taken EXCEPT ![b] = <<>>]
  /\ UNCHANGED <<sock, sent, rx>>

Surroundings ==
  \/ \E c \in Clients : Connect(c) \/ ClientSend(c)
  \/ \E b \in Backends : WorkerTake(b) \/ WorkerDie(b)

-----------------------------------------------------------------------------
\* The messages about clients that are on their way or were received.
Messages(b) ==
  {chan[b][i] : i \in 1 .. Len(chan[b])} \cup
  {taken[b][i] : i \in 1 .. Len(taken[b])}

\* Their places, of those about c.
Deliveries(b, c) ==
  {<<"sent", i>> : i \in {j \in 1 .. Len(chan[b]) : chan[b][j].client = c}} \cup
  {<<"taken", i>> : i \in {j \in 1 .. Len(taken[b]) : taken[b][j].client = c}}

Passed(b, c) == Deliveries(b, c) # {}

\* The worker that has a client's socket.  Two workers, or one worker twice,
\* answering on one connection would mix their responses.
Holder(c) ==
  LET holders == {b \in Backends : Passed(b, c)}
  IN IF \E b \in Backends : holders = {b} /\ Cardinality(Deliveries(b, c)) = 1
       THEN <<"with", CHOOSE b \in holders : TRUE>> ELSE <<"shared">>

\* "Anything we read here MUST be forwarded" (lb.c:137): the bytes passed
\* along with a socket followed by those left in it are all the client sent.
BytesConserved ==
  \A b \in Backends : \A m \in Messages(b) :
    m.prefix \o rx[m.client] = Arrived(m.client)
=============================================================================
