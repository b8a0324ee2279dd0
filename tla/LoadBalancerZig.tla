--------------------------- MODULE LoadBalancerZig ---------------------------
(***************************************************************************)
(* The other load balancer of the repository (src/lb.zig): no health-check *)
(* short cut, reads until the socket has nothing more, and tries every     *)
(* backend in turn before it drops a client.                               *)
(***************************************************************************)
EXTENDS Handoff

CONSTANTS
  NoClient,
  ACCEPT_BATCH,   \* LB_ACCEPT_BATCH, any number
  AcceptMayFail   \* accept may fail though a connection is queued

ASSUME LoadBalancerZigConstants ==
  NoClient \notin Clients /\ ACCEPT_BATCH \in Nat /\ AcceptMayFail \in BOOLEAN

VARIABLES
  pc,         \* next system call
  cfd,        \* the client being dispatched
  start,      \* backend its first attempt goes to
  attempt,    \* backends that failed for it
  rr,         \* backend the next client's first attempt goes to
  accepted,   \* clients accepted in this batch
  got_one,    \* one was accepted in this batch
  prefix_buf  \* what was read from the client

lbVars == <<pc, cfd, start, attempt, rr, accepted, got_one, prefix_buf>>
vars == <<handoffVars, lbVars>>

Init ==
  /\ HandoffInit
  /\ pc = "accept" /\ cfd = NoClient /\ start = 0 /\ attempt = 0 /\ rr = 0
  /\ accepted = 0 /\ got_one = FALSE /\ prefix_buf = <<>>

-----------------------------------------------------------------------------
Accept ==
  /\ pc = "accept" /\ accepted < ACCEPT_BATCH
  /\ \E c \in Queued :
       /\ cfd' = c
       /\ sock' = [sock EXCEPT ![c] = "open"]
  /\ got_one' = TRUE
  /\ prefix_buf' = <<>>
  /\ pc' = "read"
  /\ UNCHANGED <<sent, rx, workerVars, start, attempt, rr, accepted>>

\* The batch ends, full or at an error of accept; an empty one polls first.
EndBatch ==
  /\ pc = "accept"
  /\ accepted >= ACCEPT_BATCH \/ Queued = {} \/ AcceptMayFail
  /\ pc' = IF got_one THEN "accept" ELSE "poll"
  /\ accepted' = 0 /\ got_one' = FALSE
  /\ UNCHANGED <<handoffVars, cfd, start, attempt, rr, prefix_buf>>

\* poll returns at the latest after a minute.
Poll ==
  /\ pc = "poll"
  /\ pc' = "accept"
  /\ UNCHANGED <<handoffVars, cfd, start, attempt, rr, accepted, got_one,
                 prefix_buf>>

\* readReadyPrefix: recv until nothing is left or the buffer is full.
\* (Variant: every recv writes to the start of the buffer.)
LastPart(bytes) == bytes
AllParts(bytes) == prefix_buf \o bytes

ReadSome ==
  LET room == MAX_PREFIX - Len(prefix_buf) IN
  /\ pc = "read" /\ room > 0 /\ rx[cfd] # <<>>
  /\ prefix_buf' = AllParts(Taken(cfd, room))
  /\ Consume(cfd, room)
  /\ UNCHANGED <<sock, sent, workerVars, pc, cfd, start, attempt, rr, accepted,
                 got_one>>

ReadDone ==
  /\ pc = "read" /\ (Len(prefix_buf) >= MAX_PREFIX \/ rx[cfd] = <<>>)
  /\ start' = rr /\ attempt' = 0
  /\ pc' = "send"
  /\ UNCHANGED <<handoffVars, cfd, rr, accepted, got_one, prefix_buf>>

Candidate == (start + attempt) % NB

\* sendFdWithBytes blocks while the queue is full.  Success ends the attempts.
\* (Variant: the next backend is tried as well.)
TryNextToo ==
  /\ attempt' = attempt + 1
  /\ pc' = "send" /\ rr' = rr

Succeed ==
  /\ rr' = (Candidate + 1) % NB
  /\ pc' = "close"
  /\ UNCHANGED attempt

SendFd ==
  /\ pc = "send" /\ attempt < NB /\ Room(Candidate)
  /\ Send(Candidate, cfd, prefix_buf)
  /\ Succeed
  /\ UNCHANGED <<sock, sent, rx, taken, alive, cfd, start, accepted, got_one,
                 prefix_buf>>

\* (Variant: the client is given up at the first dead backend.)
FirstFailureEnds == pc' = "close" /\ UNCHANGED attempt

TryNext == attempt' = attempt + 1 /\ UNCHANGED pc

SendFails ==
  /\ pc = "send" /\ attempt < NB /\ ~alive[Candidate]
  /\ TryNext
  /\ UNCHANGED <<handoffVars, cfd, start, rr, accepted, got_one, prefix_buf>>

AllFailed ==
  /\ pc = "send" /\ attempt = NB
  /\ pc' = "close"
  /\ UNCHANGED <<handoffVars, cfd, start, attempt, rr, accepted, got_one,
                 prefix_buf>>

Close ==
  /\ pc = "close"
  /\ CloseCopy(cfd)
  /\ cfd' = NoClient /\ accepted' = accepted + 1 /\ pc' = "accept"
  /\ UNCHANGED <<sent, rx, workerVars, start, attempt, rr, got_one, prefix_buf>>

-----------------------------------------------------------------------------
LBStep ==
  \/ Accept \/ EndBatch \/ Poll \/ ReadSome \/ ReadDone
  \/ SendFd \/ SendFails \/ AllFailed \/ Close

Next == LBStep \/ (Surroundings /\ UNCHANGED lbVars)

Spec == Init /\ [][Next]_vars

\* The thread runs, accept does not fail for ever, and a worker that lives takes
\* what it is sent.
FairSpec ==
  /\ Spec
  /\ WF_vars(LBStep) /\ SF_vars(Accept)
  /\ \A b \in Backends : WF_vars(WorkerTake(b) /\ UNCHANGED lbVars)

-----------------------------------------------------------------------------
\* The attempts for a client end without a message only when every backend's
\* worker has gone.
DroppedOnlyWhenAllDead ==
  [][pc = "send" /\ pc' = "close" /\ chan' = chan
       => \A b \in Backends : ~alive[b]]_vars

Outcome(c) ==
  CASE sock[c] = "none" -> <<"none">>
    [] \E b \in Backends : Passed(b, c) -> Holder(c)
    [] sock[c] = "queued" \/ (sock[c] = "open" /\ pc # "close") -> <<"waiting">>
    [] OTHER -> <<"dropped">>

outcomeBar == [c \in Clients |-> Outcome(c)]
goneBar == {b \in Backends : ~alive[b]}

Abstract == INSTANCE Dispatch WITH
  Workers <- Backends,
  HealthChecks <- {},
  outcome <- outcomeBar,
  gone <- goneBar

\* The load balancer gives every connection one outcome, once, however many
\* workers it tries.
ImplementsDispatch == Abstract!Spec
=============================================================================
