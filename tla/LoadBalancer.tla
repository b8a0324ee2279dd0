---------------------------- MODULE LoadBalancer -----------------------------
(***************************************************************************)
(* The load balancer the image ships (src/lb.c): one thread that accepts   *)
(* connections in batches, answers health checks itself and passes every   *)
(* other socket to a worker, round robin, together with the bytes it has   *)
(* read from it.  One step per system call on a socket others share.       *)
(***************************************************************************)
EXTENDS Handoff

CONSTANTS
  NoClient,
  ACCEPT_BATCH,
  AcceptMayFail   \* accept4 may fail though a connection is queued

ASSUME LoadBalancerConstants ==
  /\ NoClient \notin Clients
  /\ ACCEPT_BATCH \in Nat \ {0}
  /\ AcceptMayFail \in BOOLEAN

VARIABLES
  pc,         \* next system call
  cfd,        \* the client being dispatched
  target,     \* backend chosen for it
  rr,         \* backend the next client gets
  accepted,   \* clients accepted in this batch
  staged,     \* prefix staging area of the target
  served,     \* clients whose health check was answered here
  assigned    \* clients each backend was chosen for (history)

lbVars == <<pc, cfd, target, rr, accepted, staged, served, assigned>>
vars == <<handoffVars, lbVars>>

Init ==
  /\ HandoffInit
  /\ pc = "accept" /\ cfd = NoClient /\ target = 0 /\ rr = 0 /\ accepted = 0
  /\ staged = <<>> /\ served = {}
  /\ assigned = [b \in Backends |-> 0]

-----------------------------------------------------------------------------
Accept ==
  /\ pc = "accept" /\ accepted < ACCEPT_BATCH
  /\ \E c \in Queued :
       /\ cfd' = c
       /\ sock' = [sock EXCEPT ![c] = "open"]
  /\ accepted' = accepted + 1
  /\ pc' = "peek"
  /\ UNCHANGED <<sent, rx, workerVars, target, rr, staged, served, assigned>>

\* The batch ends, full or at an error of accept4; an empty one polls first.
EndBatch ==
  /\ pc = "accept"
  /\ accepted = ACCEPT_BATCH \/ Queued = {} \/ AcceptMayFail
  /\ pc' = IF accepted = 0 THEN "poll" ELSE "accept"
  /\ accepted' = 0
  /\ UNCHANGED <<handoffVars, cfd, target, rr, staged, served, assigned>>

Poll ==
  /\ pc = "poll" /\ Queued # {}
  /\ pc' = "accept"
  /\ UNCHANGED <<handoffVars, cfd, target, rr, accepted, staged, served,
                 assigned>>

\* try_serve_ready looks at what has arrived: GET /ready and a delimiter.
\* With exactly the ten bytes GET /ready it takes the byte after them from an
\* uninitialised buffer, so either answer is possible.
StartsReady(bytes) == bytes # <<>> /\ Head(bytes) = "ready"
MayLookReady(bytes) ==
  StartsReady(bytes) /\ (Len(bytes) >= 2 => bytes[2] = "end")
MayNotLookReady(bytes) ==
  StartsReady(bytes) => (Len(bytes) >= 2 => bytes[2] # "end")

ServeReady ==
  /\ pc = "peek" /\ MayLookReady(rx[cfd])
  /\ served' = served \cup {cfd}
  /\ CloseCopy(cfd)
  /\ cfd' = NoClient /\ pc' = "accept"
  /\ UNCHANGED <<sent, rx, workerVars, target, rr, accepted, staged, assigned>>

\* Round robin: the turn passes on whatever becomes of the client.
\* (Variant: a step of two.)
SkipNext == (rr + 2) % NB

NextTurn == (rr + 1) % NB

ChooseBackend ==
  /\ pc = "peek" /\ MayNotLookReady(rx[cfd])
  /\ target' = rr /\ rr' = NextTurn
  /\ assigned' = [assigned EXCEPT ![rr] = @ + 1]
  /\ pc' = "drain"
  /\ UNCHANGED <<handoffVars, cfd, accepted, staged, served>>

\* drain_ready_prefix: one recv.
DrainPrefix ==
  /\ pc = "drain"
  /\ staged' = Taken(cfd, MAX_PREFIX)
  /\ Consume(cfd, MAX_PREFIX)
  /\ pc' = "send"
  /\ UNCHANGED <<sock, sent, workerVars, cfd, target, rr, accepted, served,
                 assigned>>

\* send_fd: without blocking first ...
\* (Variant: the blocking call follows even when this one succeeded.)
AlwaysBlockingNext == "block"

AfterSend == "close"

SendFd ==
  /\ pc = "send" /\ Room(target)
  /\ Send(target, cfd, staged)
  /\ pc' = AfterSend
  /\ UNCHANGED <<sock, sent, rx, taken, alive, cfd, target, rr, accepted,
                 staged, served, assigned>>

\* (Variant: no second attempt.)
GiveUp == "close"

AfterFullQueue == "block"

SendFdFails ==
  /\ pc = "send" /\ ~Room(target)
  /\ pc' = AfterFullQueue
  /\ UNCHANGED <<handoffVars, cfd, target, rr, accepted, staged, served,
                 assigned>>

\* ... then, if that failed, blocking: sendmsg waits for room, or fails
\* because the worker has gone, which nobody looks at.
SendFdBlocking ==
  /\ pc = "block" /\ (Room(target) \/ ~alive[target])
  /\ IF alive[target] THEN Send(target, cfd, staged) ELSE UNCHANGED chan
  /\ pc' = "close"
  /\ UNCHANGED <<sock, sent, rx, taken, alive, cfd, target, rr, accepted,
                 staged, served, assigned>>

Close ==
  /\ pc = "close"
  /\ CloseCopy(cfd)
  /\ cfd' = NoClient /\ pc' = "accept"
  /\ UNCHANGED <<sent, rx, workerVars, target, rr, accepted, staged, served,
                 assigned>>

-----------------------------------------------------------------------------
LBStep ==
  \/ Accept \/ EndBatch \/ Poll \/ ServeReady \/ ChooseBackend \/ DrainPrefix
  \/ SendFd \/ SendFdFails \/ SendFdBlocking \/ Close

Next == LBStep \/ (Surroundings /\ UNCHANGED lbVars)

Spec == Init /\ [][Next]_vars

\* The thread runs, accept4 does not fail for ever, and a worker that lives
\* takes what it is sent.
FairSpec ==
  /\ Spec
  /\ WF_vars(LBStep) /\ SF_vars(Accept)
  /\ \A b \in Backends : WF_vars(WorkerTake(b) /\ UNCHANGED lbVars)

-----------------------------------------------------------------------------
Holding == pc \in {"peek", "drain", "send", "block", "close"}

\* The load balancer's own copy of a descriptor is open exactly while it
\* works on that client, whatever became of the attempts to pass it.
NoDescriptorLeak ==
  \A c \in Clients : sock[c] = "open" <=> (Holding /\ cfd = c)

\* However many were health checks or failed, the backends are chosen in
\* turn: no two differ by more than one client.
Balanced ==
  \A a, b \in Backends : assigned[a] - assigned[b] \in {-1, 0, 1}

\* A socket is closed without having been passed only when the worker it was
\* for has gone: a full queue makes the load balancer wait.
DroppedOnlyForDeadBackend ==
  [][\A c \in Clients :
       sock[c] = "open" /\ sock'[c] = "released" /\ c \notin served'
         => Passed(target, c) \/ ~alive[target]]_vars

HealthCheck(c) ==
  Len(Request[c]) >= 2 /\ Request[c][1] = "ready" /\ Request[c][2] = "end"

\* "The lb never serves other GET /ready* routes" (lb.c:119).
OnlyHealthChecksServed == \A c \in served : HealthCheck(c)

\* What Dispatch sees of a client.
Outcome(c) ==
  CASE sock[c] = "none" -> <<"none">>
    [] \E b \in Backends : Passed(b, c) -> Holder(c)
    [] c \in served -> <<"served">>
    [] sock[c] = "queued" \/ (sock[c] = "open" /\ pc # "close") -> <<"waiting">>
    [] OTHER -> <<"dropped">>

outcomeBar == [c \in Clients |-> Outcome(c)]
goneBar == {b \in Backends : ~alive[b]}

Abstract == INSTANCE Dispatch WITH
  Workers <- Backends,
  HealthChecks <- {c \in Clients : HealthCheck(c)},
  outcome <- outcomeBar,
  gone <- goneBar

\* The load balancer gives every connection one outcome, once, whatever is
\* retried: the spot answer, one worker, or none because a worker has gone.
ImplementsDispatch == Abstract!Spec
=============================================================================
