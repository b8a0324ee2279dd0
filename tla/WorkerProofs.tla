---------------------------- MODULE WorkerProofs -----------------------------
(***************************************************************************)
(* Proofs about Worker: the free stack and the open connections partition  *)
(* the pool, every socket has one owner, and no event of a batch goes      *)
(* stale, for every number of slots, clients and load balancers; and, for  *)
(* clients that wait for each answer: responses are whole and in order, no *)
(* wake-up is lost, no passed descriptor is stranded, a connection is closed *)
(* only for a cause, and the worker implements the safety part of Service. *)
(***************************************************************************)
EXTENDS WorkerService, FiniteSetTheorems, SequenceTheorems, TLAPS

IdleSlots == {s \in Slots : conn_fd[s] = NoFd}

\* The length of the free stack, needed to know it has room for a close.
PoolCount == free_count = Cardinality(IdleSlots)

\* The control event is never both under dispatch and still in the batch.
CtrlTaken ==
  (pc = "ctrl" \/ (caller = "ctrl" /\ Handling)) => CtrlConnEvent \notin batch

\* What the batch holds, by kind.
BatchKinds ==
  \A e \in batch :
    \/ e \in {ListenEvent, CtrlAcceptEvent, CtrlConnEvent}
    \/ e.kind = "client" /\ e.slot \in Slots

IInv ==
  /\ TypeOK
  /\ PoolIntegrity
  /\ PoolCount
  /\ OneOwner
  /\ BatchFresh
  /\ CtrlTaken
  /\ BatchKinds

-----------------------------------------------------------------------------
(***************************************************************************)
(* The operations on the pool.                                             *)
(***************************************************************************)
LEMMA SlotFacts ==
  /\ IsFiniteSet(Slots) /\ Cardinality(Slots) = MAX_CONNS
  /\ Slots \subseteq Nat /\ NoSlot \notin Slots /\ 0 \in Slots
<1>1. 0 \in Int /\ MAX_CONNS - 1 \in Int /\ MAX_CONNS \in Nat \ {0}
  BY WorkerConstants
<1>2. IsFiniteSet(0 .. MAX_CONNS - 1)
      /\ Cardinality(0 .. MAX_CONNS - 1) =
           IF 0 > MAX_CONNS - 1 THEN 0 ELSE MAX_CONNS - 1 - 0 + 1
  BY <1>1, FS_Interval
<1> QED BY <1>1, <1>2 DEF Slots, NoSlot

LEMMA IdleFinite ==
  /\ IsFiniteSet(IdleSlots) /\ Cardinality(IdleSlots) \in Nat
  /\ Cardinality(IdleSlots) <= MAX_CONNS
  /\ IdleSlots = Slots \/ Cardinality(IdleSlots) < MAX_CONNS
<1>1. IdleSlots \in SUBSET Slots BY DEF IdleSlots
<1>2. IsFiniteSet(IdleSlots) /\ Cardinality(IdleSlots) <= Cardinality(Slots)
      /\ (Cardinality(Slots) = Cardinality(IdleSlots) => Slots = IdleSlots)
  BY <1>1, SlotFacts, FS_Subset
<1>3. Cardinality(IdleSlots) \in Nat BY <1>2, FS_CardinalityType
<1> QED BY <1>2, <1>3, SlotFacts, WorkerConstants

\* closeConn of an open slot finds room on the free stack and leaves the pool
\* and the registrations in order.
LEMMA CloseConnPool ==
  ASSUME IInv, NEW s \in Slots, conn_fd[s] # NoFd, CloseConn(s)
  PROVE  /\ PoolIntegrity' /\ PoolCount' /\ OneOwner'
         /\ free_count < MAX_CONNS
         /\ conn_fd' = [conn_fd EXCEPT ![s] = NoFd]
<1> DEFINE c == conn_fd[s]
<1>1. /\ c \in Clients /\ free_count \in Nat /\ free_idx \in [Slots -> Slots]
      /\ conn_fd \in [Slots -> Clients \cup {NoFd}]
      /\ sock \in [Clients -> {"none", "queued", "passed", "open", "closed"}]
      /\ reg \in [Clients -> Slots \cup {NoSlot}]
  BY DEF IInv, TypeOK
<1>2. /\ conn_fd' = [conn_fd EXCEPT ![s] = NoFd]
      /\ reg' = [reg EXCEPT ![c] = NoSlot]
      /\ sock' = [sock EXCEPT ![c] = "closed"]
      /\ free_idx' = [free_idx EXCEPT ![free_count] = s]
      /\ free_count' = free_count + 1
  BY DEF CloseConn, Unregister, PushFree
<1>3. s \notin IdleSlots /\ IdleSlots' = IdleSlots \cup {s}
  BY <1>1, <1>2 DEF IdleSlots
<1>4. free_count = Cardinality(IdleSlots) /\ free_count < MAX_CONNS
  BY <1>3, IdleFinite DEF IInv, PoolCount
<1>5. free_count' = Cardinality(IdleSlots')
  BY <1>2, <1>3, <1>4, IdleFinite, FS_AddElement
<1>6. free_count \in Slots BY <1>1, <1>4, WorkerConstants DEF Slots
<1>7. FreeSlots = IdleSlots /\ \A i \in 0 .. free_count - 1 : i \in Slots
  <2>1. FreeSlots = IdleSlots BY DEF IInv, PoolIntegrity, IdleSlots
  <2>2. \A i \in 0 .. free_count - 1 : i \in Slots
    BY <1>1, <1>4, WorkerConstants DEF Slots
  <2> QED BY <2>1, <2>2
<1>8. PoolIntegrity'
  <2>1. \A i \in 0 .. free_count' - 1 :
          IF i = free_count THEN free_idx'[i] = s
          ELSE i \in 0 .. free_count - 1 /\ free_idx'[i] = free_idx[i]
               /\ free_idx[i] \in IdleSlots
    BY <1>1, <1>2, <1>6, <1>7 DEF FreeSlots
  <2>2. \A i, j \in 0 .. free_count' - 1 : free_idx'[i] = free_idx'[j] => i = j
    BY <2>1, <1>3 DEF IInv, PoolIntegrity
  <2>3. FreeSlots' = FreeSlots \cup {s}
    <3>1. free_count \in 0 .. free_count' - 1
          /\ \A i \in 0 .. free_count - 1 : i \in 0 .. free_count' - 1 /\ i # free_count
      BY <1>1, <1>2
    <3> QED BY <2>1, <3>1 DEF FreeSlots
  <2> QED BY <2>2, <2>3, <1>3, <1>7 DEF PoolIntegrity, IdleSlots
<1>9. OneOwner'
  <2>1. reg[c] = s /\ \A d \in Clients : reg[d] = s => d = c
    BY <1>1, SlotFacts DEF IInv, OneOwner
  <2>2. \A t \in Slots : t # s => conn_fd[t] # c
    BY <1>1 DEF IInv, OneOwner
  <2> QED BY <1>1, <1>2, <2>1, <2>2, SlotFacts, WorkerConstants DEF IInv, OneOwner
<1> QED BY <1>2, <1>4, <1>5, <1>8, <1>9 DEF PoolCount

\* addClientFd takes an idle slot and registers the socket with it.
LEMMA AdoptClientPool ==
  ASSUME IInv, NEW c \in Clients, sock[c] # "open", NEW bytes, AdoptClient(c, bytes)
  PROVE  /\ PoolIntegrity' /\ PoolCount' /\ OneOwner'
         /\ TopSlot \in Slots /\ conn_fd[TopSlot] = NoFd
<1>1. /\ free_count \in 0 .. MAX_CONNS /\ free_count > 0
      /\ free_idx \in [Slots -> Slots]
      /\ conn_fd \in [Slots -> Clients \cup {NoFd}]
      /\ sock \in [Clients -> {"none", "queued", "passed", "open", "closed"}]
      /\ reg \in [Clients -> Slots \cup {NoSlot}]
  BY DEF IInv, TypeOK, AdoptClient
<1>2. /\ conn_fd' = [conn_fd EXCEPT ![TopSlot] = c]
      /\ reg' = [reg EXCEPT ![c] = TopSlot]
      /\ sock' = [sock EXCEPT ![c] = "open"]
      /\ free_idx' = free_idx /\ free_count' = free_count - 1
  BY DEF AdoptClient, PopFree, Register
<1>3. free_count - 1 \in Slots /\ free_count - 1 \in 0 .. free_count - 1
      /\ \A i \in 0 .. free_count - 1 : i \in Slots
  BY <1>1, WorkerConstants DEF Slots
<1>4. TopSlot \in Slots /\ TopSlot \in FreeSlots
  BY <1>1, <1>3 DEF TopSlot, FreeSlots
<1>5. FreeSlots = IdleSlots BY DEF IInv, PoolIntegrity, IdleSlots
<1>6. conn_fd[TopSlot] = NoFd BY <1>4, <1>5 DEF IdleSlots
<1>7. IdleSlots' = IdleSlots \ {TopSlot}
  BY <1>1, <1>2, <1>4, WorkerConstants DEF IdleSlots
<1>8. free_count' = Cardinality(IdleSlots')
  BY <1>2, <1>4, <1>5, <1>7, IdleFinite, FS_RemoveElement DEF IInv, PoolCount
<1>9. PoolIntegrity'
  <2>1. \A i \in 0 .. free_count' - 1 : i \in 0 .. free_count - 1 /\ i # free_count - 1
    BY <1>1, <1>2
  <2>2. \A i \in 0 .. free_count - 1 : i = free_count - 1 \/ i \in 0 .. free_count' - 1
    BY <1>1, <1>2
  <2>3. \A i \in 0 .. free_count' - 1 : free_idx[i] # TopSlot
    BY <2>1, <1>3 DEF IInv, PoolIntegrity, TopSlot
  <2>4. FreeSlots' = FreeSlots \ {TopSlot}
    BY <1>2, <2>1, <2>2, <2>3 DEF FreeSlots, TopSlot
  <2>5. \A i, j \in 0 .. free_count' - 1 : free_idx'[i] = free_idx'[j] => i = j
    BY <1>2, <2>1 DEF IInv, PoolIntegrity
  <2> QED BY <2>4, <2>5, <1>5, <1>7 DEF PoolIntegrity, IdleSlots
<1>10. OneOwner'
  <2>1. reg[c] = NoSlot /\ \A t \in Slots : conn_fd[t] # c
    BY SlotFacts, <1>1, WorkerConstants DEF IInv, OneOwner
  <2> QED BY <1>1, <1>2, <1>4, <1>6, <2>1, SlotFacts, WorkerConstants
          DEF IInv, OneOwner
<1> QED BY <1>4, <1>6, <1>8, <1>9, <1>10 DEF PoolCount

\* Steps that move no slot and no registration.
LEMMA PoolFrame ==
  ASSUME IInv, UNCHANGED <<conn_fd, reg, poolVars>>,
         sock' \in [Clients -> {"none", "queued", "passed", "open", "closed"}],
         \A c \in Clients : (sock'[c] = "open") <=> (sock[c] = "open")
  PROVE  PoolIntegrity' /\ PoolCount' /\ OneOwner'
<1>1. PoolIntegrity' BY DEF IInv, PoolIntegrity, FreeSlots, poolVars
<1>2. PoolCount' BY DEF IInv, PoolCount, IdleSlots, poolVars
<1>3. OneOwner' BY DEF IInv, OneOwner
<1> QED BY <1>1, <1>2, <1>3

\* addClientFd that turns the client away.
LEMMA TurnAwayPool ==
  ASSUME IInv, NEW c \in Clients, sock[c] # "open", RefuseClient(c) \/ AddFails(c)
  PROVE  /\ PoolIntegrity' /\ PoolCount' /\ OneOwner'
         /\ UNCHANGED <<conn_fd, reg, want_out, ready, free_count, free_idx>>
<1>1. /\ free_count \in 0 .. MAX_CONNS /\ free_idx \in [Slots -> Slots]
      /\ conn_fd \in [Slots -> Clients \cup {NoFd}]
      /\ sock \in [Clients -> {"none", "queued", "passed", "open", "closed"}]
  BY DEF IInv, TypeOK
<1>2. sock' = [sock EXCEPT ![c] = "closed"]
  BY DEF RefuseClient, AddFails
<1>3. UNCHANGED <<conn_fd, reg, want_out, ready, free_count, free_idx>>
  <2>1. CASE RefuseClient(c)
    BY <2>1 DEF RefuseClient, connVars, poolVars, epollVars
  <2>2. CASE AddFails(c)
    <3>1. free_count - 1 \in Slots /\ free_count - 1 \in 0 .. free_count - 1
      BY <1>1, <2>2, WorkerConstants DEF AddFails, Slots
    <3>2. TopSlot \in Slots /\ conn_fd[TopSlot] = NoFd
      BY <1>1, <3>1 DEF TopSlot, IInv, PoolIntegrity, FreeSlots
    <3> QED BY <1>1, <2>2, <3>1, <3>2 DEF AddFails, epollVars, TopSlot
  <2> QED BY <2>1, <2>2
<1> QED BY <1>1, <1>2, <1>3, PoolFrame DEF poolVars

-----------------------------------------------------------------------------
(***************************************************************************)
(* Every step keeps the pool and the registrations in order.               *)
(***************************************************************************)

\* Steps that write none of these variables.
Idle == UNCHANGED <<conn_fd, reg, poolVars, sock>>

LEMMA IdleSteps ==
  ASSUME \/ Wait \/ DispatchListen \/ DispatchCtrlConn \/ DispatchOut
         \/ DispatchIn \/ AcceptDone \/ CtrlAgain \/ RecvData \/ RecvAgain
         \/ ParseNone \/ ParseRequest \/ SendSome \/ SendDone \/ SendBlocked
         \/ DrainBlocked
         \/ \E c \in Clients : ClientSend(c) \/ ClientRead(c) \/ ClientLeave(c)
         \/ \E l \in LBs : LBConnect(l) \/ LBExit(l)
  PROVE  Idle
<1>1. CASE Wait BY <1>1 DEF Wait, Idle, connVars
<1>2. CASE DispatchListen BY <1>2 DEF DispatchListen, Idle, connVars, epollVars
<1>3. CASE DispatchCtrlConn BY <1>3 DEF DispatchCtrlConn, Idle, connVars, epollVars
<1>4. CASE DispatchOut BY <1>4 DEF DispatchOut, Idle, connVars, epollVars
<1>5. CASE DispatchIn BY <1>5 DEF DispatchIn, Idle, connVars, epollVars
<1>6. CASE AcceptDone BY <1>6 DEF AcceptDone, Idle, connVars, epollVars
<1>7. CASE CtrlAgain BY <1>7 DEF CtrlAgain, Idle, connVars, epollVars
<1>8. CASE RecvData BY <1>8 DEF RecvData, Idle, epollVars
<1>9. CASE RecvAgain BY <1>9 DEF RecvAgain, Idle, connVars, epollVars
<1>10. CASE ParseNone BY <1>10 DEF ParseNone, Idle, connVars, epollVars
<1>11. CASE ParseRequest BY <1>11 DEF ParseRequest, Idle, epollVars
<1>12. CASE SendSome BY <1>12 DEF SendSome, Idle, epollVars
<1>13. CASE SendDone BY <1>13 DEF SendDone, Idle, epollVars
<1>14. CASE SendBlocked BY <1>14 DEF SendBlocked, Idle, epollVars
<1>15. CASE DrainBlocked BY <1>15 DEF DrainBlocked, Idle, connVars, epollVars
<1>16. CASE \E c \in Clients : ClientSend(c) \/ ClientRead(c) \/ ClientLeave(c)
  BY <1>16 DEF ClientSend, ClientRead, ClientLeave, Idle, connVars
<1>17. CASE \E l \in LBs : LBConnect(l) \/ LBExit(l)
  BY <1>17 DEF LBConnect, LBExit, Idle, connVars, epollVars
<1> QED BY <1>1, <1>2, <1>3, <1>4, <1>5, <1>6, <1>7, <1>8, <1>9, <1>10, <1>11,
           <1>12, <1>13, <1>14, <1>15, <1>16, <1>17

\* While a handler runs, its slot holds a registered client.
LEMMA CurOpen ==
  ASSUME IInv, Handling
  PROVE  /\ cur \in Slots /\ conn_fd[cur] \in Clients
         /\ conn_fd[cur] # NoFd /\ reg[conn_fd[cur]] = cur
<1>1. cur \in Slots /\ conn_fd \in [Slots -> Clients \cup {NoFd}]
  BY DEF IInv, TypeOK
<1>2. conn_fd[cur] # NoFd BY DEF IInv, BatchFresh
<1> QED BY <1>1, <1>2 DEF IInv, OneOwner

LEMMA PoolStep ==
  ASSUME IInv, Next
  PROVE  PoolIntegrity' /\ PoolCount' /\ OneOwner'
<1> DEFINE Goal == PoolIntegrity' /\ PoolCount' /\ OneOwner'
           Kept == \A c \in Clients : (sock'[c] = "open") <=> (sock[c] = "open")
           SockType == [Clients -> {"none", "queued", "passed", "open", "closed"}]
<1>0. sock \in SockType /\ reg \in [Clients -> Slots \cup {NoSlot}]
  BY DEF IInv, TypeOK
<1>1. ASSUME Idle PROVE Goal
  BY <1>0, <1>1, PoolFrame DEF Idle
<1>2. CASE AcceptCtrl
  <2>1. sock' \in SockType /\ Kept
    BY <1>0, <1>2 DEF AcceptCtrl, DropCtrl, Passed
  <2> QED BY <2>1, <1>2, PoolFrame DEF AcceptCtrl, connVars, epollVars
<1>3. CASE RejectCtrl
  <2>1. sock' \in SockType /\ Kept
    BY <1>0, <1>3 DEF RejectCtrl, DropCtrl, Passed
  <2> QED BY <2>1, <1>3, PoolFrame DEF RejectCtrl, connVars, epollVars
<1>4. CASE CtrlEof
  <2>1. sock' \in SockType /\ Kept
    BY <1>0, <1>4 DEF CtrlEof, DropCtrl, Passed
  <2> QED BY <2>1, <1>4, PoolFrame DEF CtrlEof, connVars, epollVars
<1>5. CASE \E c \in Clients : Connect(c)
  <2>1. sock' \in SockType /\ Kept BY <1>0, <1>5 DEF Connect
  <2> QED BY <2>1, <1>5, PoolFrame DEF Connect, connVars, epollVars
<1>6. CASE \E l \in LBs : \E c \in Clients : LBPass(l, c)
  <2>1. sock' \in SockType /\ Kept BY <1>0, <1>6 DEF LBPass
  <2> QED BY <2>1, <1>6, PoolFrame DEF LBPass, connVars, epollVars
<1>7. CASE DrainDone
  <2>1. Handling BY <1>7 DEF DrainDone, Handling
  <2>2. UNCHANGED reg BY <1>0, <1>7, <2>1, CurOpen DEF DrainDone, Register
  <2> QED BY <1>0, <1>7, <2>2, PoolFrame DEF DrainDone, connVars
<1>8. CASE Rearm
  <2>1. Handling BY <1>8 DEF Rearm, Handling
  <2>2. UNCHANGED reg BY <1>0, <1>8, <2>1, CurOpen DEF Rearm, Register
  <2> QED BY <1>0, <1>8, <2>2, PoolFrame DEF Rearm, connVars
<1>9. CASE DispatchHup
  <2>1. PICK e \in ClientEvents : CloseConn(e.slot)
    BY <1>9 DEF DispatchHup
  <2>2. e.slot \in Slots /\ conn_fd[e.slot] # NoFd
    BY <2>1 DEF IInv, TypeOK, BatchFresh, ClientEvents
  <2> QED BY <2>1, <2>2, CloseConnPool
<1>10. CASE RecvNoRoom \/ RecvEnd \/ ParseBad
  <2>1. Handling /\ CloseConn(cur)
    BY <1>10 DEF RecvNoRoom, RecvEnd, ParseBad, CloseCur, Handling
  <2> QED BY <2>1, CurOpen, CloseConnPool
<1>11. CASE AcceptClient
  <2>1. PICK c \in Queued : RefuseClient(c) \/ AddFails(c) \/ AdoptClient(c, <<>>)
    BY <1>11 DEF AcceptClient
  <2>2. c \in Clients /\ sock[c] # "open" BY DEF Queued
  <2> QED BY <2>1, <2>2, TurnAwayPool, AdoptClientPool
<1>12. CASE CtrlRecv
  <2>1. PICK c \in Passed(ctrl_conn) :
          RefuseClient(c) \/ AddFails(c) \/ AdoptClient(c, prefix[c])
    BY <1>12 DEF CtrlRecv
  <2>2. c \in Clients /\ sock[c] # "open" BY DEF Passed
  <2> QED BY <2>1, <2>2, TurnAwayPool, AdoptClientPool
<1> QED
  BY <1>1, <1>2, <1>3, <1>4, <1>5, <1>6, <1>7, <1>8, <1>9, <1>10, <1>11, <1>12,
     IdleSteps
     DEF Next, WorkerStep, Dispatch, Handle, ClientStep, LBStep

-----------------------------------------------------------------------------
(***************************************************************************)
(* No event of a batch goes stale.                                         *)
(***************************************************************************)
EventsLive ==
  /\ \A e \in ClientEvents : conn_fd[e.slot] # NoFd
  /\ \A e, f \in ClientEvents : e.slot = f.slot => e = f
  /\ BatchKinds

CurLive == Handling => conn_fd[cur] # NoFd /\ \A e \in ClientEvents : e.slot # cur

CtrlBusy == pc = "ctrl" \/ (caller = "ctrl" /\ Handling)

CtrlLive ==
  /\ (CtrlBusy \/ CtrlConnEvent \in batch) => ctrl_conn # NoLB
  /\ CtrlBusy => CtrlConnEvent \notin batch

LEMMA BatchParts ==
  (EventsLive /\ CurLive /\ CtrlLive) <=> (BatchFresh /\ CtrlTaken /\ BatchKinds)
  BY DEF EventsLive, CurLive, CtrlLive, CtrlBusy, BatchFresh, CtrlTaken

\* Steps that neither touch the batch nor close or open a slot.
LEMMA EventsFrame ==
  ASSUME IInv, UNCHANGED <<conn_fd, batch>>
  PROVE  EventsLive'
<1>1. EventsLive BY BatchParts DEF IInv
<1> QED BY <1>1 DEF EventsLive, ClientEvents, BatchKinds

\* Taking an event out of the batch.
LEMMA EventsTake ==
  ASSUME IInv, NEW e \in batch, batch' = batch \ {e}, UNCHANGED conn_fd
  PROVE  EventsLive'
<1>1. EventsLive BY BatchParts DEF IInv
<1>2. ClientEvents' \subseteq ClientEvents BY DEF ClientEvents
<1> QED BY <1>1, <1>2 DEF EventsLive, BatchKinds

\* Closing a slot no remaining event names, or filling an idle one.
LEMMA EventsSlot ==
  ASSUME IInv, batch' \subseteq batch, NEW s \in Slots, NEW x,
         conn_fd' = [conn_fd EXCEPT ![s] = x],
         \A e \in ClientEvents' : e.slot # s
  PROVE  EventsLive'
<1>1. EventsLive BY BatchParts DEF IInv
<1>2. ClientEvents' \subseteq ClientEvents BY DEF ClientEvents
<1>3. conn_fd \in [Slots -> Clients \cup {NoFd}]
      /\ \A e \in ClientEvents : e.slot \in Slots
  BY DEF IInv, TypeOK, ClientEvents
<1> QED BY <1>1, <1>2, <1>3 DEF EventsLive, BatchKinds

\* The steps of a handler that goes on with the same slot.
LEMMA GoOn ==
  ASSUME IInv, Handling, UNCHANGED <<conn_fd, batch, cur>>
  PROVE  CurLive'
<1>1. CurLive BY BatchParts DEF IInv
<1> QED BY <1>1 DEF CurLive, ClientEvents

LEMMA NotHandling == ASSUME ~Handling' PROVE CurLive'
  BY DEF CurLive

LEMMA CtrlFrame ==
  ASSUME IInv, batch' \subseteq batch, UNCHANGED ctrl_conn, CtrlBusy' => CtrlBusy
  PROVE  CtrlLive'
<1>1. CtrlLive BY BatchParts DEF IInv
<1>2. CtrlConnEvent' = CtrlConnEvent BY DEF CtrlConnEvent
<1> QED BY <1>1, <1>2 DEF CtrlLive

LEMMA WaitBatch == ASSUME IInv, Wait PROVE EventsLive' /\ CurLive' /\ CtrlLive'
<1>1. PICK B \in SUBSET Deliverable : batch' = B BY DEF Wait
<1>2. /\ pc = "loop" /\ pc' = pc /\ caller' = caller /\ conn_fd' = conn_fd
      /\ ctrl_conn' = ctrl_conn
  BY DEF Wait, connVars, passVars
<1>3. ~Handling' /\ ~CtrlBusy' BY <1>2 DEF Handling, CtrlBusy
<1>4. \A e \in B : \/ \E c \in Clients : e = ClientEvent(c) /\ reg[c] # NoSlot
                   \/ e \in {ListenEvent, CtrlAcceptEvent, CtrlConnEvent}
  BY <1>1 DEF Deliverable
<1>5. \A e \in ClientEvents' : \E c \in Clients : e = ClientEvent(c) /\ reg[c] # NoSlot
  BY <1>1, <1>4 DEF ClientEvents, ListenEvent, CtrlAcceptEvent, CtrlConnEvent
<1>6. \A c \in Clients : reg[c] # NoSlot =>
        /\ reg[c] \in Slots /\ conn_fd[reg[c]] = c /\ c # NoFd
        /\ ClientEvent(c).slot = reg[c] /\ ClientEvent(c).kind = "client"
  BY WorkerConstants DEF IInv, OneOwner, TypeOK, ClientEvent
<1>7. \A e \in ClientEvents' : conn_fd'[e.slot] # NoFd
  BY <1>2, <1>5, <1>6
<1>8. \A e, f \in ClientEvents' : e.slot = f.slot => e = f
  BY <1>5, <1>6
<1>9. BatchKinds'
  BY <1>1, <1>4, <1>6 DEF BatchKinds, ListenEvent, CtrlAcceptEvent, CtrlConnEvent
<1>10. CtrlConnEvent \in B => ctrl_conn # NoLB
  <2>1. \A c \in Clients : reg[c] # NoSlot => ClientEvent(c) # CtrlConnEvent
    BY <1>6 DEF CtrlConnEvent
  <2>2. CtrlConnEvent # ListenEvent /\ CtrlConnEvent # CtrlAcceptEvent
    BY DEF CtrlConnEvent, ListenEvent, CtrlAcceptEvent
  <2> QED BY <1>1, <2>1, <2>2 DEF Deliverable
<1> QED BY <1>1, <1>2, <1>3, <1>7, <1>8, <1>9, <1>10
        DEF EventsLive, CurLive, CtrlLive, CtrlConnEvent

LEMMA DispatchBatch ==
  ASSUME IInv, Dispatch
  PROVE  EventsLive' /\ CurLive' /\ CtrlLive'
<1> DEFINE Goal == EventsLive' /\ CurLive' /\ CtrlLive'
<1>0. EventsLive /\ CtrlLive BY BatchParts DEF IInv
<1>1. CASE DispatchListen
  BY <1>1, EventsTake, NotHandling, CtrlFrame
     DEF DispatchListen, Take, connVars, passVars, Handling, CtrlBusy
<1>2. CASE DispatchCtrlConn
  <2>1. EventsLive' /\ CurLive'
    BY <1>2, EventsTake, NotHandling DEF DispatchCtrlConn, Take, connVars, Handling
  <2>2. CtrlLive'
    BY <1>0, <1>2 DEF DispatchCtrlConn, Take, passVars, CtrlLive, CtrlConnEvent
  <2> QED BY <2>1, <2>2
<1>3. CASE AcceptCtrl
  <2>1. EventsLive' /\ CurLive' /\ ~CtrlBusy'
    BY <1>3, EventsTake, NotHandling
       DEF AcceptCtrl, Take, connVars, Handling, CtrlBusy
  <2>2. CtrlLive'
    BY <1>0, <1>3, <2>1, WorkerConstants
       DEF AcceptCtrl, Take, CtrlLive, CtrlConnEvent, Pending
  <2> QED BY <2>1, <2>2
<1>4. CASE RejectCtrl
  BY <1>4, EventsTake, NotHandling, CtrlFrame
     DEF RejectCtrl, Take, connVars, Handling, CtrlBusy
<1>5. CASE DispatchHup
  <2>1. PICK e \in ClientEvents : Take(e) /\ CloseConn(e.slot)
               /\ UNCHANGED <<pc, cur, caller, also_in, passVars>>
    BY <1>5 DEF DispatchHup
  <2>2. e.slot \in Slots /\ conn_fd[e.slot] # NoFd
    BY DEF IInv, TypeOK, BatchFresh, ClientEvents
  <2>3. conn_fd' = [conn_fd EXCEPT ![e.slot] = NoFd]
    BY <2>1, <2>2, CloseConnPool
  <2>4. \A f \in ClientEvents' : f.slot # e.slot
    BY <1>0, <2>1 DEF EventsLive, ClientEvents, Take
  <2>5. EventsLive' BY <2>1, <2>2, <2>3, <2>4, EventsSlot DEF Take
  <2>6. CurLive' /\ CtrlLive'
    BY <2>1, NotHandling, CtrlFrame DEF Take, Handling, CtrlBusy, passVars
  <2> QED BY <2>5, <2>6
<1>6. CASE DispatchOut \/ DispatchIn
  <2>1. PICK e \in ClientEvents :
               /\ Take(e) /\ pc' \in {"send", "recv"} /\ cur' = e.slot
               /\ caller' \in {"drain", "recv"}
               /\ UNCHANGED <<conn_fd, ctrl_conn>>
    BY <1>6 DEF DispatchOut, DispatchIn, connVars, passVars
  <2>2. EventsLive' BY <2>1, EventsTake DEF Take, ClientEvents
  <2>3. \A f \in ClientEvents' : f.slot # e.slot
    BY <1>0, <2>1 DEF EventsLive, ClientEvents, Take
  <2>4. CurLive' BY <1>0, <2>1, <2>3 DEF CurLive, EventsLive
  <2>5. CtrlLive' BY <2>1, CtrlFrame DEF Take, CtrlBusy
  <2> QED BY <2>2, <2>4, <2>5
<1> QED BY <1>1, <1>2, <1>3, <1>4, <1>5, <1>6 DEF Dispatch

LEMMA HandleBatch ==
  ASSUME IInv, Handle
  PROVE  EventsLive' /\ CurLive' /\ CtrlLive'
<1> DEFINE Goal == EventsLive' /\ CurLive' /\ CtrlLive'
<1>0. EventsLive /\ CurLive /\ CtrlLive BY BatchParts DEF IInv
<1>1. CASE AcceptClient
  <2>1. PICK c \in Queued : RefuseClient(c) \/ AddFails(c) \/ AdoptClient(c, <<>>)
    BY <1>1 DEF AcceptClient
  <2>2. c \in Clients /\ sock[c] # "open" BY DEF Queued
  <2>3. pc' = "accept" /\ UNCHANGED <<batch, caller, ctrl_conn>>
    BY <1>1 DEF AcceptClient, threadVars, passVars
  <2>4. CurLive' /\ CtrlLive'
    BY <2>3, NotHandling, CtrlFrame DEF Handling, CtrlBusy
  <2>5. CASE AdoptClient(c, <<>>)
    <3>1. TopSlot \in Slots /\ conn_fd[TopSlot] = NoFd
          /\ conn_fd' = [conn_fd EXCEPT ![TopSlot] = c]
      BY <2>2, <2>5, AdoptClientPool DEF AdoptClient
    <3>2. \A e \in ClientEvents' : e.slot # TopSlot
      BY <1>0, <2>3, <3>1 DEF EventsLive, ClientEvents
    <3> QED BY <2>3, <2>4, <3>1, <3>2, EventsSlot
  <2>6. CASE RefuseClient(c) \/ AddFails(c)
    BY <2>2, <2>3, <2>4, <2>6, TurnAwayPool, EventsFrame
  <2> QED BY <2>1, <2>5, <2>6
<1>2. CASE CtrlRecv
  <2>1. PICK c \in Passed(ctrl_conn) :
          \/ (RefuseClient(c) \/ AddFails(c)) /\ UNCHANGED <<pc, cur, caller>>
          \/ AdoptClient(c, prefix[c])
             /\ IF prefix[c] # <<>>
                  THEN pc' = "parse" /\ cur' = TopSlot /\ caller' = "ctrl"
                  ELSE UNCHANGED <<pc, cur, caller>>
    BY <1>2 DEF CtrlRecv
  <2>2. c \in Clients /\ sock[c] # "open" BY DEF Passed
  <2>3. pc = "ctrl" /\ UNCHANGED <<batch, ctrl_conn>> BY <1>2 DEF CtrlRecv
  <2>4. CtrlLive' BY <2>3, CtrlFrame DEF CtrlBusy
  <2>5. CASE AdoptClient(c, prefix[c])
             /\ IF prefix[c] # <<>>
                  THEN pc' = "parse" /\ cur' = TopSlot /\ caller' = "ctrl"
                  ELSE UNCHANGED <<pc, cur, caller>>
    <3>1. TopSlot \in Slots /\ conn_fd[TopSlot] = NoFd
          /\ conn_fd' = [conn_fd EXCEPT ![TopSlot] = c]
      BY <2>2, <2>5, AdoptClientPool DEF AdoptClient
    <3>2. \A e \in ClientEvents' : e.slot # TopSlot
      BY <1>0, <2>3, <3>1 DEF EventsLive, ClientEvents
    <3>3. EventsLive' BY <2>3, <3>1, <3>2, EventsSlot
    <3>4. conn_fd'[TopSlot] # NoFd
      BY <2>2, <3>1, WorkerConstants DEF IInv, TypeOK
    <3>5. CASE prefix[c] # <<>>
      BY <2>4, <2>5, <3>2, <3>3, <3>4, <3>5 DEF CurLive
    <3>6. CASE prefix[c] = <<>>
      BY <2>3, <2>4, <2>5, <3>3, <3>6, NotHandling DEF Handling
    <3> QED BY <3>5, <3>6
  <2>6. CASE (RefuseClient(c) \/ AddFails(c)) /\ UNCHANGED <<pc, cur, caller>>
    BY <2>2, <2>3, <2>4, <2>6, TurnAwayPool, EventsFrame, NotHandling DEF Handling
  <2> QED BY <2>1, <2>5, <2>6
<1>3. CASE AcceptDone
  BY <1>3, EventsFrame, NotHandling, CtrlFrame
     DEF AcceptDone, connVars, passVars, Handling, CtrlBusy
<1>4. CASE CtrlAgain
  BY <1>4, EventsFrame, NotHandling, CtrlFrame
     DEF CtrlAgain, connVars, passVars, Handling, CtrlBusy
<1>5. CASE CtrlEof
  <2>1. EventsLive' /\ CurLive'
    BY <1>5, EventsFrame, NotHandling DEF CtrlEof, connVars, Handling
  <2>2. CtrlLive'
    BY <1>0, <1>5 DEF CtrlEof, CtrlLive, CtrlBusy, Handling, CtrlConnEvent
  <2> QED BY <2>1, <2>2
<1>6. CASE RecvNoRoom \/ RecvEnd \/ ParseBad
  <2>1. /\ Handling /\ CloseConn(cur) /\ pc' = AfterClose
        /\ UNCHANGED <<batch, caller, ctrl_conn>>
    BY <1>6 DEF RecvNoRoom, RecvEnd, ParseBad, CloseCur, Handling, passVars
  <2>2. conn_fd' = [conn_fd EXCEPT ![cur] = NoFd] /\ cur \in Slots
    BY <2>1, CurOpen, CloseConnPool
  <2>3. \A e \in ClientEvents' : e.slot # cur
    BY <1>0, <2>1 DEF CurLive, ClientEvents
  <2>4. EventsLive' BY <2>1, <2>2, <2>3, EventsSlot
  <2>5. CurLive' /\ CtrlLive'
    BY <2>1, NotHandling, CtrlFrame DEF AfterClose, Handling, CtrlBusy
  <2> QED BY <2>4, <2>5
<1>7. CASE \/ RecvData \/ RecvAgain \/ ParseNone \/ ParseRequest \/ SendSome
           \/ SendDone \/ SendBlocked \/ DrainDone \/ DrainBlocked \/ Rearm
  <2>1. /\ Handling
        /\ UNCHANGED <<conn_fd, batch, cur, ctrl_conn>>
    BY <1>7 DEF RecvData, RecvAgain, ParseNone, ParseRequest, SendSome, SendDone,
                SendBlocked, DrainDone, DrainBlocked, Rearm, SendStuck, Handling,
                connVars, threadVars, passVars
  <2>2. CtrlBusy' => CtrlBusy
    BY <1>7 DEF RecvData, RecvAgain, ParseNone, ParseRequest, SendSome, SendDone,
                SendBlocked, DrainDone, DrainBlocked, Rearm, SendStuck, Handling,
                CtrlBusy, AfterClose, AfterParse, AfterBlocked, AfterDrain, EnterRecv,
                threadVars
  <2> QED BY <2>1, <2>2, EventsFrame, GoOn, CtrlFrame
<1> QED BY <1>1, <1>2, <1>3, <1>4, <1>5, <1>6, <1>7 DEF Handle

LEMMA BatchStep ==
  ASSUME IInv, Next
  PROVE  EventsLive' /\ CurLive' /\ CtrlLive'
<1>0. EventsLive /\ CurLive /\ CtrlLive BY BatchParts DEF IInv
<1>1. CASE \/ \E c \in Clients : ClientStep(c)
           \/ \E l \in LBs : LBStep(l)
  <2>1. UNCHANGED <<conn_fd, batch, cur, pc, caller, ctrl_conn>>
    BY <1>1 DEF ClientStep, LBStep, Connect, ClientSend, ClientRead, ClientLeave,
                LBConnect, LBExit, LBPass, connVars, threadVars, passVars
  <2>2. CurLive' BY <1>0, <2>1 DEF CurLive, Handling, ClientEvents
  <2>3. CtrlLive' BY <2>1, CtrlFrame DEF CtrlBusy, Handling
  <2> QED BY <2>1, <2>2, <2>3, EventsFrame
<1> QED BY <1>1, WaitBatch, DispatchBatch, HandleBatch DEF Next, WorkerStep

-----------------------------------------------------------------------------
(***************************************************************************)
(* Types.                                                                  *)
(***************************************************************************)
LEMMA SubSeqType ==
  ASSUME NEW S, NEW q \in Seq(S), NEW m \in Nat, NEW n \in Nat, m >= 1, n <= Len(q)
  PROVE  SubSeq(q, m, n) \in Seq(S)
<1>1. CASE m <= n + 1 BY <1>1, SubSeqProperties
<1>2. CASE m > n + 1 BY <1>2, SubSeqEmpty, EmptySeq
<1> QED BY <1>1, <1>2

LEMMA CloseConnTypes ==
  ASSUME IInv, NEW s \in Slots, conn_fd[s] # NoFd, CloseConn(s),
         UNCHANGED <<cur, also_in, clientVars, passVars, rx, stream>>,
         batch' \subseteq batch, caller' \in {"recv", "ctrl", "drain"},
         pc' \in {"loop", "accept", "ctrl", "recv", "parse", "send", "rearm"}
  PROVE  TypeOK'
<1>1. free_count < MAX_CONNS BY CloseConnPool
<1>2. conn_fd[s] \in Clients BY DEF IInv, TypeOK
<1>3. <<>> \in Seq(Nat) BY EmptySeq
<1>4. 0 \in Nat /\ free_count + 1 \in 0 .. MAX_CONNS
  BY <1>1, WorkerConstants DEF IInv, TypeOK
<1> QED BY <1>2, <1>3, <1>4
        DEF IInv, TypeOK, CloseConn, Unregister, PushFree, clientVars, passVars

LEMMA TypeWait == ASSUME IInv, Wait PROVE TypeOK'
<1>1. EventsLive' BY WaitBatch
<1>2. \A e \in batch' : e.kind = "client" => e.slot \in Slots
  BY <1>1 DEF EventsLive, BatchKinds, ListenEvent, CtrlAcceptEvent, CtrlConnEvent
<1>3. ready' \in [Clients -> BOOLEAN] BY DEF Wait, IInv, TypeOK
<1> QED BY <1>2, <1>3
        DEF IInv, TypeOK, Wait, connVars, poolVars, clientVars, passVars

LEMMA TypeDispatch == ASSUME IInv, Dispatch PROVE TypeOK'
<1> USE DEF Take, connVars, poolVars, epollVars, clientVars, passVars
<1>1. CASE DispatchListen BY <1>1 DEF IInv, TypeOK, DispatchListen
<1>2. CASE DispatchCtrlConn BY <1>2 DEF IInv, TypeOK, DispatchCtrlConn
<1>3. CASE AcceptCtrl
  BY <1>3 DEF IInv, TypeOK, AcceptCtrl, DropCtrl, Pending
<1>4. CASE RejectCtrl
  BY <1>4 DEF IInv, TypeOK, RejectCtrl, DropCtrl, Pending
<1>5. CASE DispatchHup
  <2>1. PICK e \in ClientEvents :
          /\ Take(e) /\ CloseConn(e.slot)
          /\ UNCHANGED <<pc, cur, caller, also_in, clientVars, passVars, rx, stream>>
    BY <1>5 DEF DispatchHup
  <2>2. e.slot \in Slots /\ conn_fd[e.slot] # NoFd
    BY DEF IInv, TypeOK, BatchFresh, ClientEvents
  <2>3. caller' \in {"recv", "ctrl", "drain"}
        /\ pc' \in {"loop", "accept", "ctrl", "recv", "parse", "send", "rearm"}
    BY <2>1 DEF IInv, TypeOK
  <2> QED BY <2>1, <2>2, <2>3, CloseConnTypes
<1>6. CASE DispatchOut
  BY <1>6 DEF IInv, TypeOK, DispatchOut, ClientEvents
<1>7. CASE DispatchIn
  BY <1>7 DEF IInv, TypeOK, DispatchIn, ClientEvents
<1> QED BY <1>1, <1>2, <1>3, <1>4, <1>5, <1>6, <1>7 DEF Dispatch

LEMMA TypeAdopt ==
  ASSUME IInv, NEW c \in Clients, sock[c] # "open", NEW bytes \in Seq(Nat),
         RefuseClient(c) \/ AddFails(c) \/ AdoptClient(c, bytes)
  PROVE  /\ conn_fd' \in [Slots -> Clients \cup {NoFd}]
         /\ in_buf' \in [Slots -> Seq(Nat)]
         /\ out' \in [Slots -> Nat] /\ out_pos' \in [Slots -> Nat]
         /\ free_idx' \in [Slots -> Slots] /\ free_count' \in 0 .. MAX_CONNS
         /\ sock' \in [Clients -> {"none", "queued", "passed", "open", "closed"}]
         /\ reg' \in [Clients -> Slots \cup {NoSlot}]
         /\ want_out' \in [Clients -> BOOLEAN] /\ ready' \in [Clients -> BOOLEAN]
<1>0. TypeOK /\ <<>> \in Seq(Nat) BY EmptySeq DEF IInv
<1>1. CASE RefuseClient(c)
  BY <1>0, <1>1 DEF RefuseClient, TypeOK, connVars, poolVars, epollVars
<1>2. CASE AddFails(c)
  <2>1. UNCHANGED <<conn_fd, reg, want_out, ready, free_count, free_idx>>
    BY <1>2, TurnAwayPool
  <2> QED BY <1>0, <1>2, <2>1 DEF AddFails, TypeOK
<1>3. CASE AdoptClient(c, bytes)
  <2>1. TopSlot \in Slots BY <1>3, AdoptClientPool
  <2>2. BufferedPrefix(bytes) \in Seq(Nat)
    BY SubSeqType, WorkerConstants, LenProperties DEF BufferedPrefix
  <2>3. in_buf' \in [Slots -> Seq(Nat)]
    BY <1>0, <1>3, <2>1, <2>2 DEF AdoptClient, TypeOK
  <2>4. free_count' \in 0 .. MAX_CONNS
    BY <1>0, <1>3, WorkerConstants DEF AdoptClient, PopFree, TypeOK
  <2> QED BY <1>0, <1>3, <2>1, <2>3, <2>4 DEF AdoptClient, TypeOK, Register
<1> QED BY <1>1, <1>2, <1>3

LEMMA TypeHandle == ASSUME IInv, Handle PROVE TypeOK'
<1> USE DEF connVars, poolVars, threadVars, epollVars, clientVars, passVars
<1>0. TypeOK BY DEF IInv
<1>1. CASE AcceptClient
  <2>1. PICK c \in Queued : RefuseClient(c) \/ AddFails(c) \/ AdoptClient(c, <<>>)
    BY <1>1 DEF AcceptClient
  <2>2. c \in Clients /\ sock[c] # "open" /\ <<>> \in Seq(Nat)
    BY EmptySeq DEF Queued
  <2>3. UNCHANGED <<threadVars, clientVars, passVars, rx, stream>>
    BY <1>1 DEF AcceptClient
  <2> HIDE DEF connVars, poolVars, epollVars
  <2> QED BY <1>0, <2>1, <2>2, <2>3, TypeAdopt DEF TypeOK
<1>2. CASE CtrlRecv
  <2>1. PICK c \in Passed(ctrl_conn) :
          /\ prefix' = [prefix EXCEPT ![c] = <<>>]
          /\ RefuseClient(c) \/ AddFails(c) \/ AdoptClient(c, prefix[c])
          /\ \/ UNCHANGED <<pc, cur, caller>>
             \/ /\ AdoptClient(c, prefix[c])
                /\ pc' = "parse" /\ cur' = TopSlot /\ caller' = "ctrl"
    BY <1>2 DEF CtrlRecv
  <2>2. c \in Clients /\ sock[c] # "open" BY DEF Passed
  <2>3. prefix[c] \in Seq(Nat) /\ <<>> \in Seq(Nat)
    BY <1>0, <2>2, EmptySeq DEF TypeOK
  <2>4. UNCHANGED <<batch, also_in, clientVars, via, lb, ctrl_conn, rx, stream>>
    BY <1>2 DEF CtrlRecv
  <2>5. pc' \in {"ctrl", "parse"} /\ cur' \in Slots
        /\ caller' \in {"recv", "ctrl", "drain"}
    BY <1>0, <1>2, <2>1, <2>2, AdoptClientPool DEF CtrlRecv, TypeOK
  <2> HIDE DEF connVars, poolVars, epollVars
  <2> QED BY <1>0, <2>1, <2>2, <2>3, <2>4, <2>5, TypeAdopt DEF TypeOK
<1>3. CASE AcceptDone BY <1>0, <1>3 DEF TypeOK, AcceptDone
<1>4. CASE CtrlAgain BY <1>0, <1>4 DEF TypeOK, CtrlAgain
<1>5. CASE CtrlEof BY <1>0, <1>5 DEF TypeOK, CtrlEof, DropCtrl
<1>6. CASE RecvNoRoom \/ RecvEnd \/ ParseBad
  <2>1. /\ Handling /\ CloseConn(cur) /\ pc' \in {"loop", "ctrl"}
        /\ UNCHANGED <<batch, cur, caller, also_in, clientVars, passVars, rx, stream>>
    BY <1>6 DEF RecvNoRoom, RecvEnd, ParseBad, CloseCur, Handling, AfterClose
  <2>2. caller' \in {"recv", "ctrl", "drain"} BY <1>0, <2>1 DEF TypeOK
  <2> HIDE DEF connVars, poolVars, epollVars, clientVars, passVars
  <2> QED BY <2>1, <2>2, CurOpen, CloseConnTypes
<1>7. CASE RecvData
  <2>1. PICK n : /\ n = IF Len(rx[conn_fd[cur]]) <= BUF_SIZE - Len(in_buf[cur])
                         THEN Len(rx[conn_fd[cur]])
                         ELSE BUF_SIZE - Len(in_buf[cur])
                 /\ in_buf' = [in_buf EXCEPT ![cur] =
                                 @ \o SubSeq(rx[conn_fd[cur]], 1, n)]
                 /\ rx' = [rx EXCEPT ![conn_fd[cur]] = SubSeq(@, n + 1, Len(@))]
    BY <1>7 DEF RecvData
  <2>2. cur \in Slots /\ conn_fd[cur] \in Clients
    BY <1>7, CurOpen DEF RecvData, Handling
  <2>3. rx[conn_fd[cur]] \in Seq(Nat) /\ in_buf[cur] \in Seq(Nat)
    BY <1>0, <2>2 DEF TypeOK
  <2>4. n \in Nat /\ n <= Len(rx[conn_fd[cur]])
    <3>1. Len(in_buf[cur]) \in Nat /\ Len(in_buf[cur]) < BUF_SIZE
          /\ Len(rx[conn_fd[cur]]) \in Nat
      BY <1>7, <2>3, LenProperties, WorkerConstants DEF RecvData, BufferFull
    <3> DEFINE a == Len(rx[conn_fd[cur]])
               b == Len(in_buf[cur])
    <3>2. n = IF a <= BUF_SIZE - b THEN a ELSE BUF_SIZE - b
      BY <2>1, Zenon
    <3>3. a \in Nat /\ b \in Nat /\ b < BUF_SIZE /\ BUF_SIZE \in Nat
      BY <3>1, WorkerConstants
    <3> HIDE DEF a, b
    <3>4. n \in Nat /\ n <= a BY <3>2, <3>3
    <3> QED BY <3>4 DEF a
  <2>5. SubSeq(rx[conn_fd[cur]], 1, n) \in Seq(Nat)
        /\ SubSeq(rx[conn_fd[cur]], n + 1, Len(rx[conn_fd[cur]])) \in Seq(Nat)
    BY <2>3, <2>4, SubSeqType, LenProperties
  <2>6. in_buf[cur] \o SubSeq(rx[conn_fd[cur]], 1, n) \in Seq(Nat)
    BY <2>3, <2>5, ConcatProperties
  <2>7. in_buf' \in [Slots -> Seq(Nat)] /\ rx' \in [Clients -> Seq(Nat)]
    BY <1>0, <2>1, <2>2, <2>5, <2>6 DEF TypeOK
  <2> QED BY <1>0, <1>7, <2>7 DEF TypeOK, RecvData
<1>8. CASE RecvAgain BY <1>0, <1>8 DEF TypeOK, RecvAgain
<1>9. CASE ParseNone BY <1>0, <1>9 DEF TypeOK, ParseNone, AfterParse
<1>10. CASE ParseRequest
  <2>1. /\ cur \in Slots /\ in_buf[cur] \in Seq(Nat)
        /\ ReqParts[conn_fd[cur]] \in Nat \ {0}
    BY <1>0, <1>10, CurOpen, WorkerConstants DEF TypeOK, ParseRequest, Handling
  <2>2. in_buf[cur] # <<>>
    BY <1>10, <2>1, LenProperties DEF ParseRequest, Complete
  <2>3. Head(in_buf[cur]) \in Nat BY <2>1, <2>2, HeadTailProperties
  <2> QED BY <1>0, <1>10, <2>3 DEF TypeOK, ParseRequest, StartSend
<1>11. CASE SendSome
  <2>1. PICK n : /\ n = IF OutLen(cur) - out_pos[cur] <= Space(conn_fd[cur])
                         THEN OutLen(cur) - out_pos[cur] ELSE Space(conn_fd[cur])
                 /\ stream' = [stream EXCEPT ![conn_fd[cur]] =
                      @ \o [i \in 1 .. n |-> <<out[cur], out_pos[cur] + i>>]]
                 /\ out_pos' = [out_pos EXCEPT ![cur] = @ + n]
    BY <1>11 DEF SendSome
  <2>2. cur \in Slots /\ conn_fd[cur] \in Clients
    BY <1>11, CurOpen DEF SendSome, Handling
  <2>3. n \in Nat
    <3>1. OutLen(cur) \in Nat /\ out_pos[cur] \in Nat /\ out_pos[cur] < OutLen(cur)
      BY <1>0, <1>11, <2>2, WorkerConstants DEF SendSome, Sent, OutLen, TypeOK
    <3>2. Space(conn_fd[cur]) \in Int /\ Space(conn_fd[cur]) > 0
      BY <1>0, <1>11, <2>2, WorkerConstants, LenProperties DEF SendSome, Space, TypeOK
    <3> QED BY <2>1, <3>1, <3>2
  <2>4. [i \in 1 .. n |-> <<out[cur], out_pos[cur] + i>>] \in Seq(Nat \X Nat)
    <3>1. \A i \in 1 .. n : <<out[cur], out_pos[cur] + i>> \in Nat \X Nat
      BY <1>0, <2>2, <2>3 DEF TypeOK
    <3> QED BY <2>3, <3>1, IsASeq
  <2>5. stream[conn_fd[cur]] \o [i \in 1 .. n |-> <<out[cur], out_pos[cur] + i>>]
          \in Seq(Nat \X Nat)
    BY <1>0, <2>2, <2>4, ConcatProperties DEF TypeOK
  <2>6. stream' \in [Clients -> Seq(Nat \X Nat)] /\ out_pos' \in [Slots -> Nat]
    BY <1>0, <2>1, <2>2, <2>3, <2>5 DEF TypeOK
  <2> QED BY <1>0, <1>11, <2>6 DEF TypeOK, SendSome
<1>12. CASE SendDone \/ SendBlocked
  <2>1. /\ cur \in Slots /\ in_buf[cur] \in Seq(Nat)
        /\ ReqParts[conn_fd[cur]] \in Nat \ {0}
    <3>1. Handling BY <1>12 DEF SendDone, SendBlocked, SendStuck, Handling
    <3> QED BY <1>0, <3>1, CurOpen, WorkerConstants DEF TypeOK
  <2>2. SubSeq(in_buf[cur], ReqParts[conn_fd[cur]] + 1, Len(in_buf[cur])) \in Seq(Nat)
    BY <2>1, SubSeqType, LenProperties
  <2>3. in_buf' \in [Slots -> Seq(Nat)]
    BY <1>0, <1>12, <2>1, <2>2 DEF TypeOK, SendDone, SendBlocked, ShiftBuf
  <2> QED BY <1>0, <1>12, <2>3 DEF TypeOK, SendDone, SendBlocked, AfterBlocked
<1>13. CASE DrainDone
  <2>1. conn_fd[cur] \in Clients /\ reg[conn_fd[cur]] = cur /\ cur \in Slots
    BY <1>13, CurOpen DEF DrainDone, Handling
  <2> QED BY <1>0, <1>13, <2>1
          DEF TypeOK, DrainDone, Register, AfterDrain, EnterRecv
<1>14. CASE DrainBlocked
  BY <1>0, <1>14 DEF TypeOK, DrainBlocked, AfterDrain, EnterRecv
<1>15. CASE Rearm
  <2>1. conn_fd[cur] \in Clients /\ reg[conn_fd[cur]] = cur /\ cur \in Slots
    BY <1>15, CurOpen DEF Rearm, Handling
  <2> QED BY <1>0, <1>15, <2>1 DEF TypeOK, Rearm, Register, AfterClose
<1> QED BY <1>1, <1>2, <1>3, <1>4, <1>5, <1>6, <1>7, <1>8, <1>9, <1>10, <1>11,
           <1>12, <1>13, <1>14, <1>15 DEF Handle

LEMMA NextNumber ==
  ASSUME NEW a \in Nat, NEW b \in Nat \ {0}
  PROVE  a \div b + 1 \in Nat
<1>1. a \div b \in Nat OBVIOUS
<1> QED BY <1>1

LEMMA WakeType ==
  ASSUME NEW c \in Clients, ready \in [Clients -> BOOLEAN], NEW k, Wake(c, k)
  PROVE  ready' \in [Clients -> BOOLEAN]
  BY DEF Wake

LEMMA TypeEnvironment ==
  ASSUME IInv,
         \/ \E c \in Clients : ClientStep(c)
         \/ \E l \in LBs : LBStep(l)
  PROVE  TypeOK'
<1> USE DEF connVars, poolVars, threadVars, epollVars, clientVars, passVars
<1>0. TypeOK BY DEF IInv
<1>1. ASSUME NEW c \in Clients, Connect(c) PROVE TypeOK'
  BY <1>0, <1>1 DEF TypeOK, Connect
<1>2. ASSUME NEW c \in Clients, ClientSend(c) PROVE TypeOK'
  <2>1. sent[c] \div ReqParts[c] + 1 \in Nat
    BY <1>0, WorkerConstants, NextNumber DEF TypeOK
  <2>2. rx[c] \in Seq(Nat) /\ rx \in [Clients -> Seq(Nat)] BY <1>0 DEF TypeOK
  <2>3. Append(rx[c], sent[c] \div ReqParts[c] + 1) \in Seq(Nat)
    BY <2>1, <2>2, AppendProperties
  <2>4. rx' \in [Clients -> Seq(Nat)]
    BY <1>2, <2>2, <2>3 DEF ClientSend
  <2>5. ready' \in [Clients -> BOOLEAN]
    BY <1>0, <1>2, WakeType DEF TypeOK, ClientSend
  <2>6. sent' \in [Clients -> Nat] BY <1>0, <1>2 DEF TypeOK, ClientSend
  <2> QED BY <1>0, <1>2, <2>4, <2>5, <2>6 DEF TypeOK, ClientSend
<1>3. ASSUME NEW c \in Clients, ClientRead(c) PROVE TypeOK'
  <2>1. ready' \in [Clients -> BOOLEAN]
    BY <1>0, <1>3, WakeType DEF TypeOK, ClientRead
  <2>2. got' \in [Clients -> Nat]
    <3>1. got \in [Clients -> Nat] /\ got' = [got EXCEPT ![c] = @ + 1]
      BY <1>0, <1>3 DEF TypeOK, ClientRead
    <3> HIDE <1>0
    <3> QED BY <3>1
  <2> QED BY <1>0, <1>3, <2>1, <2>2 DEF TypeOK, ClientRead
<1>4. ASSUME NEW c \in Clients, ClientLeave(c) PROVE TypeOK'
  <2>1. PICK how \in {"fin", "rst"} : peer' = [peer EXCEPT ![c] = how]
    BY <1>4, WorkerConstants DEF ClientLeave
  <2>2. peer' \in [Clients -> {"up", "fin", "rst"}]
    BY <1>0, <2>1 DEF TypeOK
  <2> QED BY <1>0, <1>4, <2>2 DEF TypeOK, ClientLeave, Wake
<1>5. ASSUME NEW l \in LBs, LBConnect(l) \/ LBExit(l) PROVE TypeOK'
  BY <1>0, <1>5 DEF TypeOK, LBConnect, LBExit
<1>6. ASSUME NEW l \in LBs, NEW c \in Clients, LBPass(l, c) PROVE TypeOK'
  <2>1. PICK n : /\ n = IF Len(rx[c]) <= MAX_PREFIX THEN Len(rx[c]) ELSE MAX_PREFIX
                 /\ prefix' = [prefix EXCEPT ![c] = SubSeq(rx[c], 1, n)]
                 /\ rx' = [rx EXCEPT ![c] = SubSeq(@, n + 1, Len(@))]
    BY <1>6 DEF LBPass
  <2>2. rx[c] \in Seq(Nat) BY <1>0 DEF TypeOK
  <2>3. n \in Nat /\ n <= Len(rx[c]) BY <2>1, <2>2, LenProperties, WorkerConstants
  <2>4. SubSeq(rx[c], 1, n) \in Seq(Nat) /\ SubSeq(rx[c], n + 1, Len(rx[c])) \in Seq(Nat)
    BY <2>2, <2>3, SubSeqType, LenProperties
  <2>5. prefix' \in [Clients -> Seq(Nat)] /\ rx' \in [Clients -> Seq(Nat)]
    BY <1>0, <2>1, <2>4 DEF TypeOK
  <2>6. sock' \in [Clients -> {"none", "queued", "passed", "open", "closed"}]
        /\ via' \in [Clients -> LBs \cup {NoLB}]
    BY <1>0, <1>6 DEF TypeOK, LBPass
  <2> QED BY <1>0, <1>6, <2>5, <2>6 DEF TypeOK, LBPass
<1> QED BY <1>1, <1>2, <1>3, <1>4, <1>5, <1>6 DEF ClientStep, LBStep

LEMMA TypeStep == ASSUME IInv, Next PROVE TypeOK'
  BY TypeWait, TypeDispatch, TypeHandle, TypeEnvironment DEF Next, WorkerStep

-----------------------------------------------------------------------------
LEMMA InitIInv == ASSUME Init PROVE IInv
<1>1. TypeOK
  <2>1. [i \in Slots |-> MAX_CONNS - 1 - i] \in [Slots -> Slots]
    BY WorkerConstants DEF Slots
  <2>2. MAX_CONNS \in 0 .. MAX_CONNS BY WorkerConstants
  <2> QED BY <2>1, <2>2, EmptySeq, SlotFacts DEF Init, TypeOK
<1>2. IdleSlots = Slots BY DEF Init, IdleSlots
<1>3. PoolCount BY <1>2, SlotFacts DEF Init, PoolCount
<1>4. PoolIntegrity
  <2>1. \A i \in 0 .. free_count - 1 : i \in Slots /\ free_idx[i] = MAX_CONNS - 1 - i
    BY DEF Init, Slots
  <2>2. \A i, j \in 0 .. free_count - 1 : free_idx[i] = free_idx[j] => i = j
    BY <2>1, WorkerConstants DEF Slots
  <2>3. FreeSlots \subseteq Slots
    BY <2>1, WorkerConstants DEF FreeSlots, Slots
  <2>4. ASSUME NEW s \in Slots PROVE s \in FreeSlots
    <3>1. MAX_CONNS - 1 - s \in 0 .. free_count - 1
      BY WorkerConstants DEF Init, Slots
    <3>2. free_idx[MAX_CONNS - 1 - s] = s
      BY <2>1, <3>1, WorkerConstants DEF Slots
    <3> QED BY <3>1, <3>2 DEF FreeSlots
  <2> QED BY <1>2, <2>2, <2>3, <2>4 DEF PoolIntegrity, IdleSlots
<1>5. OneOwner BY WorkerConstants DEF Init, OneOwner
<1>6. BatchFresh /\ CtrlTaken /\ BatchKinds
  BY DEF Init, BatchFresh, CtrlTaken, BatchKinds, ClientEvents, Handling
<1> QED BY <1>1, <1>3, <1>4, <1>5, <1>6 DEF IInv

LEMMA StepIInv == IInv /\ [Next]_vars => IInv'
<1> SUFFICES ASSUME IInv, [Next]_vars PROVE IInv'
  OBVIOUS
<1>1. CASE Next
  <2>1. BatchFresh' /\ CtrlTaken' /\ BatchKinds'
    BY <1>1, BatchStep
       DEF EventsLive, CurLive, CtrlLive, CtrlBusy, BatchFresh, CtrlTaken
  <2> QED BY <1>1, <2>1, PoolStep, TypeStep DEF IInv
<1>2. CASE UNCHANGED vars
  <2> USE <1>2 DEF vars, connVars, poolVars, threadVars, epollVars, clientVars,
                   passVars
  <2>1. TypeOK' BY DEF IInv, TypeOK
  <2>2. PoolIntegrity' /\ PoolCount' /\ OneOwner'
    BY DEF IInv, PoolIntegrity, FreeSlots, PoolCount, IdleSlots, OneOwner
  <2>3. BatchFresh' /\ CtrlTaken' /\ BatchKinds'
    BY DEF IInv, BatchFresh, CtrlTaken, BatchKinds, ClientEvents, Handling,
           CtrlConnEvent, ListenEvent, CtrlAcceptEvent
  <2> QED BY <2>1, <2>2, <2>3 DEF IInv
<1> QED BY <1>1, <1>2

LEMMA InductiveInvariant == Spec => []IInv
<1>1. Init => IInv BY InitIInv
<1> QED BY <1>1, StepIInv, PTL DEF Spec

\* For every pool size, the worker's structures stay well-typed: the count of
\* free slots never leaves 0..MAX_CONNS, so closeConn never writes free_idx
\* out of bounds and addClientFd never reads below it.
THEOREM TypeCorrect == Spec => []TypeOK
<1>1. IInv => TypeOK BY DEF IInv
<1> QED BY <1>1, InductiveInvariant, PTL

\* For every pool size and any number of clients and load balancers, the free
\* stack holds exactly the unused slots, each once, although closeConn pushes
\* without checking.
THEOREM PoolCorrect == Spec => []PoolIntegrity
<1>1. IInv => PoolIntegrity BY DEF IInv
<1> QED BY <1>1, InductiveInvariant, PTL

\* A socket is held by one slot and registered under that slot's index exactly
\* while it is open: descriptors neither leak nor change hands.
THEOREM OwnerCorrect == Spec => []OneOwner
<1>1. IInv => OneOwner BY DEF IInv
<1> QED BY <1>1, InductiveInvariant, PTL

\* However handlers close and reuse slots, an event still waiting in the batch
\* is about the connection it was captured for.
THEOREM BatchCorrect == Spec => []BatchFresh
<1>1. IInv => BatchFresh BY DEF IInv
<1> QED BY <1>1, InductiveInvariant, PTL
-----------------------------------------------------------------------------
(***************************************************************************)
(* Arithmetic.                                                             *)
(***************************************************************************)
LEMMA QuotientOf ==
  ASSUME NEW b \in Nat \ {0}, NEW q \in Nat, NEW n \in 0 .. b - 1
  PROVE  (q * b + n) \div b = q /\ (q * b + n) % b = n
  OBVIOUS

LEMMA QuotientBounds ==
  ASSUME NEW a \in Nat, NEW b \in Nat \ {0}
  PROVE  /\ a \div b \in Nat
         /\ (a \div b) * b <= a /\ a < (a \div b) * b + b
         /\ a % b = a - (a \div b) * b
  OBVIOUS

LEMMA QuotientAtLeast ==
  ASSUME NEW a \in Nat, NEW b \in Nat \ {0}, NEW q \in Nat, q * b <= a
  PROVE  q <= a \div b
<1>1. a < (a \div b) * b + b /\ a \div b \in Nat BY QuotientBounds
<1> QED BY <1>1

LEMMA Multiples ==
  ASSUME NEW q \in Nat, NEW b \in Nat
  PROVE  /\ q * b \in Nat /\ (q + 1) * b = q * b + b
         /\ \A d \in Nat : q <= d => q * b <= d * b
  OBVIOUS

-----------------------------------------------------------------------------
(***************************************************************************)
(* Where a client's bytes are.                                             *)
(***************************************************************************)
AllAre(q, x) == \A i \in 1 .. Len(q) : q[i] = x

\* The request whose response is on its way is still at the head of in_buf.
Unshifted(s) == pc = "send" /\ cur = s /\ caller # "drain"

Unread(s) == IF Unshifted(s) THEN <<>> ELSE in_buf[s]

Waiting(c) == sock[c] \in {"none", "queued", "passed"}

\* A client no slot has held yet: at most its first request is under way.
Fresh(c) ==
  /\ stream[c] = <<>>
  /\ AllAre(prefix[c], 1) /\ AllAre(rx[c], 1)
  /\ Len(prefix[c]) + Len(rx[c]) <= sent[c] /\ sent[c] <= ReqParts[c]

Merited(c) == Len(stream[c]) <= RespParts * (sent[c] \div ReqParts[c])

ClientFlow(c) ==
  /\ Intact(c) /\ Merited(c)
  /\ got[c] <= Len(stream[c])
  /\ sent[c] <= MaxReq * ReqParts[c]
  /\ Waiting(c) => Fresh(c)

\* The stream of a slot's client ends where out_pos says, and the chunks that
\* are still unread belong to the one request that may follow.
Flow(s, c) ==
  LET q == out[s] IN
  /\ out_pos[s] <= OutLen(s)
  /\ Len(stream[c]) = IF q = 0 THEN 0 ELSE (q - 1) * RespParts + out_pos[s]
  /\ AllAre(Unread(s), q + 1) /\ AllAre(rx[c], q + 1)
  /\ q * ReqParts[c] + Len(Unread(s)) + Len(rx[c]) <= sent[c]
  /\ sent[c] <= q * ReqParts[c] + ReqParts[c]
  /\ sent[c] > q * ReqParts[c] => got[c] = q * RespParts
  /\ Unshifted(s) => q > 0 /\ Len(in_buf[s]) = ReqParts[c]

StreamInv ==
  /\ \A c \in Clients : ClientFlow(c)
  /\ \A s \in Slots, c \in Clients : conn_fd[s] = c => Flow(s, c)

\* A slot's client is open, registered with it and held by no other slot.
LEMMA OpenSlot ==
  ASSUME IInv, NEW s \in Slots, NEW c \in Clients, conn_fd[s] = c
  PROVE  /\ sock[c] = "open" /\ reg[c] = s /\ ~Waiting(c)
         /\ \A t \in Slots : conn_fd[t] = c => t = s
<1>1. c # NoFd BY WorkerConstants
<1>2. reg[c] = s /\ \A t \in Slots : conn_fd[t] = c => t = s
  BY <1>1 DEF IInv, OneOwner
<1>3. sock[c] = "open" BY <1>2, SlotFacts DEF IInv, OneOwner
<1> QED BY <1>2, <1>3 DEF Waiting

LEMMA FlowFrame ==
  ASSUME NEW s \in Slots, NEW c \in Clients, Flow(s, c),
         out'[s] = out[s], out_pos'[s] = out_pos[s], in_buf'[s] = in_buf[s],
         rx'[c] = rx[c], stream'[c] = stream[c], sent'[c] = sent[c],
         got'[c] = got[c], Unshifted(s)' <=> Unshifted(s)
  PROVE  Flow(s, c)'
<1>1. Unread(s)' = Unread(s) BY DEF Unread
<1>2. OutLen(s)' = OutLen(s) BY DEF OutLen
<1> QED BY <1>1, <1>2 DEF Flow, AllAre

LEMMA ClientFrame ==
  ASSUME NEW c \in Clients, ClientFlow(c),
         rx'[c] = rx[c], stream'[c] = stream[c], sent'[c] = sent[c],
         got'[c] = got[c],
         Waiting(c)' => Waiting(c) /\ prefix'[c] = prefix[c]
  PROVE  ClientFlow(c)'
<1>1. Intact(c)' /\ Merited(c)' BY DEF ClientFlow, Intact, Merited
<1>2. Waiting(c)' => Fresh(c)'
  <2>1. Waiting(c) => Fresh(c) BY DEF ClientFlow
  <2> QED BY <2>1 DEF Fresh, AllAre
<1> QED BY <1>1, <1>2 DEF ClientFlow

\* Steps that only let go of clients.
LEMMA StreamFrame ==
  ASSUME IInv, StreamInv, UNCHANGED <<rx, stream, sent, got>>,
         \A c \in Clients :
           Waiting(c)' => Waiting(c) /\ prefix'[c] = prefix[c],
         \A s \in Slots : conn_fd'[s] \in Clients =>
           /\ conn_fd'[s] = conn_fd[s] /\ in_buf'[s] = in_buf[s]
           /\ out'[s] = out[s] /\ out_pos'[s] = out_pos[s]
           /\ Unshifted(s)' <=> Unshifted(s)
  PROVE  StreamInv'
<1>1. ASSUME NEW c \in Clients PROVE ClientFlow(c)'
  BY ClientFrame DEF StreamInv
<1>2. ASSUME NEW s \in Slots, NEW c \in Clients, conn_fd'[s] = c
      PROVE  Flow(s, c)'
  <2>1. Flow(s, c) BY <1>2 DEF StreamInv
  <2> QED BY <1>2, <2>1, FlowFrame
<1> QED BY <1>1, <1>2 DEF StreamInv

\* Steps that concern one client and its slot.
LEMMA StreamOne ==
  ASSUME IInv, StreamInv, NEW s \in Slots, NEW c \in Clients, conn_fd[s] = c,
         UNCHANGED <<conn_fd, sock, prefix>>,
         \A t \in Slots : t # s =>
           /\ in_buf'[t] = in_buf[t] /\ out'[t] = out[t]
           /\ out_pos'[t] = out_pos[t] /\ (Unshifted(t)' <=> Unshifted(t)),
         \A d \in Clients : d # c =>
           /\ rx'[d] = rx[d] /\ stream'[d] = stream[d]
           /\ sent'[d] = sent[d] /\ got'[d] = got[d],
         Intact(c)', Merited(c)', (got[c] <= Len(stream[c]))',
         (sent[c] <= MaxReq * ReqParts[c])', Flow(s, c)'
  PROVE  StreamInv'
<1>1. ~Waiting(c)' /\ \A t \in Slots : conn_fd[t] = c => t = s
  BY OpenSlot DEF Waiting
<1>2. ASSUME NEW d \in Clients PROVE ClientFlow(d)'
  <2>1. CASE d = c BY <1>1, <2>1 DEF ClientFlow
  <2>2. CASE d # c
    <3>1. Waiting(d)' <=> Waiting(d) BY DEF Waiting
    <3> QED BY <2>2, <3>1, ClientFrame DEF StreamInv
  <2> QED BY <2>1, <2>2
<1>3. ASSUME NEW t \in Slots, NEW d \in Clients, conn_fd'[t] = d
      PROVE  Flow(t, d)'
  <2>1. CASE t = s BY <1>3, <2>1
  <2>2. CASE t # s
    <3>1. d # c /\ Flow(t, d) BY <1>1, <1>3, <2>2 DEF StreamInv
    <3> QED BY <2>2, <3>1, FlowFrame
  <2> QED BY <2>1, <2>2
<1> QED BY <1>2, <1>3 DEF StreamInv

LEMMA InitStream == ASSUME Init PROVE StreamInv
<1>1. ASSUME NEW c \in Clients PROVE ClientFlow(c)
  <2>1. /\ stream[c] = <<>> /\ rx[c] = <<>> /\ prefix[c] = <<>>
        /\ sent[c] = 0 /\ got[c] = 0
    BY DEF Init
  <2>2. Len(<<>>) = 0 /\ 1 .. 0 = {} OBVIOUS
  <2>3. MaxReq * ReqParts[c] \in Nat /\ ReqParts[c] \in Nat \ {0}
        /\ RespParts \in Nat
    BY WorkerConstants, Multiples
  <2>4. 0 <= RespParts * (0 \div ReqParts[c])
    BY <2>3, QuotientBounds
  <2> QED BY <2>1, <2>2, <2>3, <2>4
          DEF ClientFlow, Intact, Merited, Fresh, AllAre
<1>2. \A s \in Slots, c \in Clients : conn_fd[s] # c
  BY WorkerConstants DEF Init
<1> QED BY <1>1, <1>2 DEF StreamInv

-----------------------------------------------------------------------------
(***************************************************************************)
(* Steps that only let go of clients, or of nothing.                       *)
(***************************************************************************)
LEMMA QuietSteps ==
  ASSUME IInv, StreamInv,
         \/ Wait \/ DispatchListen \/ DispatchCtrlConn \/ DispatchOut
         \/ DispatchIn \/ AcceptDone \/ CtrlAgain \/ RecvAgain \/ ParseNone
         \/ DrainDone \/ DrainBlocked \/ Rearm
         \/ \E c \in Clients : ClientLeave(c)
         \/ \E l \in LBs : LBConnect(l) \/ LBExit(l)
  PROVE  StreamInv'
<1>1. /\ UNCHANGED <<connVars, sock, rx, stream, sent, got, prefix>>
      /\ (pc = "send" /\ caller # "drain")' <=> (pc = "send" /\ caller # "drain")
      /\ (pc = "send" /\ caller # "drain") => cur' = cur
  BY DEF Wait, DispatchListen, DispatchCtrlConn, DispatchOut, DispatchIn,
         AcceptDone, CtrlAgain, RecvAgain, ParseNone, DrainDone, DrainBlocked,
         Rearm, ClientLeave, LBConnect, LBExit, Take, AfterParse, AfterDrain,
         AfterClose, EnterRecv, SendStuck, connVars, clientVars, passVars,
         threadVars
<1>2. \A s \in Slots : Unshifted(s)' <=> Unshifted(s)
  BY <1>1 DEF Unshifted
<1> QED BY <1>1, <1>2, StreamFrame DEF connVars, Waiting

LEMMA LetGoSteps ==
  ASSUME IInv, StreamInv,
         AcceptCtrl \/ RejectCtrl \/ CtrlEof \/ \E c \in Clients : Connect(c)
  PROVE  StreamInv'
<1>1. sock \in [Clients -> {"none", "queued", "passed", "open", "closed"}]
  BY DEF IInv, TypeOK
<1>2. /\ UNCHANGED <<connVars, rx, stream, sent, got, prefix>>
      /\ \/ pc # "send" /\ pc' # "send"
         \/ UNCHANGED <<pc, cur, caller>>
  BY DEF AcceptCtrl, RejectCtrl, CtrlEof, Connect, Take, connVars, clientVars,
         passVars, threadVars
<1>3. \A c \in Clients : Waiting(c)' => Waiting(c)
  BY <1>1 DEF AcceptCtrl, RejectCtrl, CtrlEof, Connect, DropCtrl, Waiting, Passed
<1>4. \A s \in Slots : Unshifted(s)' <=> Unshifted(s)
  BY <1>2 DEF Unshifted
<1> QED BY <1>2, <1>3, <1>4, StreamFrame DEF connVars

\* closeConn: nothing of the other slots changes.
LEMMA CloseFrame ==
  ASSUME IInv, NEW s \in Slots, conn_fd[s] # NoFd, CloseConn(s)
  PROVE  /\ conn_fd'[s] = NoFd /\ sock'[conn_fd[s]] = "closed"
         /\ \A t \in Slots : t # s =>
              /\ conn_fd'[t] = conn_fd[t] /\ in_buf'[t] = in_buf[t]
              /\ out'[t] = out[t] /\ out_pos'[t] = out_pos[t]
         /\ \A c \in Clients : c # conn_fd[s] =>
              sock'[c] = sock[c] /\ reg'[c] = reg[c]
              /\ want_out'[c] = want_out[c] /\ ready'[c] = ready[c]
  BY DEF CloseConn, Unregister, IInv, TypeOK

LEMMA CloseSteps ==
  ASSUME IInv, StreamInv, DispatchHup \/ RecvNoRoom \/ RecvEnd \/ ParseBad
  PROVE  StreamInv'
<1>1. PICK s \in Slots :
        /\ conn_fd[s] # NoFd /\ CloseConn(s)
        /\ UNCHANGED <<cur, caller, clientVars, passVars, rx, stream>>
        /\ pc' # "send"
        /\ pc = "send" => FALSE
  <2>1. CASE DispatchHup
    <3>1. PICK e \in ClientEvents :
            /\ Take(e) /\ CloseConn(e.slot)
            /\ UNCHANGED <<pc, cur, caller, clientVars, passVars, rx, stream>>
      BY <2>1 DEF DispatchHup
    <3>2. e.slot \in Slots /\ conn_fd[e.slot] # NoFd
      BY <3>1 DEF IInv, TypeOK, BatchFresh, ClientEvents
    <3> QED BY <3>1, <3>2 DEF Take
  <2>2. CASE RecvNoRoom \/ RecvEnd \/ ParseBad
    <3>1. /\ Handling /\ CloseConn(cur) /\ pc' = AfterClose /\ pc # "send"
          /\ UNCHANGED <<cur, caller, clientVars, passVars, rx, stream>>
      BY <2>2 DEF RecvNoRoom, RecvEnd, ParseBad, CloseCur, Handling
    <3> QED BY <3>1, CurOpen DEF AfterClose
  <2> QED BY <2>1, <2>2
<1>2. conn_fd[s] \in Clients BY <1>1 DEF IInv, TypeOK
<1>3. \A c \in Clients : Waiting(c)' => Waiting(c)
  BY <1>1, CloseFrame DEF Waiting
<1>4. \A t \in Slots : conn_fd'[t] \in Clients => t # s
  BY <1>1, CloseFrame, WorkerConstants
<1>5. \A t \in Slots : Unshifted(t)' <=> Unshifted(t)
  BY <1>1 DEF Unshifted
<1> QED BY <1>1, <1>3, <1>4, <1>5, CloseFrame, StreamFrame
        DEF clientVars, passVars

LEMMA TurnAwayFrame ==
  ASSUME IInv, NEW c \in Clients, RefuseClient(c) \/ AddFails(c), sock[c] # "open"
  PROVE  /\ sock' = [sock EXCEPT ![c] = "closed"]
         /\ UNCHANGED <<conn_fd, reg, want_out, ready>>
         /\ \A s \in Slots : conn_fd[s] # NoFd =>
              /\ in_buf'[s] = in_buf[s] /\ out'[s] = out[s]
              /\ out_pos'[s] = out_pos[s]
<1>1. UNCHANGED <<conn_fd, reg, want_out, ready>> BY TurnAwayPool
<1>2. CASE RefuseClient(c) BY <1>1, <1>2 DEF RefuseClient, connVars
<1>3. CASE AddFails(c)
  <2>1. /\ free_count \in 0 .. MAX_CONNS /\ free_count > 0
        /\ free_idx \in [Slots -> Slots]
        /\ conn_fd \in [Slots -> Clients \cup {NoFd}]
    BY <1>3 DEF IInv, TypeOK, AddFails
  <2>2. free_count - 1 \in Slots /\ free_count - 1 \in 0 .. free_count - 1
    BY <2>1, WorkerConstants DEF Slots
  <2>3. TopSlot \in Slots /\ conn_fd[TopSlot] = NoFd
    BY <2>1, <2>2 DEF TopSlot, IInv, PoolIntegrity, FreeSlots
  <2> QED BY <1>1, <1>3, <2>3 DEF AddFails, IInv, TypeOK
<1> QED BY <1>2, <1>3

LEMMA AdoptFrame ==
  ASSUME IInv, NEW c \in Clients, NEW bytes, AdoptClient(c, bytes), sock[c] # "open"
  PROVE  /\ TopSlot \in Slots /\ conn_fd[TopSlot] = NoFd
         /\ conn_fd' = [conn_fd EXCEPT ![TopSlot] = c] /\ conn_fd'[TopSlot] = c
         /\ sock' = [sock EXCEPT ![c] = "open"]
         /\ in_buf'[TopSlot] = BufferedPrefix(bytes)
         /\ out'[TopSlot] = 0 /\ out_pos'[TopSlot] = 0
         /\ Register(c, TopSlot, FALSE)
         /\ \A t \in Slots : t # TopSlot =>
              /\ conn_fd'[t] = conn_fd[t] /\ in_buf'[t] = in_buf[t]
              /\ out'[t] = out[t] /\ out_pos'[t] = out_pos[t]
<1>1. TopSlot \in Slots /\ conn_fd[TopSlot] = NoFd BY AdoptClientPool
<1> QED BY <1>1 DEF AdoptClient, IInv, TypeOK

LEMMA PrefixCut ==
  ASSUME NEW bytes \in Seq(Nat)
  PROVE  /\ BufferedPrefix(bytes) \in Seq(Nat)
         /\ Len(BufferedPrefix(bytes)) <= Len(bytes)
         /\ \A i \in 1 .. Len(BufferedPrefix(bytes)) :
              i \in 1 .. Len(bytes) /\ BufferedPrefix(bytes)[i] = bytes[i]
         /\ bytes = <<>> => BufferedPrefix(bytes) = <<>>
         /\ Len(BufferedPrefix(bytes)) <= BUF_SIZE
<1>1. Len(bytes) \in Nat /\ BUF_SIZE \in Nat \ {0}
  BY WorkerConstants, LenProperties
<1>2. CASE Len(bytes) <= BUF_SIZE BY <1>1, <1>2 DEF BufferedPrefix
<1>3. CASE Len(bytes) > BUF_SIZE
  <2>1. \A i \in 1 .. BUF_SIZE : bytes[i] \in Nat BY <1>1, <1>3, ElementOfSeq
  <2>2. 1 \in Int /\ BUF_SIZE \in Int BY <1>1
  <2>3. /\ SubSeq(bytes, 1, BUF_SIZE) \in Seq(Nat)
        /\ Len(SubSeq(bytes, 1, BUF_SIZE)) = BUF_SIZE
        /\ \A i \in 1 .. BUF_SIZE : SubSeq(bytes, 1, BUF_SIZE)[i] = bytes[i]
    BY <1>1, <2>1, <2>2, SubSeqProperties
  <2> QED BY <1>1, <1>3, <2>3 DEF BufferedPrefix
<1> QED BY <1>1, <1>2, <1>3

-----------------------------------------------------------------------------
(***************************************************************************)
(* Clients, load balancers, and the adoption of a client.                  *)
(***************************************************************************)

\* Steps that concern one client no slot holds.
LEMMA StreamAside ==
  ASSUME IInv, StreamInv, NEW c \in Clients, \A s \in Slots : conn_fd[s] # c,
         UNCHANGED <<conn_fd, in_buf, out, out_pos>>,
         \A s \in Slots : Unshifted(s)' <=> Unshifted(s),
         \A d \in Clients : d # c =>
           /\ rx'[d] = rx[d] /\ stream'[d] = stream[d]
           /\ sent'[d] = sent[d] /\ got'[d] = got[d]
           /\ sock'[d] = sock[d] /\ prefix'[d] = prefix[d],
         ClientFlow(c)'
  PROVE  StreamInv'
<1>1. ASSUME NEW d \in Clients PROVE ClientFlow(d)'
  <2>1. CASE d # c
    <3>1. Waiting(d)' <=> Waiting(d) BY <2>1 DEF Waiting
    <3> QED BY <2>1, <3>1, ClientFrame DEF StreamInv
  <2> QED BY <2>1
<1>2. ASSUME NEW s \in Slots, NEW d \in Clients, conn_fd'[s] = d
      PROVE  Flow(s, d)'
  <2>1. d # c /\ Flow(s, d) BY <1>2 DEF StreamInv
  <2> QED BY <2>1, FlowFrame
<1> QED BY <1>1, <1>2 DEF StreamInv

\* No client is further than the responses the slot has begun.
LEMMA FlowLength ==
  ASSUME IInv, NEW s \in Slots, NEW c \in Clients, Flow(s, c)
  PROVE  /\ out[s] \in Nat /\ Len(stream[c]) <= out[s] * RespParts
         /\ out[s] * ReqParts[c] <= sent[c]
         /\ Len(in_buf[s]) \in Nat /\ Len(rx[c]) \in Nat
         /\ sent[c] \in Nat /\ got[c] \in Nat /\ Len(stream[c]) \in Nat
<1> DEFINE q == out[s]
           P == RespParts
<1>1. q \in Nat /\ P \in Nat \ {0} /\ ReqParts[c] \in Nat \ {0}
      /\ out_pos[s] \in Nat /\ sent[c] \in Nat /\ got[c] \in Nat
      /\ in_buf[s] \in Seq(Nat) /\ rx[c] \in Seq(Nat)
      /\ stream[c] \in Seq(Nat \X Nat)
  BY WorkerConstants DEF IInv, TypeOK
<1>2. Len(in_buf[s]) \in Nat /\ Len(rx[c]) \in Nat /\ Len(stream[c]) \in Nat
      /\ Len(Unread(s)) \in Nat
  BY <1>1, LenProperties, EmptySeq DEF Unread
<1>3. q * ReqParts[c] \in Nat BY <1>1, Multiples
<1>4. q * ReqParts[c] <= sent[c] BY <1>1, <1>2, <1>3 DEF Flow
<1>5. Len(stream[c]) <= q * P
  <2>1. CASE q = 0 BY <1>1, <2>1 DEF Flow
  <2>2. CASE q # 0
    <3>1. q - 1 \in Nat BY <1>1, <2>2
    <3>2. (q - 1 + 1) * P = (q - 1) * P + P BY <1>1, <3>1, Multiples
    <3>3. Len(stream[c]) = (q - 1) * P + out_pos[s] /\ out_pos[s] <= P
      BY <2>2 DEF Flow, OutLen
    <3> QED BY <1>1, <3>1, <3>2, <3>3
  <2> QED BY <2>1, <2>2
<1> QED BY <1>1, <1>2, <1>4, <1>5

\* A client that waits for each answer has room to send: of the request that
\* follows the answers it has, a chunk is missing.
LEMMA SendRoom ==
  ASSUME ~Pipelining, NEW c \in Clients, MayBegin(c), NEW q \in Nat,
         sent[c] \in Nat, got[c] \in Nat,
         q * ReqParts[c] <= sent[c], sent[c] <= q * ReqParts[c] + ReqParts[c],
         sent[c] > q * ReqParts[c] => got[c] = q * RespParts
  PROVE  /\ sent[c] < q * ReqParts[c] + ReqParts[c]
         /\ sent[c] \div ReqParts[c] = q
         /\ got[c] = q * RespParts
<1> DEFINE R == ReqParts[c]
           P == RespParts
           m == q * R
<1>1. R \in Nat \ {0} /\ P \in Nat \ {0} BY WorkerConstants
<1>2. m \in Nat /\ (q + 1) * R = m + R /\ (q + 1) * P = q * P + P
      /\ q * P \in Nat
  BY <1>1, Multiples
<1>3. sent[c] # m + R
  <2>1. SUFFICES ASSUME sent[c] = m + R PROVE FALSE OBVIOUS
  <2>2. ((q + 1) * R + 0) \div R = q + 1 /\ ((q + 1) * R + 0) % R = 0
    <3>1. q + 1 \in Nat /\ 0 \in 0 .. R - 1 BY <1>1
    <3> QED BY <1>1, <3>1, QuotientOf
  <2>3. (q + 1) * R + 0 = sent[c] BY <1>1, <1>2, <2>1
  <2>4. got[c] = (q + 1) * P BY <2>2, <2>3 DEF MayBegin
  <2>5. got[c] = q * P BY <1>1, <1>2, <2>1
  <2> QED BY <1>1, <1>2, <2>4, <2>5
<1>4. sent[c] - m \in 0 .. R - 1 BY <1>1, <1>2, <1>3
<1>5. m + (sent[c] - m) = sent[c] BY <1>2
<1>6. sent[c] \div R = q /\ sent[c] % R = sent[c] - m
  BY <1>1, <1>4, <1>5, QuotientOf
<1>7. got[c] = q * P
  <2>1. CASE sent[c] = m BY <1>2, <1>6, <2>1 DEF MayBegin
  <2>2. CASE sent[c] # m BY <1>2, <1>4, <2>2
  <2> QED BY <2>1, <2>2
<1> QED BY <1>1, <1>2, <1>4, <1>6, <1>7

\* A client that sends on earns no less.
LEMMA MeritedGrows ==
  ASSUME NEW c \in Clients, sent[c] \in Nat, Merited(c), Len(stream[c]) \in Nat,
         sent'[c] = sent[c] + 1, stream'[c] = stream[c]
  PROVE  Merited(c)'
<1> DEFINE R == ReqParts[c]
           d == sent[c] \div R
           e == (sent[c] + 1) \div R
<1>1. R \in Nat \ {0} /\ RespParts \in Nat BY WorkerConstants
<1>2. d \in Nat /\ d * R <= sent[c] BY <1>1, QuotientBounds
<1>3. sent[c] + 1 \in Nat /\ e \in Nat
  <2>1. sent[c] + 1 \in Nat OBVIOUS
  <2> QED BY <1>1, <2>1, QuotientBounds
<1>4. d <= e
  <2>1. d * R <= sent[c] + 1 BY <1>1, <1>2, Multiples
  <2> QED BY <1>1, <1>2, <2>1, QuotientAtLeast
<1>5. d * RespParts <= e * RespParts BY <1>1, <1>2, <1>3, <1>4, Multiples
<1>6. Len(stream[c]) <= RespParts * d BY DEF Merited
<1> HIDE DEF d, e
<1>7. Len(stream[c]) <= RespParts * e BY <1>1, <1>2, <1>3, <1>5, <1>6
<1> QED BY <1>7 DEF Merited, e

LEMMA ClientSendStream ==
  ASSUME IInv, StreamInv, ~Pipelining, NEW c \in Clients, ClientSend(c)
  PROVE  StreamInv'
<1> DEFINE R == ReqParts[c]
           x == sent[c] \div R + 1
<1>1. /\ sock[c] \notin {"none", "closed"} /\ sent[c] < MaxReq * R /\ MayBegin(c)
      /\ sent' = [sent EXCEPT ![c] = @ + 1] /\ rx' = [rx EXCEPT ![c] = Append(@, x)]
      /\ UNCHANGED <<connVars, pc, cur, caller, got, stream, sock, prefix>>
  BY DEF ClientSend, threadVars, passVars
<1>2. /\ sent[c] \in Nat /\ got[c] \in Nat /\ rx[c] \in Seq(Nat)
      /\ stream[c] \in Seq(Nat \X Nat) /\ prefix[c] \in Seq(Nat)
      /\ R \in Nat \ {0} /\ MaxReq \in Nat
      /\ sent \in [Clients -> Nat] /\ rx \in [Clients -> Seq(Nat)]
  BY WorkerConstants DEF IInv, TypeOK
<1>3. /\ sent'[c] = sent[c] + 1 /\ rx'[c] = Append(rx[c], x)
      /\ \A d \in Clients : d # c => sent'[d] = sent[d] /\ rx'[d] = rx[d]
  BY <1>1, <1>2
<1>4. /\ Len(rx[c]) \in Nat /\ Len(stream[c]) \in Nat /\ Len(prefix[c]) \in Nat
      /\ x \in Nat
  BY <1>2, LenProperties, NextNumber
<1>5. /\ Len(rx'[c]) = Len(rx[c]) + 1
      /\ \A i \in 1 .. Len(rx[c]) : rx'[c][i] = rx[c][i]
      /\ rx'[c][Len(rx[c]) + 1] = x
  BY <1>2, <1>3, <1>4, AppendProperties
<1>6. ASSUME AllAre(rx[c], x) PROVE AllAre(rx'[c], x)
  <2>1. \A i \in 1 .. Len(rx'[c]) : i \in 1 .. Len(rx[c]) \/ i = Len(rx[c]) + 1
    BY <1>4, <1>5
  <2>2. \A i \in 1 .. Len(rx'[c]) : rx'[c][i] = x
    BY <1>5, <1>6, <2>1 DEF AllAre
  <2> QED BY <2>2 DEF AllAre
<1>7. /\ Intact(c)' /\ Merited(c)' /\ (got[c] <= Len(stream[c]))'
      /\ (sent[c] <= MaxReq * ReqParts[c])'
  <2>1. ClientFlow(c) BY DEF StreamInv
  <2>2. Merited(c)' BY <1>1, <1>2, <1>3, <1>4, <2>1, MeritedGrows DEF ClientFlow
  <2>3. MaxReq * R \in Nat BY <1>2, Multiples
  <2> QED BY <1>1, <1>2, <1>3, <2>1, <2>2, <2>3 DEF ClientFlow, Intact
<1>8. \A s \in Slots : Unshifted(s)' <=> Unshifted(s)
  BY <1>1 DEF Unshifted
<1>9. CASE Waiting(c)
  <2>1. ClientFlow(c) /\ Fresh(c) BY <1>9 DEF StreamInv, ClientFlow
  <2>2. got[c] = 0 BY <1>2, <2>1, EmptySeq DEF ClientFlow, Fresh
  <2>3. 0 * R = 0 /\ 0 * RespParts = 0 BY <1>2, WorkerConstants
  <2>4. sent[c] < R /\ x = 1
    <3>1. /\ 0 \in Nat /\ 0 * ReqParts[c] <= sent[c]
          /\ sent[c] <= 0 * ReqParts[c] + ReqParts[c]
          /\ sent[c] > 0 * ReqParts[c] => got[c] = 0 * RespParts
      BY <1>2, <2>1, <2>2, <2>3 DEF Fresh
    <3>2. sent[c] < 0 * R + R /\ sent[c] \div R = 0
      BY <1>1, <1>2, <3>1, SendRoom
    <3> QED BY <1>2, <2>3, <3>2
  <2>5. Fresh(c)'
    <3>2. AllAre(rx'[c], 1) BY <1>6, <2>1, <2>4 DEF Fresh
    <3>3. AllAre(prefix'[c], 1) /\ stream'[c] = <<>>
      BY <1>1, <2>1 DEF Fresh
    <3>4. Len(prefix'[c]) + Len(rx'[c]) <= sent'[c]
      <4>1. Len(prefix[c]) + Len(rx[c]) <= sent[c] BY <2>1 DEF Fresh
      <4>2. prefix'[c] = prefix[c] BY <1>1
      <4>3. /\ Len(prefix'[c]) = Len(prefix[c])
            /\ Len(rx'[c]) = Len(rx[c]) + 1 /\ sent'[c] = sent[c] + 1
        BY <1>3, <1>5, <4>2
      <4>4. /\ Len(prefix[c]) \in Nat /\ Len(rx[c]) \in Nat /\ sent[c] \in Nat
        BY <1>2, <1>4
      <4>5. \A i, j, k \in Nat : i + j <= k => i + (j + 1) <= k + 1 OBVIOUS
      <4> QED BY <4>1, <4>3, <4>4, <4>5
    <3>5. sent'[c] <= ReqParts[c] BY <1>2, <1>3, <2>4
    <3> QED BY <3>2, <3>3, <3>4, <3>5 DEF Fresh, AllAre
  <2>6. \A s \in Slots : conn_fd[s] # c BY <1>9, OpenSlot
  <2> QED BY <1>1, <1>3, <1>7, <1>8, <2>5, <2>6, StreamAside
          DEF ClientFlow, connVars
<1>10. CASE ~Waiting(c)
  <2>1. sock[c] = "open" BY <1>1, <1>10 DEF Waiting, IInv, TypeOK
  <2>2. PICK s \in Slots : conn_fd[s] = c
    <3>1. reg[c] # NoSlot /\ conn_fd[reg[c]] = c BY <2>1 DEF IInv, OneOwner
    <3>2. reg[c] \in Slots BY <3>1 DEF IInv, TypeOK
    <3> QED BY <3>1, <3>2
  <2>3. Flow(s, c) BY <2>2 DEF StreamInv
  <2> DEFINE q == out[s]
  <2>4. /\ q \in Nat /\ q * R <= sent[c] /\ sent[c] <= q * R + R
        /\ sent[c] > q * R => got[c] = q * RespParts
    BY <2>3, FlowLength DEF Flow
  <2>5. sent[c] < q * R + R /\ x = q + 1 /\ got[c] = q * RespParts
    BY <1>1, <1>2, <2>4, SendRoom
  <2>6. Unread(s)' = Unread(s) /\ (Unshifted(s)' <=> Unshifted(s))
        /\ OutLen(s)' = OutLen(s)
    BY <1>1, <1>8 DEF Unread, connVars, OutLen
  <2>7. Len(Unread(s)) \in Nat /\ q * R \in Nat
    <3>1. in_buf[s] \in Seq(Nat) BY DEF IInv, TypeOK
    <3> QED BY <1>2, <2>4, <3>1, LenProperties, EmptySeq, Multiples DEF Unread
  <2>8. Flow(s, c)'
    <3>1. AllAre(rx'[c], q + 1) BY <1>6, <2>3, <2>5 DEF Flow
    <3>2. q * R + Len(Unread(s)) + Len(rx'[c]) <= sent'[c]
      BY <1>2, <1>3, <1>4, <1>5, <2>3, <2>7 DEF Flow
    <3>3. sent'[c] <= q * R + R BY <1>2, <1>3, <2>5, <2>7
    <3> QED BY <1>1, <2>3, <2>5, <2>6, <3>1, <3>2, <3>3
            DEF Flow, connVars, AllAre
  <2> QED BY <1>1, <1>3, <1>7, <1>8, <2>2, <2>8, StreamOne DEF connVars
<1> QED BY <1>9, <1>10

LEMMA ClientReadStream ==
  ASSUME IInv, StreamInv, NEW c \in Clients, ClientRead(c)
  PROVE  StreamInv'
<1>1. /\ got[c] < Len(stream[c]) /\ got' = [got EXCEPT ![c] = @ + 1]
      /\ UNCHANGED <<connVars, pc, cur, caller, sent, rx, stream, sock, prefix>>
  BY DEF ClientRead, threadVars, passVars
<1>2. got \in [Clients -> Nat] /\ got[c] \in Nat /\ stream[c] \in Seq(Nat \X Nat)
      /\ Len(stream[c]) \in Nat
  BY LenProperties DEF IInv, TypeOK
<1>3. got'[c] = got[c] + 1 /\ \A d \in Clients : d # c => got'[d] = got[d]
  BY <1>1, <1>2
<1>4. ClientFlow(c) /\ ~(Waiting(c) /\ stream[c] # <<>>)
  BY DEF StreamInv, ClientFlow, Fresh
<1>5. ~Waiting(c) BY <1>1, <1>2, <1>4, EmptySeq
<1>6. /\ Intact(c)' /\ Merited(c)' /\ (got[c] <= Len(stream[c]))'
      /\ (sent[c] <= MaxReq * ReqParts[c])' /\ ~Waiting(c)'
  BY <1>1, <1>2, <1>3, <1>4, <1>5
     DEF ClientFlow, Intact, Merited, Waiting
<1>7. \A s \in Slots : Unshifted(s)' <=> Unshifted(s)
  BY <1>1 DEF Unshifted
<1>8. CASE \E s \in Slots : conn_fd[s] = c
  <2>1. PICK s \in Slots : conn_fd[s] = c BY <1>8
  <2>2. Flow(s, c) BY <2>1 DEF StreamInv
  <2>3. ~(sent[c] > out[s] * ReqParts[c])
    <3>1. Len(stream[c]) <= out[s] * RespParts /\ out[s] * RespParts \in Nat
      BY <2>2, FlowLength, Multiples, WorkerConstants
    <3> QED BY <1>1, <1>2, <2>2, <3>1 DEF Flow
  <2>4. Unread(s)' = Unread(s) /\ OutLen(s)' = OutLen(s)
    BY <1>1, <1>7 DEF Unread, OutLen, connVars
  <2>5. Flow(s, c)'
    BY <1>1, <1>7, <2>2, <2>3, <2>4 DEF Flow, AllAre, connVars
  <2> QED BY <1>1, <1>3, <1>6, <1>7, <2>1, <2>5, StreamOne DEF connVars
<1>9. CASE \A s \in Slots : conn_fd[s] # c
  BY <1>1, <1>3, <1>6, <1>7, <1>9, StreamAside DEF ClientFlow, connVars
<1> QED BY <1>8, <1>9

\* A sequence cut in two.
LEMMA CutInTwo ==
  ASSUME NEW q \in Seq(Nat), NEW n \in 0 .. Len(q)
  PROVE  /\ SubSeq(q, 1, n) \in Seq(Nat) /\ SubSeq(q, n + 1, Len(q)) \in Seq(Nat)
         /\ Len(SubSeq(q, 1, n)) = n
         /\ Len(SubSeq(q, n + 1, Len(q))) = Len(q) - n
         /\ \A x : AllAre(q, x) => /\ AllAre(SubSeq(q, 1, n), x)
                                   /\ AllAre(SubSeq(q, n + 1, Len(q)), x)
<1>1. Len(q) \in Nat /\ n \in Int /\ n + 1 \in Int /\ 1 \in Int BY LenProperties
<1>2. \A i \in 1 .. n : q[i] \in Nat BY <1>1, ElementOfSeq
<1>3. \A i \in n + 1 .. Len(q) : q[i] \in Nat BY <1>1, ElementOfSeq
<1>4. /\ SubSeq(q, 1, n) \in Seq(Nat)
      /\ Len(SubSeq(q, 1, n)) = IF 1 <= n THEN n - 1 + 1 ELSE 0
      /\ \A i \in 1 .. n - 1 + 1 : SubSeq(q, 1, n)[i] = q[1 + i - 1]
  BY <1>1, <1>2, SubSeqProperties
<1>5. /\ SubSeq(q, n + 1, Len(q)) \in Seq(Nat)
      /\ Len(SubSeq(q, n + 1, Len(q))) =
           IF n + 1 <= Len(q) THEN Len(q) - (n + 1) + 1 ELSE 0
      /\ \A i \in 1 .. Len(q) - (n + 1) + 1 :
           SubSeq(q, n + 1, Len(q))[i] = q[n + 1 + i - 1]
  BY <1>1, <1>3, SubSeqProperties
<1>6. Len(SubSeq(q, 1, n)) = n /\ Len(SubSeq(q, n + 1, Len(q))) = Len(q) - n
  BY <1>1, <1>4, <1>5
<1>7. ASSUME NEW x, AllAre(q, x)
      PROVE  AllAre(SubSeq(q, 1, n), x) /\ AllAre(SubSeq(q, n + 1, Len(q)), x)
  <2>1. \A i \in 1 .. n : SubSeq(q, 1, n)[i] = x
    BY <1>1, <1>4, <1>7 DEF AllAre
  <2>2. \A i \in 1 .. Len(q) - n : SubSeq(q, n + 1, Len(q))[i] = x
    BY <1>1, <1>5, <1>7 DEF AllAre
  <2> QED BY <1>6, <2>1, <2>2 DEF AllAre
<1> QED BY <1>4, <1>5, <1>6, <1>7

LEMMA LBPassStream ==
  ASSUME IInv, StreamInv, NEW l \in LBs, NEW c \in Clients, LBPass(l, c)
  PROVE  StreamInv'
<1>1. PICK n : /\ n = IF Len(rx[c]) <= MAX_PREFIX THEN Len(rx[c]) ELSE MAX_PREFIX
               /\ prefix' = [prefix EXCEPT ![c] = SubSeq(rx[c], 1, n)]
               /\ rx' = [rx EXCEPT ![c] = SubSeq(@, n + 1, Len(@))]
  BY DEF LBPass
<1>2. /\ sock[c] = "queued" /\ sock' = [sock EXCEPT ![c] = "passed"]
      /\ UNCHANGED <<connVars, pc, cur, caller, sent, got, stream>>
  BY DEF LBPass, threadVars, clientVars
<1>3. /\ rx \in [Clients -> Seq(Nat)] /\ prefix \in [Clients -> Seq(Nat)]
      /\ sock \in [Clients -> {"none", "queued", "passed", "open", "closed"}]
      /\ rx[c] \in Seq(Nat) /\ prefix[c] \in Seq(Nat) /\ sent[c] \in Nat
  BY DEF IInv, TypeOK
<1>4. n \in 0 .. Len(rx[c])
  BY <1>1, <1>3, LenProperties, WorkerConstants
<1>5. ClientFlow(c) /\ Fresh(c) BY <1>2 DEF StreamInv, ClientFlow, Waiting
<1>6. prefix'[c] = SubSeq(rx[c], 1, n) /\ rx'[c] = SubSeq(rx[c], n + 1, Len(rx[c]))
  BY <1>1, <1>3
<1>7. Fresh(c)'
  <2>1. AllAre(rx'[c], 1) /\ AllAre(prefix'[c], 1)
    BY <1>3, <1>4, <1>5, <1>6, CutInTwo DEF Fresh
  <2>2. Len(prefix'[c]) + Len(rx'[c]) = Len(rx[c])
    <3>1. Len(prefix'[c]) = n /\ Len(rx'[c]) = Len(rx[c]) - n
      BY <1>3, <1>4, <1>6, CutInTwo
    <3>2. Len(rx[c]) \in Nat BY <1>3, LenProperties
    <3> QED BY <1>4, <3>1, <3>2
  <2>3. Len(rx[c]) <= sent[c]
    BY <1>3, <1>5, LenProperties DEF Fresh
  <2> QED BY <1>2, <1>5, <2>1, <2>2, <2>3 DEF Fresh, AllAre
<1>8. ClientFlow(c)' BY <1>2, <1>5, <1>7 DEF ClientFlow, Intact, Merited
<1>9. \A s \in Slots : conn_fd[s] # c BY <1>2, OpenSlot
<1>10. \A s \in Slots : Unshifted(s)' <=> Unshifted(s) BY <1>2 DEF Unshifted
<1>11. \A d \in Clients : d # c =>
         rx'[d] = rx[d] /\ prefix'[d] = prefix[d] /\ sock'[d] = sock[d]
  BY <1>1, <1>2, <1>3
<1> QED BY <1>2, <1>8, <1>9, <1>10, <1>11, StreamAside DEF connVars

\* addClientFd with bytes of the client's first request.
LEMMA AdoptStream ==
  ASSUME IInv, StreamInv, NEW c \in Clients, Waiting(c), NEW bytes \in Seq(Nat),
         AllAre(bytes, 1), Len(bytes) + Len(rx[c]) <= sent[c],
         AdoptClient(c, bytes), UNCHANGED <<rx, stream, sent, got>>,
         \A d \in Clients : d # c => prefix'[d] = prefix[d],
         pc # "send", pc' # "send"
  PROVE  StreamInv'
<1>1. sock[c] # "open" BY DEF Waiting
<1>2. PICK s \in Slots :
      /\ conn_fd[s] = NoFd /\ conn_fd'[s] = c
      /\ sock' = [sock EXCEPT ![c] = "open"]
      /\ in_buf'[s] = BufferedPrefix(bytes) /\ out'[s] = 0 /\ out_pos'[s] = 0
      /\ \A t \in Slots : t # s =>
           /\ conn_fd'[t] = conn_fd[t] /\ in_buf'[t] = in_buf[t]
           /\ out'[t] = out[t] /\ out_pos'[t] = out_pos[t]
  <2>1. /\ TopSlot \in Slots
        /\ conn_fd[TopSlot] = NoFd /\ conn_fd'[TopSlot] = c
        /\ sock' = [sock EXCEPT ![c] = "open"]
        /\ in_buf'[TopSlot] = BufferedPrefix(bytes)
        /\ out'[TopSlot] = 0 /\ out_pos'[TopSlot] = 0
    BY <1>1, AdoptFrame
  <2>2. \A t \in Slots : t # TopSlot =>
          /\ conn_fd'[t] = conn_fd[t] /\ in_buf'[t] = in_buf[t]
          /\ out'[t] = out[t] /\ out_pos'[t] = out_pos[t]
    BY <1>1, AdoptFrame
  <2>3. PICK s : s = TopSlot OBVIOUS
  <2> QED BY <2>1, <2>2, <2>3
<1>3. /\ rx[c] \in Seq(Nat) /\ sent[c] \in Nat /\ got[c] \in Nat
      /\ Len(rx[c]) \in Nat /\ Len(bytes) \in Nat
      /\ ReqParts[c] \in Nat \ {0} /\ RespParts \in Nat
      /\ sock \in [Clients -> {"none", "queued", "passed", "open", "closed"}]
  BY WorkerConstants, LenProperties DEF IInv, TypeOK
<1>4. ClientFlow(c) /\ Fresh(c) /\ got[c] = 0
  <2>1. ClientFlow(c) /\ Fresh(c) BY DEF StreamInv, ClientFlow
  <2>2. Len(stream[c]) = 0 /\ got[c] <= Len(stream[c])
    BY <2>1, EmptySeq DEF ClientFlow, Fresh
  <2> QED BY <1>3, <2>1, <2>2
<1>5. ASSUME NEW d \in Clients PROVE ClientFlow(d)'
  <2>1. ClientFlow(d) BY DEF StreamInv
  <2>2. Waiting(d)' => Waiting(d) /\ prefix'[d] = prefix[d]
    BY <1>2, <1>3 DEF Waiting
  <2> QED BY <2>1, <2>2, ClientFrame
<1>6. \A t \in Slots : ~Unshifted(t) /\ ~Unshifted(t)' BY DEF Unshifted
<1>7. Flow(s, c)'
  <2>1. AllAre(BufferedPrefix(bytes), 1) /\ Len(BufferedPrefix(bytes)) <= Len(bytes)
        /\ Len(BufferedPrefix(bytes)) \in Nat
    BY PrefixCut, LenProperties DEF AllAre
  <2>2. Unread(s)' = BufferedPrefix(bytes) /\ OutLen(s)' = 0
    BY <1>2, <1>6 DEF Unread, OutLen
  <2>3. 0 * ReqParts[c] = 0 /\ 0 * RespParts = 0 /\ 0 + 1 = 1 /\ Len(<<>>) = 0
    BY <1>3
  <2>4. Len(stream'[c]) = 0 /\ AllAre(rx'[c], 1) /\ sent[c] <= ReqParts[c]
    BY <1>4, <2>3 DEF Fresh
  <2>5. Len(Unread(s)') + Len(rx'[c]) <= sent'[c]
    BY <1>3, <2>1, <2>2
  <2>6. (out_pos[s] <= OutLen(s))' BY <1>2, <2>2
  <2>7. AllAre(Unread(s)', 1) BY <2>1, <2>2
  <2> QED BY <1>2, <1>3, <1>4, <1>6, <2>3, <2>4, <2>5, <2>6, <2>7
          DEF Flow, AllAre
<1>8. ASSUME NEW t \in Slots, NEW d \in Clients, conn_fd'[t] = d
      PROVE  Flow(t, d)'
  <2>1. CASE t = s BY <1>2, <1>7, <1>8, <2>1
  <2>2. CASE t # s
    <3>1. Flow(t, d) BY <1>2, <1>8, <2>2 DEF StreamInv
    <3> QED BY <1>2, <1>6, <2>2, <3>1, FlowFrame
  <2> QED BY <2>1, <2>2
<1> QED BY <1>5, <1>8 DEF StreamInv

-----------------------------------------------------------------------------
(***************************************************************************)
(* Which handlers call which: drainSend only sends, and the loop that      *)
(* follows a passed prefix never receives.                                 *)
(***************************************************************************)
HandlerCalls ==
  Handling => /\ caller = "drain" => pc = "send"
              /\ caller = "ctrl" => pc # "recv"

LEMMA CallsStep ==
  ASSUME IInv, HandlerCalls, [Next]_vars
  PROVE  HandlerCalls'
<1>1. CASE UNCHANGED <<pc, caller>> BY <1>1 DEF HandlerCalls, Handling
<1>2. CASE Dispatch
  BY <1>1, <1>2
     DEF Dispatch, DispatchListen, DispatchCtrlConn, AcceptCtrl, RejectCtrl,
         DispatchHup, DispatchOut, DispatchIn, HandlerCalls, Handling
<1>3. CASE AcceptClient \/ AcceptDone \/ CtrlAgain \/ CtrlEof \/ RecvAgain
  BY <1>1, <1>3
     DEF AcceptClient, AcceptDone, CtrlAgain, CtrlEof, RecvAgain, HandlerCalls,
         Handling, threadVars
<1>4. CASE CtrlRecv BY <1>1, <1>4 DEF CtrlRecv, HandlerCalls, Handling
<1>5. CASE RecvNoRoom \/ RecvEnd \/ ParseBad
  BY <1>5 DEF RecvNoRoom, RecvEnd, ParseBad, CloseCur, AfterClose,
              HandlerCalls, Handling
<1>6. CASE RecvData \/ ParseNone \/ ParseRequest \/ SendSome \/ SendDone
  BY <1>1, <1>6
     DEF RecvData, ParseNone, ParseRequest, SendSome, SendDone, AfterParse,
         threadVars, HandlerCalls, Handling
<1>7. CASE SendBlocked \/ DrainDone \/ DrainBlocked \/ Rearm
  BY <1>7 DEF SendBlocked, DrainDone, DrainBlocked, Rearm, AfterBlocked,
              SendStuck, AfterDrain, EnterRecv, AfterClose, HandlerCalls, Handling
<1>8. CASE \/ Wait \/ \E c \in Clients : ClientStep(c) \/ \E l \in LBs : LBStep(l)
           \/ UNCHANGED vars
  BY <1>1, <1>8
     DEF Wait, ClientStep, Connect, ClientSend, ClientRead, ClientLeave, LBStep,
         LBConnect, LBExit, LBPass, threadVars, vars
<1>9. CASE \E l \in LBs : LBStep(l)
  BY <1>1, <1>9 DEF LBStep, LBConnect, LBExit, LBPass, threadVars
<1> QED BY <1>2, <1>3, <1>4, <1>5, <1>6, <1>7, <1>8, <1>9
        DEF Next, WorkerStep, Handle

-----------------------------------------------------------------------------
(***************************************************************************)
(* The steps of a handler.                                                 *)
(***************************************************************************)
\* The slot under work, its client, and the types of what the steps write.
LEMMA CurFlow ==
  ASSUME IInv, StreamInv, Handling
  PROVE  /\ cur \in Slots /\ conn_fd[cur] \in Clients
         /\ Flow(cur, conn_fd[cur]) /\ ClientFlow(conn_fd[cur])
         /\ in_buf \in [Slots -> Seq(Nat)] /\ rx \in [Clients -> Seq(Nat)]
         /\ out \in [Slots -> Nat] /\ out_pos \in [Slots -> Nat]
         /\ stream \in [Clients -> Seq(Nat \X Nat)]
         /\ sent \in [Clients -> Nat] /\ got \in [Clients -> Nat]
         /\ ReqParts[conn_fd[cur]] \in Nat \ {0}
<1>1. cur \in Slots /\ conn_fd[cur] \in Clients BY CurOpen
<1> QED BY <1>1, WorkerConstants DEF StreamInv, IInv, TypeOK

\* Two sequences joined.
LEMMA Joined ==
  ASSUME NEW S, NEW p \in Seq(S), NEW q \in Seq(S)
  PROVE  /\ p \o q \in Seq(S) /\ Len(p \o q) = Len(p) + Len(q)
         /\ Len(p) \in Nat /\ Len(q) \in Nat
         /\ \A i \in 1 .. Len(p) : (p \o q)[i] = p[i]
         /\ \A i \in 1 .. Len(q) : (p \o q)[Len(p) + i] = q[i]
         /\ \A i \in 1 .. Len(p \o q) :
              i \in 1 .. Len(p) \/ \E j \in 1 .. Len(q) : i = Len(p) + j
         /\ \A x : AllAre(p, x) /\ AllAre(q, x) => AllAre(p \o q, x)
<1>1. p \o q \in Seq(S) /\ Len(p \o q) = Len(p) + Len(q)
      /\ Len(p) \in Nat /\ Len(q) \in Nat
  BY ConcatProperties, LenProperties
<1>2. \A i \in 1 .. Len(p) + Len(q) :
        (p \o q)[i] = IF i <= Len(p) THEN p[i] ELSE q[i - Len(p)]
  BY ConcatProperties
<1>3. \A i \in 1 .. Len(p) : i \in 1 .. Len(p) + Len(q) /\ i <= Len(p)
  BY <1>1
<1>4. \A i \in 1 .. Len(q) : /\ Len(p) + i \in 1 .. Len(p) + Len(q)
                             /\ ~(Len(p) + i <= Len(p))
                             /\ Len(p) + i - Len(p) = i
  BY <1>1
<1>5. \A i \in 1 .. Len(p) : (p \o q)[i] = p[i] BY <1>2, <1>3
<1>6. \A i \in 1 .. Len(q) : (p \o q)[Len(p) + i] = q[i] BY <1>2, <1>4
<1>7. \A i \in 1 .. Len(p \o q) :
        i \in 1 .. Len(p) \/ \E j \in 1 .. Len(q) : i = Len(p) + j
  <2>1. TAKE i \in 1 .. Len(p \o q)
  <2>2. CASE i > Len(p)
    <3>1. i - Len(p) \in 1 .. Len(q) /\ i = Len(p) + (i - Len(p))
      BY <1>1, <2>2
    <3> QED BY <3>1
  <2> QED BY <1>1, <2>2
<1>8. ASSUME NEW x, AllAre(p, x), AllAre(q, x) PROVE AllAre(p \o q, x)
  BY <1>5, <1>6, <1>7, <1>8 DEF AllAre
<1> QED BY <1>1, <1>5, <1>6, <1>7, <1>8

LEMMA RecvDataStream ==
  ASSUME IInv, StreamInv, RecvData
  PROVE  StreamInv'
<1>1. PICK s \in Slots, c \in Clients : s = cur /\ c = conn_fd[cur]
  <2>1. Handling BY DEF RecvData, Handling
  <2> QED BY <2>1, CurOpen
<1>2. PICK n : /\ n = IF Len(rx[c]) <= BUF_SIZE - Len(in_buf[s]) THEN Len(rx[c])
                      ELSE BUF_SIZE - Len(in_buf[s])
               /\ in_buf' = [in_buf EXCEPT ![s] = @ \o SubSeq(rx[c], 1, n)]
               /\ rx' = [rx EXCEPT ![c] = SubSeq(@, n + 1, Len(@))]
  BY <1>1 DEF RecvData
<1>3. /\ pc = "recv" /\ pc' = "parse" /\ Len(in_buf[s]) < BUF_SIZE
      /\ UNCHANGED <<conn_fd, out, out_pos, sock, prefix, stream, sent, got>>
  <2>1. pc = "recv" /\ ~BufferFull BY DEF RecvData
  <2>2. in_buf[s] \in Seq(Nat) BY DEF IInv, TypeOK
  <2>3. Len(in_buf[s]) \in Nat /\ BUF_SIZE \in Nat
    BY <2>2, LenProperties, WorkerConstants
  <2> QED BY <1>1, <2>1, <2>3 DEF RecvData, BufferFull, clientVars, passVars
<1>4. /\ Flow(s, c) /\ ClientFlow(c)
      /\ in_buf \in [Slots -> Seq(Nat)] /\ rx \in [Clients -> Seq(Nat)]
      /\ ReqParts[c] \in Nat \ {0} /\ out[s] \in Nat /\ sent[c] \in Nat
  BY <1>1, <1>3, CurFlow DEF Handling
<1>5. Len(rx[c]) \in Nat /\ Len(in_buf[s]) \in Nat /\ n \in 0 .. Len(rx[c])
  <2>1. Len(rx[c]) \in Nat /\ Len(in_buf[s]) \in Nat BY <1>4, LenProperties
  <2>2. BUF_SIZE \in Nat BY WorkerConstants
  <2>3. BUF_SIZE - Len(in_buf[s]) \in Nat BY <1>3, <2>1, <2>2
  <2> QED BY <1>2, <2>1, <2>3
<1>6. /\ in_buf'[s] = in_buf[s] \o SubSeq(rx[c], 1, n)
      /\ rx'[c] = SubSeq(rx[c], n + 1, Len(rx[c]))
      /\ \A t \in Slots : t # s => in_buf'[t] = in_buf[t]
      /\ \A d \in Clients : d # c => rx'[d] = rx[d]
  BY <1>2, <1>4
<1>7. \A t \in Slots : ~Unshifted(t) /\ ~Unshifted(t)'
  BY <1>3 DEF Unshifted
<1>8. Unread(s) = in_buf[s] /\ Unread(s)' = in_buf'[s] /\ OutLen(s)' = OutLen(s)
  BY <1>3, <1>7 DEF Unread, OutLen
<1>9. Flow(s, c)'
  <2> DEFINE x == out[s] + 1
  <2>1. rx[c] \in Seq(Nat) /\ in_buf[s] \in Seq(Nat) BY <1>4
  <2>2. SubSeq(rx[c], 1, n) \in Seq(Nat) BY <1>5, <2>1, CutInTwo
  <2>3. AllAre(SubSeq(rx[c], 1, n), x) /\ AllAre(rx'[c], x) /\ AllAre(in_buf[s], x)
    BY <1>4, <1>5, <1>6, <1>8, <2>1, CutInTwo DEF Flow
  <2> HIDE DEF x
  <2>4. AllAre(in_buf'[s], x)
    <3>1. AllAre(in_buf[s] \o SubSeq(rx[c], 1, n), x)
      BY <2>1, <2>2, <2>3, Joined
    <3> QED BY <1>6, <3>1
  <2>5. Len(in_buf'[s]) + Len(rx'[c]) = Len(in_buf[s]) + Len(rx[c])
    <3>1. Len(in_buf'[s]) = Len(in_buf[s]) + n
      <4>1. Len(SubSeq(rx[c], 1, n)) = n BY <1>5, <2>1, CutInTwo
      <4>2. Len(in_buf[s] \o SubSeq(rx[c], 1, n)) = Len(in_buf[s]) + n
        BY <2>1, <2>2, <4>1, Joined
      <4> QED BY <1>6, <4>2
    <3>2. Len(rx'[c]) = Len(rx[c]) - n BY <1>5, <1>6, <2>1, CutInTwo
    <3>3. \A i, j \in Nat : \A k \in 0 .. j : i + k + (j - k) = i + j OBVIOUS
    <3> QED BY <1>5, <3>1, <3>2, <3>3
  <2>6. out[s] * ReqParts[c] + Len(in_buf'[s]) + Len(rx'[c]) <= sent[c]
    <3>1. out[s] * ReqParts[c] + Len(in_buf[s]) + Len(rx[c]) <= sent[c]
      BY <1>4, <1>8 DEF Flow
    <3>2. out[s] * ReqParts[c] \in Nat BY <1>4, Multiples
    <3>3. Len(in_buf'[s]) \in Nat /\ Len(rx'[c]) \in Nat
      <4>1. in_buf'[s] \in Seq(Nat) /\ rx'[c] \in Seq(Nat)
        BY <1>5, <1>6, <2>1, <2>2, CutInTwo, Joined
      <4> QED BY <4>1, LenProperties
    <3>4. PICK i, j, k, l, m \in Nat :
            /\ i = Len(in_buf[s]) /\ j = Len(rx[c]) /\ k = Len(in_buf'[s])
            /\ l = Len(rx'[c]) /\ m = out[s] * ReqParts[c]
      BY <1>5, <3>2, <3>3
    <3>5. k + l = i + j /\ m + i + j <= sent[c] BY <2>5, <3>1, <3>4
    <3>6. m + k + l <= sent[c] BY <1>4, <3>5
    <3> QED BY <3>4, <3>6
  <2> USE DEF x
  <2> QED BY <1>3, <1>4, <1>7, <1>8, <2>3, <2>4, <2>6 DEF Flow, AllAre
<1>10. /\ Intact(c)' /\ Merited(c)' /\ (got[c] <= Len(stream[c]))'
       /\ (sent[c] <= MaxReq * ReqParts[c])'
  BY <1>3, <1>4 DEF ClientFlow, Intact, Merited
<1> QED BY <1>1, <1>3, <1>6, <1>7, <1>9, <1>10, StreamOne

LEMMA ParseRequestStream ==
  ASSUME IInv, StreamInv, HandlerCalls, ParseRequest
  PROVE  StreamInv'
<1> DEFINE P == RespParts
<1>1. PICK s \in Slots, c \in Clients : s = cur /\ c = conn_fd[cur]
  <2>1. Handling BY DEF ParseRequest, Handling
  <2> QED BY <2>1, CurOpen
<1>2. /\ pc = "parse" /\ pc' = "send" /\ caller # "drain"
      /\ Len(in_buf[s]) >= ReqParts[c]
      /\ out' = [out EXCEPT ![s] = Head(in_buf[s])]
      /\ out_pos' = [out_pos EXCEPT ![s] = 0]
      /\ UNCHANGED <<conn_fd, in_buf, cur, caller, sock, prefix, rx, stream,
                     sent, got>>
  BY <1>1 DEF ParseRequest, Complete, StartSend, HandlerCalls, Handling,
              clientVars, passVars
<1>3. /\ Flow(s, c) /\ ClientFlow(c)
      /\ in_buf \in [Slots -> Seq(Nat)] /\ rx \in [Clients -> Seq(Nat)]
      /\ out \in [Slots -> Nat] /\ out_pos \in [Slots -> Nat]
      /\ stream[c] \in Seq(Nat \X Nat)
      /\ ReqParts[c] \in Nat \ {0} /\ P \in Nat \ {0}
      /\ sent[c] \in Nat /\ got[c] \in Nat
  BY <1>1, <1>2, CurFlow, WorkerConstants DEF Handling
<1>4. \A t \in Slots : /\ ~Unshifted(t) /\ (Unshifted(t)' <=> t = s)
  BY <1>1, <1>2 DEF Unshifted
<1>5. Unread(s) = in_buf[s] /\ Unread(s)' = <<>>
  BY <1>4 DEF Unread
<1>6. PICK q, m, i, j, a, g \in Nat :
        /\ q = out[s] /\ m = q * ReqParts[c] /\ i = Len(in_buf[s])
        /\ j = Len(rx[c]) /\ a = sent[c] /\ g = Len(stream[c])
  <2>1. Len(in_buf[s]) \in Nat /\ Len(rx[c]) \in Nat /\ Len(stream[c]) \in Nat
    BY <1>3, LenProperties
  <2>2. out[s] \in Nat BY <1>3
  <2>3. out[s] * ReqParts[c] \in Nat BY <1>3, <2>2, Multiples
  <2> QED BY <1>3, <2>1, <2>2, <2>3
\* The whole of request q + 1 is in the buffer, and nothing after it.
<1>7. i = ReqParts[c] /\ j = 0 /\ a = m + ReqParts[c]
  <2>1. m + i + j <= a /\ a <= m + ReqParts[c] /\ i >= ReqParts[c]
    BY <1>2, <1>3, <1>5, <1>6 DEF Flow
  <2>2. PICK r \in Nat : r = ReqParts[c] BY <1>3
  <2>3. m + i + j <= a /\ a <= m + r /\ i >= r BY <2>1, <2>2
  <2>4. i = r /\ j = 0 /\ a = m + r BY <2>3
  <2> QED BY <2>2, <2>4
\* All of the earlier responses was written.
<1>8. g = q * P
  <2>1. a > m BY <1>3, <1>7
  <2>2. got[c] = q * P /\ got[c] <= g BY <1>3, <1>6, <2>1 DEF Flow, ClientFlow
  <2>3. g <= q * P BY <1>3, <1>6, FlowLength
  <2>4. q * P \in Nat BY <1>3, Multiples
  <2> QED BY <2>2, <2>3, <2>4
<1>9. out'[s] = q + 1 /\ out_pos'[s] = 0
      /\ \A t \in Slots : t # s => out'[t] = out[t] /\ out_pos'[t] = out_pos[t]
  <2>1. 1 \in 1 .. Len(in_buf[s]) BY <1>3, <1>6, <1>7
  <2>2. in_buf[s][1] = q + 1 BY <1>3, <1>5, <1>6, <2>1 DEF Flow, AllAre
  <2>3. Head(in_buf[s]) = in_buf[s][1]
    <3>1. in_buf[s] \in Seq(Nat) /\ in_buf[s] # <<>>
      BY <1>3, <1>6, <1>7, EmptySeq
    <3> QED BY <3>1, HeadTailProperties
  <2> QED BY <1>2, <1>3, <2>2, <2>3
<1>10. Flow(s, c)'
  <2>1. (q + 1) * ReqParts[c] = m + ReqParts[c] /\ (q + 1 - 1) * P = q * P
    <3>1. (q + 1) * ReqParts[c] = q * ReqParts[c] + ReqParts[c]
      BY <1>3, Multiples
    <3>2. q + 1 - 1 = q OBVIOUS
    <3> QED BY <1>6, <3>1, <3>2
  <2>2. OutLen(s)' = P BY <1>9 DEF OutLen
  <2>3. (out_pos[s] <= OutLen(s))' BY <1>3, <1>9, <2>2
  <2>4. Len(stream'[c]) = (out'[s] - 1) * P + out_pos'[s]
    <3>1. q * P \in Nat BY <1>3, Multiples
    <3>2. q * P + 0 = q * P BY <3>1
    <3> QED BY <1>2, <1>6, <1>8, <1>9, <2>1, <3>2
  <2>5. AllAre(Unread(s)', out'[s] + 1) /\ AllAre(rx'[c], out'[s] + 1)
    <3>1. Len(<<>>) = 0 /\ 1 .. 0 = {} OBVIOUS
    <3> QED BY <1>2, <1>5, <1>6, <1>7, <3>1 DEF AllAre
  <2>6. /\ out'[s] * ReqParts[c] = a /\ Len(Unread(s)') = 0 /\ Len(rx'[c]) = 0
    BY <1>2, <1>5, <1>6, <1>7, <1>9, <2>1
  <2>7. out'[s] * ReqParts[c] + Len(Unread(s)') + Len(rx'[c]) <= sent'[c]
    BY <1>2, <1>6, <2>6
  <2>8. /\ sent'[c] <= out'[s] * ReqParts[c] + ReqParts[c]
        /\ ~(sent'[c] > out'[s] * ReqParts[c])
    BY <1>2, <1>3, <1>6, <2>6
  <2>9. out'[s] > 0 /\ Len(in_buf'[s]) = ReqParts[c]
    BY <1>2, <1>6, <1>7, <1>9
  <2> QED BY <1>9, <2>3, <2>4, <2>5, <2>7, <2>8, <2>9 DEF Flow, AllAre
<1>11. /\ Intact(c)' /\ Merited(c)' /\ (got[c] <= Len(stream[c]))'
       /\ (sent[c] <= MaxReq * ReqParts[c])'
  BY <1>2, <1>3 DEF ClientFlow, Intact, Merited
<1> QED BY <1>1, <1>2, <1>4, <1>9, <1>10, <1>11, StreamOne

\* Chunk k of what one send writes is part out_pos + k of response q.
LEMMA PartAt ==
  ASSUME NEW q \in Nat \ {0}, NEW P \in Nat \ {0}, NEW w \in 0 .. P,
         NEW k \in 1 .. P - w, NEW i, i = (q - 1) * P + w + k
  PROVE  ((i - 1) \div P) + 1 = q /\ ((i - 1) % P) + 1 = w + k
<1> DEFINE m == q - 1
<1>1. m \in Nat /\ w + k - 1 \in 0 .. P - 1 OBVIOUS
<1>2. (m * P + (w + k - 1)) \div P = m /\ (m * P + (w + k - 1)) % P = w + k - 1
  BY <1>1, QuotientOf
<1>3. m * P \in Nat BY <1>1, Multiples
<1> HIDE DEF m
<1>4. m * P + w + k - 1 = m * P + (w + k - 1) BY <1>1, <1>3
<1>5. m + 1 = q BY DEF m
<1>6. w + k - 1 + 1 = w + k OBVIOUS
<1> QED BY <1>2, <1>4, <1>5, <1>6 DEF m

LEMMA SendSomeStream ==
  ASSUME IInv, StreamInv, SendSome
  PROVE  StreamInv'
<1> DEFINE P == RespParts
<1>1. PICK s \in Slots, c \in Clients : s = cur /\ c = conn_fd[cur]
  <2>1. Handling BY DEF SendSome, Handling
  <2> QED BY <2>1, CurOpen
<1>2. PICK n : /\ n = IF OutLen(s) - out_pos[s] <= Space(c)
                      THEN OutLen(s) - out_pos[s] ELSE Space(c)
               /\ stream' = [stream EXCEPT
                    ![c] = @ \o [i \in 1 .. n |-> <<out[s], out_pos[s] + i>>]]
               /\ out_pos' = [out_pos EXCEPT ![s] = @ + n]
  BY <1>1 DEF SendSome
<1>3. /\ ~(out_pos[s] >= OutLen(s)) /\ Space(c) > 0
      /\ UNCHANGED <<conn_fd, in_buf, out, pc, cur, caller, sock, prefix, rx,
                     sent, got>>
      /\ pc = "send"
  BY <1>1 DEF SendSome, Sent, clientVars, passVars, threadVars
<1>4. /\ Flow(s, c) /\ ClientFlow(c)
      /\ in_buf[s] \in Seq(Nat) /\ rx[c] \in Seq(Nat)
      /\ out \in [Slots -> Nat] /\ out_pos \in [Slots -> Nat]
      /\ stream \in [Clients -> Seq(Nat \X Nat)]
      /\ ReqParts[c] \in Nat \ {0} /\ P \in Nat \ {0} /\ SendCap \in Nat
      /\ sent[c] \in Nat /\ got[c] \in Nat
  BY <1>1, <1>3, CurFlow, WorkerConstants DEF Handling
<1>5. PICK q, w, g, m, a \in Nat :
        /\ q = out[s] /\ w = out_pos[s] /\ g = Len(stream[c])
        /\ m = q * ReqParts[c] /\ a = sent[c]
  <2>1. Len(stream[c]) \in Nat BY <1>4, LenProperties
  <2>2. out[s] * ReqParts[c] \in Nat BY <1>4, Multiples
  <2> QED BY <1>4, <2>1, <2>2
<1>6. /\ q # 0 /\ OutLen(s) = P /\ w < P /\ n \in 1 .. P - w
      /\ g = (q - 1) * P + w
  <2>1. ~(w >= OutLen(s)) BY <1>3, <1>5
  <2>2. q # 0 /\ OutLen(s) = P BY <1>4, <1>5, <2>1 DEF OutLen
  <2>3. Space(c) \in Int BY <1>4, <1>5 DEF Space
  <2>4. w < P BY <1>4, <2>1, <2>2
  <2>5. n \in 1 .. P - w BY <1>2, <1>3, <1>4, <1>5, <2>2, <2>3, <2>4
  <2> QED BY <1>4, <1>5, <2>2, <2>4, <2>5 DEF Flow
<1>7. PICK sq : sq = [i \in 1 .. n |-> <<q, w + i>>] OBVIOUS
<1>8. /\ sq \in Seq(Nat \X Nat) /\ Len(sq) = n
      /\ \A i \in 1 .. n : sq[i] = <<q, w + i>>
  BY <1>6, <1>7
<1>9. /\ stream'[c] = stream[c] \o sq /\ out_pos'[s] = w + n
      /\ \A d \in Clients : d # c => stream'[d] = stream[d]
      /\ \A t \in Slots : t # s => out_pos'[t] = out_pos[t]
  BY <1>2, <1>4, <1>5, <1>7
<1>10. Len(stream'[c]) = g + n
  <2>1. stream[c] \in Seq(Nat \X Nat) BY <1>4
  <2>2. Len(stream[c] \o sq) = Len(stream[c]) + Len(sq)
    BY <1>8, <2>1, Joined
  <2> QED BY <1>5, <1>8, <1>9, <2>2
<1>11. g + n <= q * P /\ q * P \in Nat /\ (q - 1) * P \in Nat
  <2>1. q - 1 \in Nat BY <1>6
  <2>2. (q - 1 + 1) * P = (q - 1) * P + P /\ (q - 1) * P \in Nat
    BY <1>4, <2>1, Multiples
  <2>3. q - 1 + 1 = q BY <1>6
  <2>4. PICK e \in Nat : e = (q - 1) * P BY <2>2
  <2>5. q * P = e + P /\ g = e + w BY <1>6, <2>2, <2>3, <2>4
  <2> QED BY <1>4, <1>6, <2>4, <2>5
<1>12. Intact(c)'
  <2>1. ASSUME NEW i \in 1 .. Len(stream'[c])
        PROVE  stream'[c][i] = <<((i - 1) \div P) + 1, ((i - 1) % P) + 1>>
    <3>1. stream[c] \in Seq(Nat \X Nat) /\ sq \in Seq(Nat \X Nat)
      BY <1>4, <1>8
    <3>2. i \in 1 .. Len(stream[c]) \/ \E k \in 1 .. Len(sq) : i = Len(stream[c]) + k
      BY <1>9, <2>1, <3>1, Joined
    <3>3. CASE i \in 1 .. Len(stream[c])
      <4>1. stream'[c][i] = stream[c][i] BY <1>9, <3>1, <3>3, Joined
      <4>2. Intact(c) BY <1>4 DEF ClientFlow
      <4> QED BY <3>3, <4>1, <4>2 DEF Intact
    <3>4. CASE \E k \in 1 .. Len(sq) : i = Len(stream[c]) + k
      <4>1. PICK k \in 1 .. n : i = g + k BY <1>5, <1>8, <3>4
      <4>2. stream'[c][i] = <<q, w + k>>
        <5>1. k \in 1 .. Len(sq) /\ i = Len(stream[c]) + k
          BY <1>5, <1>8, <4>1
        <5>2. (stream[c] \o sq)[Len(stream[c]) + k] = sq[k]
          BY <3>1, <5>1, Joined
        <5> QED BY <1>8, <1>9, <4>1, <5>1, <5>2
      <4>3. i = (q - 1) * P + w + k BY <1>6, <4>1
      <4>4. q \in Nat \ {0} /\ w \in 0 .. P /\ k \in 1 .. P - w
        BY <1>4, <1>6
      <4>5. ((i - 1) \div P) + 1 = q /\ ((i - 1) % P) + 1 = w + k
        <5>1. P \in Nat \ {0} BY <1>4
        <5> HIDE DEF P
        <5>2. w \in 0 .. P /\ k \in 1 .. P - w /\ q \in Nat \ {0} BY <4>4
        <5>3. \A j : j = (q - 1) * P + w + k =>
                  ((j - 1) \div P) + 1 = q /\ ((j - 1) % P) + 1 = w + k
          BY <5>1, <5>2, PartAt
        <5> QED BY <4>3, <5>3
      <4> QED BY <4>2, <4>5
    <3> QED BY <3>2, <3>3, <3>4
  <2> QED BY <2>1 DEF Intact
<1>13. Merited(c)'
  <2>1. m <= a BY <1>4, <1>5, FlowLength
  <2>2. q <= a \div ReqParts[c] BY <1>4, <1>5, <2>1, QuotientAtLeast
  <2>3. a \div ReqParts[c] \in Nat BY <1>4, QuotientBounds
  <2>4. q * P <= (a \div ReqParts[c]) * P BY <1>4, <2>2, <2>3, Multiples
  <2>5. PICK d \in Nat : d = a \div ReqParts[c] BY <2>3
  <2>6. d * P = P * d BY <1>4
  <2>7. d * P \in Nat BY <1>4, Multiples
  <2>8. Len(stream'[c]) <= P * d
    BY <1>6, <1>10, <1>11, <2>4, <2>5, <2>6, <2>7
  <2> QED BY <1>3, <1>5, <2>5, <2>8 DEF Merited
<1>14. (got[c] <= Len(stream[c]))' /\ (sent[c] <= MaxReq * ReqParts[c])'
  <2>1. got[c] <= g /\ sent[c] <= MaxReq * ReqParts[c] BY <1>4, <1>5 DEF ClientFlow
  <2> QED BY <1>3, <1>4, <1>6, <1>10, <2>1
\* The request after q has not begun, for q's response was not all read.
<1>15. ~(a > m)
  <2>1. got[c] <= g /\ g < q * P BY <1>4, <1>5, <1>6, <1>11 DEF ClientFlow
  <2>2. a > m => got[c] = q * P BY <1>4, <1>5 DEF Flow
  <2> QED BY <1>4, <1>11, <2>1, <2>2
<1>16. \A t \in Slots : Unshifted(t)' <=> Unshifted(t)
  BY <1>3 DEF Unshifted
<1>17. Flow(s, c)'
  <2>1. Unread(s)' = Unread(s) /\ OutLen(s)' = P
    BY <1>3, <1>6, <1>16 DEF Unread, OutLen
  <2>2. (out_pos[s] <= OutLen(s))' BY <1>4, <1>6, <1>9, <2>1
  <2>3. Len(stream'[c]) = (out[s] - 1) * P + out_pos'[s]
    <3>1. PICK e \in Nat : e = (q - 1) * P BY <1>11
    <3>2. g + n = e + (w + n) BY <1>6, <3>1
    <3> QED BY <1>5, <1>9, <1>10, <3>1, <3>2
  <2>4. ~(sent'[c] > out'[s] * ReqParts[c]) BY <1>3, <1>5, <1>15
  <2> QED BY <1>3, <1>4, <1>5, <1>6, <1>16, <2>1, <2>2, <2>3, <2>4
          DEF Flow, AllAre
<1> QED BY <1>1, <1>3, <1>9, <1>12, <1>13, <1>14, <1>16, <1>17, StreamOne

\* shiftBuf empties the buffer: the client waits for the answer.
LEMMA ShiftEmpties ==
  ASSUME IInv, StreamInv, SendDone \/ SendBlocked
  PROVE  in_buf'[cur] = <<>>
<1>1. PICK s \in Slots, c \in Clients : s = cur /\ c = conn_fd[cur]
  <2>1. Handling BY DEF SendDone, SendBlocked, SendStuck, Handling
  <2> QED BY <2>1, CurOpen
<1>2. /\ pc = "send" /\ caller # "drain"
      /\ in_buf' = [in_buf EXCEPT ![s] = SubSeq(@, ReqParts[c] + 1, Len(@))]
  BY <1>1 DEF SendDone, SendBlocked, SendStuck, ShiftBuf
<1>3. /\ Flow(s, c) /\ in_buf \in [Slots -> Seq(Nat)]
      /\ ReqParts[c] \in Nat \ {0}
  BY <1>1, <1>2, CurFlow DEF Handling
<1>4. Len(in_buf[s]) = ReqParts[c] BY <1>1, <1>2, <1>3 DEF Flow, Unshifted
<1>5. ReqParts[c] \in 0 .. Len(in_buf[s]) /\ in_buf[s] \in Seq(Nat)
  BY <1>3, <1>4
<1>6. /\ SubSeq(in_buf[s], ReqParts[c] + 1, Len(in_buf[s])) \in Seq(Nat)
      /\ Len(SubSeq(in_buf[s], ReqParts[c] + 1, Len(in_buf[s]))) =
           Len(in_buf[s]) - ReqParts[c]
  BY <1>5, CutInTwo
<1>7. Len(in_buf[s]) - ReqParts[c] = 0 BY <1>3, <1>4
<1>8. SubSeq(in_buf[s], ReqParts[c] + 1, Len(in_buf[s])) = <<>>
  BY <1>6, <1>7, EmptySeq
<1> QED BY <1>1, <1>2, <1>3, <1>8

LEMMA ShiftStream ==
  ASSUME IInv, StreamInv, SendDone \/ SendBlocked
  PROVE  StreamInv'
<1>1. PICK s \in Slots, c \in Clients : s = cur /\ c = conn_fd[cur]
  <2>1. Handling BY DEF SendDone, SendBlocked, SendStuck, Handling
  <2> QED BY <2>1, CurOpen
<1>2. /\ pc = "send" /\ pc' # "send" /\ caller # "drain"
      /\ in_buf' = [in_buf EXCEPT ![s] = SubSeq(@, ReqParts[c] + 1, Len(@))]
      /\ UNCHANGED <<conn_fd, out, out_pos, cur, caller, sock, prefix, rx,
                     stream, sent, got>>
  BY <1>1 DEF SendDone, SendBlocked, SendStuck, ShiftBuf, AfterBlocked,
              clientVars, passVars
<1>3. /\ Flow(s, c) /\ ClientFlow(c) /\ in_buf \in [Slots -> Seq(Nat)]
      /\ ReqParts[c] \in Nat \ {0}
  BY <1>1, <1>2, CurFlow DEF Handling
<1>4. /\ \A t \in Slots : (Unshifted(t) <=> t = s) /\ ~Unshifted(t)'
  BY <1>1, <1>2 DEF Unshifted
<1>5. in_buf'[s] = <<>> /\ \A t \in Slots : t # s => in_buf'[t] = in_buf[t]
  BY <1>1, <1>2, <1>3, ShiftEmpties
<1>6. Unread(s) = <<>> /\ Unread(s)' = <<>> /\ OutLen(s)' = OutLen(s)
  BY <1>2, <1>4, <1>5 DEF Unread, OutLen
<1>7. Flow(s, c)' BY <1>2, <1>3, <1>4, <1>6 DEF Flow, AllAre
<1>8. /\ Intact(c)' /\ Merited(c)' /\ (got[c] <= Len(stream[c]))'
      /\ (sent[c] <= MaxReq * ReqParts[c])'
  BY <1>2, <1>3 DEF ClientFlow, Intact, Merited
<1> QED BY <1>1, <1>2, <1>4, <1>5, <1>7, <1>8, StreamOne

-----------------------------------------------------------------------------
(***************************************************************************)
(* Sockets come in.                                                        *)
(***************************************************************************)
\* A client turned away takes its bytes along.
LEMMA TurnAwayStream ==
  ASSUME IInv, StreamInv, NEW c \in Clients, sock[c] # "open",
         RefuseClient(c) \/ AddFails(c), UNCHANGED <<rx, stream, sent, got>>,
         \A d \in Clients : d # c => prefix'[d] = prefix[d],
         UNCHANGED <<pc, cur, caller>>
  PROVE  StreamInv'
<1>1. sock \in [Clients -> {"none", "queued", "passed", "open", "closed"}]
  BY DEF IInv, TypeOK
<1>2. \A d \in Clients : Waiting(d)' => Waiting(d) /\ prefix'[d] = prefix[d]
  <2>1. sock' = [sock EXCEPT ![c] = "closed"] BY TurnAwayFrame
  <2> QED BY <1>1, <2>1 DEF Waiting
<1>3. \A s \in Slots : Unshifted(s)' <=> Unshifted(s) BY DEF Unshifted
<1>4. \A s \in Slots : conn_fd'[s] \in Clients =>
        /\ conn_fd'[s] = conn_fd[s] /\ in_buf'[s] = in_buf[s]
        /\ out'[s] = out[s] /\ out_pos'[s] = out_pos[s]
  BY TurnAwayFrame, WorkerConstants
<1> QED BY <1>2, <1>3, <1>4, StreamFrame

LEMMA AcceptClientStream ==
  ASSUME IInv, StreamInv, AcceptClient
  PROVE  StreamInv'
<1>1. PICK c \in Queued : RefuseClient(c) \/ AddFails(c) \/ AdoptClient(c, <<>>)
  BY DEF AcceptClient
<1>2. /\ c \in Clients /\ sock[c] = "queued" /\ Waiting(c)
      /\ UNCHANGED <<rx, stream, sent, got, prefix, pc, cur, caller>>
      /\ pc = "accept"
  BY DEF Queued, Waiting, AcceptClient, threadVars, clientVars, passVars
<1>3. CASE RefuseClient(c) \/ AddFails(c)
  BY <1>2, <1>3, TurnAwayStream
<1>4. CASE AdoptClient(c, <<>>)
  <2>1. <<>> \in Seq(Nat) /\ Len(<<>>) = 0 /\ AllAre(<<>>, 1)
    BY DEF AllAre
  <2>2. Fresh(c) BY <1>2 DEF StreamInv, ClientFlow
  <2>3. Len(<<>>) + Len(rx[c]) <= sent[c]
    <3>1. rx[c] \in Seq(Nat) /\ prefix[c] \in Seq(Nat) /\ sent[c] \in Nat
      BY <1>2 DEF IInv, TypeOK
    <3>2. Len(rx[c]) \in Nat /\ Len(prefix[c]) \in Nat BY <3>1, LenProperties
    <3>3. PICK i, j, k \in Nat :
            i = Len(prefix[c]) /\ j = Len(rx[c]) /\ k = sent[c]
      BY <3>1, <3>2
    <3>4. i + j <= k BY <2>2, <3>3 DEF Fresh
    <3>5. 0 + j <= k BY <3>4
    <3> QED BY <2>1, <3>3, <3>5
  <2> QED BY <1>2, <1>4, <2>1, <2>3, AdoptStream
<1> QED BY <1>1, <1>3, <1>4

LEMMA CtrlRecvStream ==
  ASSUME IInv, StreamInv, CtrlRecv
  PROVE  StreamInv'
<1>1. PICK c \in Passed(ctrl_conn) :
        /\ prefix' = [prefix EXCEPT ![c] = <<>>]
        /\ \/ (RefuseClient(c) \/ AddFails(c)) /\ UNCHANGED <<pc, cur, caller>>
           \/ AdoptClient(c, prefix[c]) /\ (pc' = "parse" \/ pc' = pc)
  BY DEF CtrlRecv
<1>2. /\ c \in Clients /\ sock[c] = "passed" /\ Waiting(c)
      /\ UNCHANGED <<rx, stream, sent, got>> /\ pc = "ctrl"
      /\ prefix \in [Clients -> Seq(Nat)]
  BY DEF Passed, Waiting, CtrlRecv, clientVars, IInv, TypeOK
<1>3. \A d \in Clients : d # c => prefix'[d] = prefix[d] BY <1>1, <1>2
<1>4. CASE (RefuseClient(c) \/ AddFails(c)) /\ UNCHANGED <<pc, cur, caller>>
  BY <1>2, <1>3, <1>4, TurnAwayStream
<1>5. CASE AdoptClient(c, prefix[c]) /\ (pc' = "parse" \/ pc' = pc)
  <2>1. Fresh(c) BY <1>2 DEF StreamInv, ClientFlow
  <2>2. prefix[c] \in Seq(Nat) /\ AllAre(prefix[c], 1)
        /\ Len(prefix[c]) + Len(rx[c]) <= sent[c]
    BY <1>2, <2>1 DEF Fresh
  <2> QED BY <1>2, <1>3, <1>5, <2>2, AdoptStream
<1> QED BY <1>1, <1>4, <1>5

-----------------------------------------------------------------------------
(***************************************************************************)
(* The whole of a step.                                                    *)
(***************************************************************************)
LEMMA StreamStutter ==
  ASSUME IInv, StreamInv, UNCHANGED vars
  PROVE  StreamInv'
  BY StreamFrame DEF vars, connVars, clientVars, threadVars, passVars, Waiting,
                     Unshifted

LEMMA StreamStep ==
  ASSUME IInv, StreamInv, HandlerCalls, ~Pipelining, [Next]_vars
  PROVE  StreamInv'
<1>1. CASE Wait \/ Dispatch
  BY <1>1, QuietSteps, LetGoSteps, CloseSteps DEF Dispatch
<1>2. CASE Handle
  BY <1>2, QuietSteps, LetGoSteps, CloseSteps, AcceptClientStream,
     CtrlRecvStream, RecvDataStream, ParseRequestStream, SendSomeStream,
     ShiftStream
     DEF Handle
<1>3. CASE \E c \in Clients : ClientStep(c)
  BY <1>3, QuietSteps, LetGoSteps, ClientSendStream, ClientReadStream
     DEF ClientStep
<1>4. CASE \E l \in LBs : LBStep(l)
  BY <1>4, QuietSteps, LBPassStream DEF LBStep
<1>5. CASE UNCHANGED vars BY <1>5, StreamStutter
<1> QED BY <1>1, <1>2, <1>3, <1>4, <1>5 DEF Next, WorkerStep

-----------------------------------------------------------------------------
(***************************************************************************)
(* Wake-ups.                                                               *)
(***************************************************************************)
Busy(s) == Handling /\ cur = s

\* The socket has something the worker has not read: data or its end.
Unseen(c) == rx[c] # <<>> \/ peer[c] # "up"

\* Part of a response is still to be written, to a client that can take it.
Held(s, c) == out_pos[s] < OutLen(s) /\ peer[c] # "rst"

\* The handler at work on the slot returns without reading the socket.
NoRead(s) == Busy(s) /\ (caller = "ctrl" \/ (caller = "drain" /\ ~also_in))

\* What brings the worker back to slot s of client c.
Watched(s, c) ==
  /\ ~Busy(s) => (Unseen(c) => Noticed(c, "IN") \/ Noticed(c, "HUP"))
  /\ NoRead(s) => (Unseen(c) => ready[c])
  /\ ~Unshifted(s) /\ ~(Busy(s) /\ pc = "rearm") => (Held(s, c) => want_out[c])
  /\ ~(Busy(s) /\ pc \in {"send", "rearm"}) =>
       (Held(s, c) /\ Space(c) > 0 => Noticed(c, "OUT"))
  /\ ~Unshifted(s) /\ ~(Busy(s) /\ pc = "parse") =>
       Len(in_buf[s]) < ReqParts[c]

\* A hang-up in the batch is one the client is responsible for.
HupEvents ==
  \A e \in ClientEvents : "HUP" \in e.mask => peer[conn_fd[e.slot]] # "up"

WatchInv == \A s \in Slots, c \in Clients : conn_fd[s] = c => Watched(s, c)

WakeInv == HandlerCalls /\ HupEvents /\ WatchInv

LEMMA NoticedFrame ==
  ASSUME NEW c, NEW k, Noticed(c, k), ready[c] => ready'[c], reg'[c] = reg[c],
         \A e \in ClientEvents : e.slot = reg[c] => e \in ClientEvents'
  PROVE  Noticed(c, k)'
  BY DEF Noticed

\* Steps of others leave a slot as it was.
LEMMA WatchFrame ==
  ASSUME NEW s \in Slots, NEW c \in Clients, Watched(s, c),
         in_buf'[s] = in_buf[s], out'[s] = out[s], out_pos'[s] = out_pos[s],
         rx'[c] = rx[c], peer'[c] = peer[c], reg'[c] = reg[c],
         want_out'[c] = want_out[c], Space(c)' = Space(c),
         ready[c] => ready'[c],
         \A e \in ClientEvents : e.slot = reg[c] => e \in ClientEvents',
         Busy(s)' <=> Busy(s), Busy(s) => UNCHANGED <<pc, caller, also_in>>
  PROVE  Watched(s, c)'
<1>1. \A k : Noticed(c, k) => Noticed(c, k)' BY NoticedFrame
<1>2. /\ Unseen(c)' <=> Unseen(c)
      /\ Held(s, c)' <=> Held(s, c)
      /\ NoRead(s)' <=> NoRead(s)
      /\ Unshifted(s)' <=> Unshifted(s)
      /\ Busy(s)' <=> Busy(s)
      /\ (Busy(s) /\ pc = "rearm")' <=> (Busy(s) /\ pc = "rearm")
      /\ (Busy(s) /\ pc = "parse")' <=> (Busy(s) /\ pc = "parse")
      /\ (Busy(s) /\ pc \in {"send", "rearm"})'
           <=> (Busy(s) /\ pc \in {"send", "rearm"})
  BY DEF Unseen, Held, OutLen, NoRead, Unshifted, Busy, Handling
<1>3. (Space(c) > 0)' <=> Space(c) > 0 OBVIOUS
<1>4. (Len(in_buf[s]) < ReqParts[c])' <=> Len(in_buf[s]) < ReqParts[c] OBVIOUS
<1> QED BY <1>1, <1>2, <1>3, <1>4 DEF Watched

\* Steps that close slots and move none between clients.
LEMMA SlotStable ==
  ASSUME IInv, [Next]_vars, NEW s \in Slots, conn_fd[s] # NoFd,
         conn_fd'[s] # NoFd
  PROVE  conn_fd'[s] = conn_fd[s]
<1>1. CASE UNCHANGED conn_fd BY <1>1
<1>2. ASSUME NEW t \in Slots, conn_fd[t] # NoFd, CloseConn(t)
      PROVE  conn_fd'[s] = conn_fd[s]
  <2>1. conn_fd' = [conn_fd EXCEPT ![t] = NoFd] BY <1>2, CloseConnPool
  <2> QED BY <2>1 DEF IInv, TypeOK
<1>3. ASSUME NEW c \in Clients, sock[c] # "open",
             \/ RefuseClient(c) \/ AddFails(c)
             \/ \E bytes : AdoptClient(c, bytes)
      PROVE  conn_fd'[s] = conn_fd[s]
  <2>1. CASE RefuseClient(c) \/ AddFails(c) BY <1>3, <2>1, TurnAwayPool
  <2>2. CASE \E bytes : AdoptClient(c, bytes)
    <3>1. TopSlot \in Slots /\ conn_fd[TopSlot] = NoFd
          /\ conn_fd' = [conn_fd EXCEPT ![TopSlot] = c]
      BY <1>3, <2>2, AdoptFrame
    <3> QED BY <3>1 DEF IInv, TypeOK
  <2> QED BY <1>3, <2>1, <2>2
<1>4. CASE DispatchHup
  <2>1. PICK e \in ClientEvents : CloseConn(e.slot) BY <1>4 DEF DispatchHup
  <2>2. e.slot \in Slots /\ conn_fd[e.slot] # NoFd
    BY <2>1 DEF IInv, TypeOK, BatchFresh, ClientEvents
  <2> QED BY <1>2, <2>1, <2>2
<1>5. CASE RecvNoRoom \/ RecvEnd \/ ParseBad
  <2>1. Handling /\ CloseConn(cur)
    BY <1>5 DEF RecvNoRoom, RecvEnd, ParseBad, CloseCur, Handling
  <2> QED BY <1>2, <2>1, CurOpen
<1>6. CASE AcceptClient BY <1>3, <1>6 DEF AcceptClient, Queued
<1>7. CASE CtrlRecv BY <1>3, <1>7 DEF CtrlRecv, Passed
<1>8. CASE AcceptCtrl \/ RejectCtrl \/ CtrlEof \/ DrainDone \/ Rearm
           \/ (\E c \in Clients : Connect(c))
           \/ (\E l \in LBs, c \in Clients : LBPass(l, c))
  BY <1>1, <1>8 DEF AcceptCtrl, RejectCtrl, CtrlEof, DrainDone, Rearm, Connect,
                    LBPass, connVars
<1>9. CASE Idle BY <1>1, <1>9 DEF Idle
<1>10. CASE UNCHANGED vars BY <1>1, <1>10 DEF vars, connVars
<1> QED BY <1>4, <1>5, <1>6, <1>7, <1>8, <1>9, <1>10, IdleSteps
        DEF Next, WorkerStep, Dispatch, Handle, ClientStep, LBStep

LEMMA PeerStays ==
  ASSUME IInv, [Next]_vars, NEW c \in Clients, peer[c] # "up"
  PROVE  peer'[c] # "up"
<1>1. CASE UNCHANGED peer BY <1>1
<1>2. CASE \E d \in Clients : ClientLeave(d)
  <2>1. PICK d \in Clients, how \in Leaving : peer' = [peer EXCEPT ![d] = how]
    BY <1>2 DEF ClientLeave
  <2>2. how # "up" BY WorkerConstants
  <2> QED BY <2>1, <2>2 DEF IInv, TypeOK
<1>3. CASE \E d \in Clients : Connect(d) \/ ClientSend(d) \/ ClientRead(d)
  BY <1>1, <1>3 DEF Connect, ClientSend, ClientRead, clientVars
<1>4. CASE WorkerStep
  <2>1. CASE Wait \/ Dispatch
    BY <1>1, <2>1
       DEF Wait, Dispatch, DispatchListen, DispatchCtrlConn, AcceptCtrl,
           RejectCtrl, DispatchHup, DispatchOut, DispatchIn, clientVars
  <2>2. CASE Handle
    BY <1>1, <2>2
       DEF Handle, AcceptClient, AcceptDone, CtrlRecv, CtrlAgain, CtrlEof,
           RecvNoRoom, RecvData, RecvAgain, RecvEnd, CloseCur, ParseNone,
           ParseBad, ParseRequest, SendSome, SendDone, SendBlocked, DrainDone,
           DrainBlocked, Rearm, clientVars
  <2> QED BY <1>4, <2>1, <2>2 DEF WorkerStep
<1>5. CASE \E l \in LBs : LBStep(l)
  BY <1>1, <1>5 DEF LBStep, LBConnect, LBExit, LBPass, clientVars
<1>6. CASE UNCHANGED vars BY <1>1, <1>6 DEF vars, clientVars
<1> QED BY <1>2, <1>3, <1>4, <1>5, <1>6 DEF Next, ClientStep

\* Only epoll_wait adds events to the batch.
LEMMA BatchShrinks ==
  ASSUME [Next]_vars, ~Wait
  PROVE  batch' \subseteq batch
<1>1. CASE UNCHANGED batch BY <1>1
<1>2. CASE Dispatch
  BY <1>2 DEF Dispatch, DispatchListen, DispatchCtrlConn, AcceptCtrl,
              RejectCtrl, DispatchHup, DispatchOut, DispatchIn, Take
<1>3. CASE Handle
  BY <1>1, <1>3
     DEF Handle, AcceptClient, AcceptDone, CtrlRecv, CtrlAgain, CtrlEof,
         RecvNoRoom, RecvData, RecvAgain, RecvEnd, CloseCur, ParseNone,
         ParseBad, ParseRequest, SendSome, SendDone, SendBlocked, DrainDone,
         DrainBlocked, Rearm, threadVars
<1>4. CASE \E c \in Clients : ClientStep(c)
  BY <1>1, <1>4
     DEF ClientStep, Connect, ClientSend, ClientRead, ClientLeave, threadVars
<1>5. CASE \E l \in LBs : LBStep(l)
  BY <1>1, <1>5 DEF LBStep, LBConnect, LBExit, LBPass, threadVars
<1>6. CASE UNCHANGED vars BY <1>1, <1>6 DEF vars, threadVars
<1> QED BY <1>2, <1>3, <1>4, <1>5, <1>6 DEF Next, WorkerStep

LEMMA EventSlots ==
  ASSUME IInv, NEW e \in ClientEvents
  PROVE  /\ e.slot \in Slots /\ conn_fd[e.slot] \in Clients
         /\ conn_fd[e.slot] # NoFd /\ reg[conn_fd[e.slot]] = e.slot
         /\ \A f \in ClientEvents : f.slot = e.slot => f = e
<1>1. e.slot \in Slots BY DEF IInv, TypeOK, ClientEvents
<1>2. conn_fd[e.slot] # NoFd /\ \A f \in ClientEvents : f.slot = e.slot => f = e
  BY DEF IInv, BatchFresh
<1> QED BY <1>1, <1>2 DEF IInv, TypeOK, OneOwner

LEMMA HupStep ==
  ASSUME IInv, HupEvents, [Next]_vars
  PROVE  HupEvents'
<1>1. IInv' BY StepIInv
<1>2. CASE Wait
  <2>1. \A e \in ClientEvents' : \E c \in Clients :
          e = ClientEvent(c) /\ reg[c] # NoSlot
    <3>1. PICK B \in SUBSET Deliverable : batch' = B BY <1>2 DEF Wait
    <3>2. \A e \in B : \/ \E c \in Clients : e = ClientEvent(c) /\ reg[c] # NoSlot
                       \/ e \in {ListenEvent, CtrlAcceptEvent, CtrlConnEvent}
      BY <3>1 DEF Deliverable
    <3> QED BY <3>1, <3>2
            DEF ClientEvents, ListenEvent, CtrlAcceptEvent, CtrlConnEvent
  <2>2. UNCHANGED <<conn_fd, peer>> BY <1>2 DEF Wait, connVars, clientVars
  <2>3. ASSUME NEW e \in ClientEvents', "HUP" \in e.mask
        PROVE  peer'[conn_fd'[e.slot]] # "up"
    <3>1. PICK c \in Clients : e = ClientEvent(c) /\ reg[c] # NoSlot BY <2>1
    <3>2. e.slot = reg[c] /\ e.mask = Mask(c) BY <3>1 DEF ClientEvent
    <3>3. conn_fd[reg[c]] = c BY <3>1 DEF IInv, OneOwner
    <3>4. peer[c] # "up" BY <2>3, <3>2 DEF Mask, Poll
    <3> QED BY <2>2, <3>2, <3>3, <3>4
  <2> QED BY <2>3 DEF HupEvents
<1>3. CASE ~Wait
  <2>1. ASSUME NEW e \in ClientEvents', "HUP" \in e.mask
        PROVE  peer'[conn_fd'[e.slot]] # "up"
    <3>1. e \in ClientEvents BY <1>3, BatchShrinks DEF ClientEvents
    <3>2. conn_fd'[e.slot] # NoFd BY <1>1 DEF IInv, BatchFresh
    <3>3. conn_fd'[e.slot] = conn_fd[e.slot] /\ conn_fd[e.slot] \in Clients
      BY <3>1, <3>2, EventSlots, SlotStable
    <3>4. peer[conn_fd[e.slot]] # "up" BY <2>1, <3>1 DEF HupEvents
    <3> QED BY <3>3, <3>4, PeerStays
  <2> QED BY <2>1 DEF HupEvents
<1> QED BY <1>2, <1>3

-----------------------------------------------------------------------------
(***************************************************************************)
(* The event loop keeps every slot watched.                                *)
(***************************************************************************)
LEMMA WaitWatch ==
  ASSUME IInv, StreamInv, WakeInv, Wait
  PROVE  WatchInv'
<1>1. PICK B \in SUBSET Deliverable :
        /\ batch' = B
        /\ ready' = [c \in Clients |-> ready[c] /\ Mask(c) # {}
                                       /\ ClientEvent(c) \notin B]
  BY DEF Wait
<1>2. /\ pc = "loop" /\ pc' = "loop" /\ batch = {}
      /\ UNCHANGED <<conn_fd, in_buf, out, out_pos, reg, want_out, peer, rx,
                     stream, got>>
  BY DEF Wait, connVars, clientVars
<1>3. SUFFICES ASSUME NEW s \in Slots, NEW c \in Clients, conn_fd[s] = c
               PROVE  Watched(s, c)'
  BY <1>2 DEF WatchInv
<1>4. Watched(s, c) /\ reg[c] = s BY <1>3, OpenSlot DEF WakeInv, WatchInv
<1>5. ~Busy(s) /\ ~Busy(s)' /\ ~Unshifted(s) /\ ~Unshifted(s)' /\ ~NoRead(s)'
  BY <1>2 DEF Busy, Handling, Unshifted, NoRead
<1>6. \A k : Noticed(c, k) => ready[c] BY <1>2 DEF Noticed, ClientEvents
<1>7. ASSUME NEW k \in {"IN", "OUT", "HUP"}, ready[c], k \in Mask(c)
      PROVE  Noticed(c, k)'
  <2>1. CASE ClientEvent(c) \in B
    <3>1. /\ ClientEvent(c).kind = "client" /\ ClientEvent(c).slot = reg[c]
          /\ ClientEvent(c).mask = Mask(c)
      BY DEF ClientEvent
    <3>2. ClientEvent(c) \in ClientEvents' BY <1>1, <2>1, <3>1 DEF ClientEvents
    <3> QED BY <1>2, <1>7, <3>1, <3>2 DEF Noticed
  <2>2. CASE ClientEvent(c) \notin B
    BY <1>1, <1>7, <2>2 DEF Noticed
  <2> QED BY <2>1, <2>2
<1>8. /\ Unseen(c)' <=> Unseen(c)
      /\ Held(s, c)' <=> Held(s, c)
      /\ Space(c)' = Space(c)
  BY <1>2 DEF Unseen, Held, OutLen, Space
<1>9. Unseen(c) => Noticed(c, "IN")'
  <2>1. Unseen(c) => ready[c] BY <1>4, <1>5, <1>6 DEF Watched
  <2>2. Unseen(c) => "IN" \in Mask(c)
    BY DEF Unseen, Mask, Poll, Interest
  <2> QED BY <1>7, <2>1, <2>2
<1>10. Held(s, c) /\ Space(c) > 0 => Noticed(c, "OUT")'
  <2>1. Held(s, c) /\ Space(c) > 0 => ready[c] /\ want_out[c]
    BY <1>4, <1>5, <1>6 DEF Watched
  <2>2. want_out[c] /\ Space(c) > 0 => "OUT" \in Mask(c)
    BY DEF Mask, Poll, Interest
  <2> QED BY <1>7, <2>1, <2>2
<1>11. (Held(s, c) => want_out[c])' /\ (Len(in_buf[s]) < ReqParts[c])'
  BY <1>2, <1>4, <1>5, <1>8 DEF Watched
<1> QED BY <1>5, <1>8, <1>9, <1>10, <1>11 DEF Watched

-----------------------------------------------------------------------------
(***************************************************************************)
(* Slots other than the one a step concerns.                               *)
(***************************************************************************)
\* The socket of client d is as it was, or readier.
SameSocket(d) ==
  /\ rx'[d] = rx[d] /\ peer'[d] = peer[d] /\ reg'[d] = reg[d]
  /\ want_out'[d] = want_out[d] /\ Space(d)' = Space(d)
  /\ ready[d] => ready'[d]

SameSlot(t) ==
  conn_fd'[t] \in Clients =>
    /\ conn_fd'[t] = conn_fd[t]
    /\ in_buf'[t] = in_buf[t] /\ out'[t] = out[t] /\ out_pos'[t] = out_pos[t]

LEMMA WatchOthers ==
  ASSUME IInv, WatchInv, NEW s,
         \A t \in Slots : t # s => /\ SameSlot(t)
                                   /\ Busy(t)' <=> Busy(t)
                                   /\ Busy(t) => UNCHANGED <<pc, caller, also_in>>,
         \A d \in Clients : sock[d] = "open" /\ reg[d] # s => SameSocket(d),
         \A e \in ClientEvents : e.slot # s => e \in ClientEvents'
  PROVE  \A t \in Slots, d \in Clients :
           t # s /\ conn_fd'[t] = d => Watched(t, d)'
<1> SUFFICES ASSUME NEW t \in Slots, NEW d \in Clients, t # s, conn_fd'[t] = d
             PROVE  Watched(t, d)'
  OBVIOUS
<1>1. conn_fd[t] = d BY DEF SameSlot
<1>2. sock[d] = "open" /\ reg[d] = t BY <1>1, OpenSlot
<1>3. Watched(t, d) BY <1>1 DEF WatchInv
<1>4. SameSlot(t) /\ SameSocket(d) BY <1>2
<1> QED BY <1>2, <1>3, <1>4, WatchFrame DEF SameSlot, SameSocket

\* Steps outside the handlers of a client's slot.
LEMMA QuietWatch ==
  ASSUME IInv, WatchInv,
         \/ DispatchListen \/ DispatchCtrlConn \/ AcceptCtrl \/ RejectCtrl
         \/ AcceptDone \/ CtrlAgain \/ CtrlEof
         \/ \E c \in Clients : Connect(c)
         \/ \E l \in LBs : LBStep(l)
         \/ UNCHANGED vars
  PROVE  WatchInv'
<1>1. /\ UNCHANGED <<connVars, epollVars, peer, stream, got>>
      /\ \/ UNCHANGED <<pc, cur, caller, also_in>>
         \/ ~Handling /\ ~Handling'
  BY DEF DispatchListen, DispatchCtrlConn, AcceptCtrl, RejectCtrl, AcceptDone,
         CtrlAgain, CtrlEof, Connect, LBStep, LBConnect, LBExit, LBPass, vars,
         Take, clientVars, threadVars, Handling
<1>2. ClientEvents' = ClientEvents
  BY DEF DispatchListen, DispatchCtrlConn, AcceptCtrl, RejectCtrl, AcceptDone,
         CtrlAgain, CtrlEof, Connect, LBStep, LBConnect, LBExit, LBPass, vars,
         Take, threadVars, ClientEvents, ListenEvent, CtrlConnEvent,
         CtrlAcceptEvent
<1>3. \A d \in Clients : sock[d] = "open" => rx'[d] = rx[d]
  <2>1. CASE UNCHANGED rx BY <2>1
  <2>2. CASE \E l \in LBs, c \in Clients : LBPass(l, c)
    BY <2>2 DEF LBPass, IInv, TypeOK
  <2> QED BY <2>1, <2>2
          DEF DispatchListen, DispatchCtrlConn, AcceptCtrl, RejectCtrl,
              AcceptDone, CtrlAgain, CtrlEof, Connect, LBStep, LBConnect,
              LBExit, vars
<1>4. \A t \in Slots : /\ SameSlot(t)
                       /\ Busy(t)' <=> Busy(t)
                       /\ Busy(t) => UNCHANGED <<pc, caller, also_in>>
  BY <1>1 DEF SameSlot, Busy, Handling, connVars
<1>5. \A d \in Clients : sock[d] = "open" => SameSocket(d)
  BY <1>1, <1>3 DEF SameSocket, Space, epollVars
<1>6. \A t \in Slots, d \in Clients :
        t # NoSlot /\ conn_fd'[t] = d => Watched(t, d)'
  BY <1>2, <1>4, <1>5, WatchOthers
<1> QED BY <1>6, SlotFacts DEF WatchInv

\* Closing a slot: it is idle afterwards, and no other is disturbed.
LEMMA CloseWatch ==
  ASSUME IInv, WatchInv,
         DispatchHup \/ RecvNoRoom \/ RecvEnd \/ ParseBad
  PROVE  WatchInv'
<1>1. PICK s \in Slots :
        /\ conn_fd[s] # NoFd /\ CloseConn(s)
        /\ UNCHANGED <<peer, stream, got, rx>>
        /\ \A t \in Slots : t # s => ~Busy(t) /\ ~Busy(t)'
        /\ \A e \in ClientEvents : e.slot # s => e \in ClientEvents'
  <2>1. CASE DispatchHup
    <3>1. PICK e \in ClientEvents :
            /\ Take(e) /\ CloseConn(e.slot)
            /\ UNCHANGED <<pc, cur, caller, also_in, clientVars, passVars, rx, stream>>
      BY <2>1 DEF DispatchHup
    <3>2. e.slot \in Slots /\ conn_fd[e.slot] # NoFd BY EventSlots
    <3>3. ~Handling /\ ~Handling' BY <3>1 DEF Take, Handling
    <3>4. \A f \in ClientEvents : f.slot # e.slot => f \in ClientEvents'
      BY <3>1 DEF Take, ClientEvents
    <3> QED BY <3>1, <3>2, <3>3, <3>4 DEF Busy, clientVars
  <2>2. CASE RecvNoRoom \/ RecvEnd \/ ParseBad
    <3>1. /\ Handling /\ CloseConn(cur)
          /\ UNCHANGED <<batch, cur, caller, also_in, clientVars, passVars, rx, stream>>
      BY <2>2 DEF RecvNoRoom, RecvEnd, ParseBad, CloseCur, Handling
    <3> QED BY <3>1, CurOpen DEF Busy, ClientEvents, clientVars
  <2> QED BY <2>1, <2>2
<1>2. conn_fd'[s] = NoFd /\ reg[conn_fd[s]] = s /\ conn_fd[s] \in Clients
  BY <1>1, CloseFrame DEF IInv, OneOwner, TypeOK
<1>3. \A t \in Slots : t # s => SameSlot(t)
  BY <1>1, CloseFrame DEF SameSlot
<1>4. \A d \in Clients : sock[d] = "open" /\ reg[d] # s => SameSocket(d)
  <2>1. \A d \in Clients : reg[d] # s => d # conn_fd[s] BY <1>2
  <2> QED BY <1>1, <2>1, CloseFrame DEF SameSocket, Space
<1>5. \A t \in Slots, d \in Clients : t # s /\ conn_fd'[t] = d => Watched(t, d)'
  BY <1>1, <1>3, <1>4, WatchOthers
<1> QED BY <1>2, <1>5, WorkerConstants DEF WatchInv

\* A handler takes a client's event.
LEMMA TakeWatch ==
  ASSUME IInv, WatchInv, DispatchOut \/ DispatchIn
  PROVE  WatchInv'
<1>1. PICK e \in ClientEvents :
        /\ Take(e) /\ cur' = e.slot
        /\ \/ /\ "HUP" \notin e.mask /\ "OUT" \in e.mask
              /\ pc' = "send" /\ caller' = "drain" /\ also_in' = ("IN" \in e.mask)
           \/ /\ e.mask = {"IN"} /\ pc' = "recv" /\ caller' = "recv"
        /\ UNCHANGED <<connVars, epollVars, clientVars, rx, stream>>
  BY DEF DispatchOut, DispatchIn
<1>2. PICK s \in Slots, c \in Clients :
        /\ s = e.slot /\ c = conn_fd[s] /\ reg[c] = s
        /\ \A f \in ClientEvents : f.slot = s => f = e
  BY EventSlots
<1>3. ~Handling /\ \A t \in Slots : ~Busy(t) /\ (t # s => ~Busy(t)')
  BY <1>1, <1>2 DEF Take, Handling, Busy
<1>4. \A f \in ClientEvents : f.slot # s => f \in ClientEvents'
  BY <1>1, <1>2 DEF Take, ClientEvents
<1>5. \A t \in Slots : SameSlot(t) BY <1>1 DEF SameSlot, connVars
<1>6. \A d \in Clients : SameSocket(d)
  BY <1>1 DEF SameSocket, Space, epollVars, clientVars
<1>7. \A t \in Slots, d \in Clients : t # s /\ conn_fd'[t] = d => Watched(t, d)'
  BY <1>3, <1>4, <1>5, <1>6, WatchOthers
<1>8. Watched(s, c)'
  <2>1. Watched(s, c) BY <1>2 DEF WatchInv
  <2>2. Busy(s)' BY <1>1, <1>2 DEF Busy, Handling
  <2>3. \A k : Noticed(c, k) => ready[c] \/ k \in e.mask
    BY <1>2 DEF Noticed
  <2>4. /\ Unseen(c)' <=> Unseen(c)
        /\ Held(s, c)' <=> Held(s, c)
        /\ Space(c)' = Space(c)
    BY <1>1 DEF Unseen, Held, OutLen, Space, connVars, clientVars
  <2>5. NoRead(s)' => (Unseen(c)' => ready'[c])
    <3>1. NoRead(s)' => "HUP" \notin e.mask /\ "IN" \notin e.mask
      BY <1>1 DEF NoRead
    <3>2. Unseen(c) => ready[c] \/ "IN" \in e.mask \/ "HUP" \in e.mask
      BY <1>3, <2>1, <2>3 DEF Watched
    <3> QED BY <1>1, <2>4, <3>1, <3>2 DEF epollVars
  <2>6. ~Unshifted(s) /\ ~Unshifted(s)' /\ pc' \notin {"rearm", "parse"}
    BY <1>1, <1>3 DEF Unshifted, Handling
  <2>7. (Held(s, c) => want_out[c])'
    BY <1>1, <1>3, <2>1, <2>4, <2>6 DEF Watched, epollVars
  <2>8. pc' # "send" => (Held(s, c) /\ Space(c) > 0 => Noticed(c, "OUT"))'
    <3>1. Held(s, c) /\ Space(c) > 0 => Noticed(c, "OUT")
      BY <1>3, <2>1 DEF Watched
    <3>2. pc' # "send" => "OUT" \notin e.mask BY <1>1
    <3>3. pc' # "send" => (Held(s, c) /\ Space(c) > 0 => ready[c])
      BY <2>3, <3>1, <3>2
    <3> QED BY <1>1, <2>4, <3>3 DEF Noticed, epollVars
  <2>9. Len(in_buf'[s]) < ReqParts[c]
    BY <1>1, <1>3, <2>1, <2>6 DEF Watched, connVars
  <2> QED BY <2>2, <2>5, <2>6, <2>7, <2>8, <2>9 DEF Watched
<1> QED BY <1>1, <1>2, <1>7, <1>8 DEF WatchInv, connVars

-----------------------------------------------------------------------------
(***************************************************************************)
(* The handlers at work on a slot.                                         *)
(***************************************************************************)
LEMMA HandlerWatch ==
  ASSUME IInv, WakeInv, Handling, UNCHANGED <<conn_fd, batch, cur>>,
         NEW s \in Slots, s = cur, NEW c \in Clients, c = conn_fd[cur],
         \A t \in Slots : t # cur => SameSlot(t),
         \A d \in Clients : d # c => SameSocket(d),
         Watched(s, c)'
  PROVE  WatchInv'
<1>1. reg[c] = s BY CurOpen
<1>2. \A t \in Slots : t # s => ~Busy(t) /\ ~Busy(t)' BY DEF Busy
<1>3. \A e \in ClientEvents : e \in ClientEvents' BY DEF ClientEvents
<1>4. \A d \in Clients : sock[d] = "open" /\ reg[d] # s => SameSocket(d)
  BY <1>1
<1>5. \A t \in Slots, d \in Clients : t # s /\ conn_fd'[t] = d => Watched(t, d)'
  BY <1>2, <1>3, <1>4, WatchOthers DEF WakeInv
<1> QED BY <1>5 DEF WatchInv

\* What the lemmas below know of the slot under work.
LEMMA CurWatch ==
  ASSUME IInv, StreamInv, WakeInv, Handling
  PROVE  \E s \in Slots, c \in Clients :
           /\ s = cur /\ c = conn_fd[cur] /\ reg[c] = s
           /\ Watched(s, c) /\ Busy(s) /\ Flow(s, c)
           /\ \A e \in ClientEvents : e.slot # s
           /\ \A k : Noticed(c, k) <=> ready[c]
<1>1. cur \in Slots /\ conn_fd[cur] \in Clients /\ reg[conn_fd[cur]] = cur
  BY CurOpen
<1>2. \A e \in ClientEvents : e.slot # cur BY DEF IInv, BatchFresh
<1> QED BY <1>1, <1>2, CurFlow DEF WakeInv, WatchInv, Busy, Noticed

\* recv would block: everything was read, and there is room again in in_buf.
LEMMA RecvAgainWatch ==
  ASSUME IInv, StreamInv, WakeInv, RecvAgain
  PROVE  WatchInv'
<1>1. /\ pc = "recv" /\ Handling /\ pc' = "loop"
      /\ UNCHANGED <<connVars, batch, cur, epollVars, peer, rx, stream, got>>
      /\ rx[conn_fd[cur]] = <<>> /\ peer[conn_fd[cur]] = "up"
  BY DEF RecvAgain, Handling, clientVars
<1>2. PICK s \in Slots, c \in Clients :
        /\ s = cur /\ c = conn_fd[cur] /\ Watched(s, c) /\ Busy(s)
        /\ \A k : Noticed(c, k) <=> ready[c]
  BY <1>1, CurWatch
<1>3. Watched(s, c)'
  <2>1. ~Unseen(c)' BY <1>1, <1>2 DEF Unseen
  <2>2. ~Busy(s)' /\ ~Unshifted(s) /\ ~Unshifted(s)' /\ ~NoRead(s)'
    BY <1>1 DEF Busy, Handling, Unshifted, NoRead
  <2>3. /\ Held(s, c)' <=> Held(s, c)
        /\ Space(c)' = Space(c)
    BY <1>1 DEF Held, OutLen, Space, connVars
  <2>4. Noticed(c, "OUT")' <=> Noticed(c, "OUT")
    BY <1>1 DEF Noticed, ClientEvents, epollVars
  <2> QED BY <1>1, <1>2, <2>1, <2>2, <2>3, <2>4
          DEF Watched, connVars, epollVars
<1> QED BY <1>1, <1>2, <1>3, HandlerWatch
        DEF SameSlot, SameSocket, Space, connVars, epollVars

LEMMA RecvDataWatch ==
  ASSUME IInv, StreamInv, WakeInv, RecvData
  PROVE  WatchInv'
<1>1. /\ pc = "recv" /\ Handling /\ pc' = "parse" /\ caller' = "recv"
      /\ \E b : in_buf' = [in_buf EXCEPT ![cur] = b]
      /\ \E b : rx' = [rx EXCEPT ![conn_fd[cur]] = b]
      /\ UNCHANGED <<conn_fd, out, out_pos, batch, cur, epollVars, peer, stream, got>>
  BY DEF RecvData, Handling, clientVars
<1>2. PICK s \in Slots, c \in Clients :
        /\ s = cur /\ c = conn_fd[cur] /\ Watched(s, c) /\ Busy(s)
        /\ \A k : Noticed(c, k) <=> ready[c]
  BY <1>1, CurWatch
<1>3. Watched(s, c)'
  <2>1. Busy(s)' /\ ~NoRead(s)' /\ ~Unshifted(s)
    BY <1>1, <1>2 DEF Busy, Handling, NoRead, Unshifted
  <2>2. /\ Held(s, c)' <=> Held(s, c)
        /\ Space(c)' = Space(c)
    BY <1>1 DEF Held, OutLen, Space
  <2>3. Noticed(c, "OUT")' <=> Noticed(c, "OUT")
    BY <1>1 DEF Noticed, ClientEvents, epollVars
  <2> QED BY <1>1, <1>2, <2>1, <2>2, <2>3 DEF Watched, epollVars
<1>4. \A t \in Slots : t # cur => SameSlot(t) BY <1>1 DEF SameSlot
<1>5. \A d \in Clients : d # c => SameSocket(d)
  BY <1>1, <1>2 DEF SameSocket, Space, epollVars
<1> QED BY <1>1, <1>2, <1>3, <1>4, <1>5, HandlerWatch

\* Nothing whole is left in in_buf.
LEMMA ParseNoneWatch ==
  ASSUME IInv, StreamInv, WakeInv, ParseNone
  PROVE  WatchInv'
<1>1. /\ pc = "parse" /\ Handling /\ pc' = AfterParse /\ ~Complete
      /\ UNCHANGED <<connVars, batch, cur, caller, also_in, epollVars, peer, rx,
                     stream, got>>
  BY DEF ParseNone, Handling, clientVars
<1>2. PICK s \in Slots, c \in Clients :
        /\ s = cur /\ c = conn_fd[cur] /\ Watched(s, c) /\ Busy(s) /\ reg[c] = s
        /\ \A k : Noticed(c, k) <=> ready[c]
  BY <1>1, CurWatch
<1>3. caller # "drain" BY <1>1 DEF WakeInv, HandlerCalls
<1>4. Len(in_buf[s]) < ReqParts[c]
  <2>1. ~(Len(in_buf[s]) >= ReqParts[c]) BY <1>1, <1>2 DEF Complete
  <2>2. in_buf[s] \in Seq(Nat) /\ ReqParts[c] \in Nat
    BY WorkerConstants DEF IInv, TypeOK
  <2>3. Len(in_buf[s]) \in Nat BY <2>2, LenProperties
  <2> QED BY <2>1, <2>2, <2>3
<1>5. Watched(s, c)'
  <2>1. ~Unshifted(s) /\ ~Unshifted(s)' /\ pc' \notin {"send", "rearm", "parse"}
    BY <1>1 DEF Unshifted, AfterParse
  <2>2. /\ Held(s, c)' <=> Held(s, c)
        /\ Space(c)' = Space(c)
        /\ Unseen(c)' <=> Unseen(c)
    BY <1>1 DEF Held, OutLen, Space, Unseen, connVars
  <2>3. \A k : Noticed(c, k)' <=> Noticed(c, k)
    BY <1>1 DEF Noticed, ClientEvents, epollVars
  <2>4. caller = "ctrl" => (Unseen(c) => ready[c])
    BY <1>2 DEF Watched, NoRead
  <2>5. ~NoRead(s)' /\ (caller # "ctrl" => Busy(s)')
    BY <1>1, <1>2, <1>3 DEF NoRead, Busy, Handling, AfterParse
  <2> QED BY <1>1, <1>2, <1>4, <2>1, <2>2, <2>3, <2>4, <2>5
          DEF Watched, connVars, epollVars
<1> QED BY <1>1, <1>2, <1>5, HandlerWatch
        DEF SameSlot, SameSocket, Space, connVars, epollVars

LEMMA ParseRequestWatch ==
  ASSUME IInv, StreamInv, WakeInv, ParseRequest
  PROVE  WatchInv'
<1>1. /\ pc = "parse" /\ Handling /\ pc' = "send"
      /\ \E b : out' = [out EXCEPT ![cur] = b]
      /\ \E b : out_pos' = [out_pos EXCEPT ![cur] = b]
      /\ UNCHANGED <<conn_fd, in_buf, batch, cur, caller, also_in, epollVars,
                     peer, rx, stream, got>>
  BY DEF ParseRequest, StartSend, Handling, clientVars, threadVars
<1>2. PICK s \in Slots, c \in Clients :
        /\ s = cur /\ c = conn_fd[cur] /\ Watched(s, c) /\ Busy(s)
  BY <1>1, CurWatch
<1>3. caller # "drain" BY <1>1 DEF WakeInv, HandlerCalls
<1>4. Watched(s, c)'
  <2>1. Unshifted(s)' /\ Busy(s)' BY <1>1, <1>2, <1>3 DEF Unshifted, Busy, Handling
  <2>2. NoRead(s)' => NoRead(s) BY <1>1, <1>2 DEF NoRead
  <2> QED BY <1>1, <1>2, <2>1, <2>2 DEF Watched, Unseen, epollVars
<1>5. \A t \in Slots : t # cur => SameSlot(t) BY <1>1 DEF SameSlot
<1>6. \A d \in Clients : SameSocket(d)
  BY <1>1 DEF SameSocket, Space, epollVars
<1> QED BY <1>1, <1>2, <1>4, <1>5, <1>6, HandlerWatch

LEMMA SendSomeWatch ==
  ASSUME IInv, StreamInv, WakeInv, SendSome
  PROVE  WatchInv'
<1>1. /\ pc = "send" /\ Handling /\ ~Sent /\ peer[conn_fd[cur]] # "rst"
      /\ \E b : stream' = [stream EXCEPT ![conn_fd[cur]] = b]
      /\ \E b : out_pos' = [out_pos EXCEPT ![cur] = b]
      /\ UNCHANGED <<conn_fd, in_buf, out, threadVars, epollVars, peer, rx, got>>
  BY DEF SendSome, Handling, clientVars
<1>2. PICK s \in Slots, c \in Clients :
        /\ s = cur /\ c = conn_fd[cur] /\ Watched(s, c) /\ Busy(s)
  BY <1>1, CurWatch
<1>3. Held(s, c)
  <2>1. out_pos[s] \in Nat /\ OutLen(s) \in Nat
    BY WorkerConstants DEF IInv, TypeOK, OutLen
  <2> QED BY <1>1, <1>2, <2>1 DEF Held, Sent
<1>4. Watched(s, c)'
  <2>1. /\ Busy(s)' /\ (Unshifted(s)' <=> Unshifted(s))
        /\ (NoRead(s)' <=> NoRead(s))
    BY <1>1, <1>2 DEF Unshifted, Busy, Handling, NoRead, threadVars
  <2> QED BY <1>1, <1>2, <1>3, <2>1
          DEF Watched, Unseen, epollVars, threadVars
<1>5. \A t \in Slots : t # cur => SameSlot(t) BY <1>1 DEF SameSlot
<1>6. \A d \in Clients : d # c => SameSocket(d)
  BY <1>1, <1>2 DEF SameSocket, Space, epollVars
<1> QED BY <1>1, <1>2, <1>4, <1>5, <1>6, HandlerWatch DEF threadVars

LEMMA ShiftWatch ==
  ASSUME IInv, StreamInv, WakeInv, SendDone \/ SendBlocked
  PROVE  WatchInv'
<1>1. /\ pc = "send" /\ Handling /\ caller # "drain"
      /\ \/ pc' = "parse" /\ Sent
         \/ pc' = "rearm"
      /\ \E b : in_buf' = [in_buf EXCEPT ![cur] = b]
      /\ in_buf'[cur] = <<>>
      /\ UNCHANGED <<conn_fd, out, out_pos, batch, cur, caller, also_in,
                     epollVars, peer, rx, stream, got>>
  <2>1. in_buf'[cur] = <<>> BY ShiftEmpties
  <2> QED BY <2>1 DEF SendDone, SendBlocked, SendStuck, ShiftBuf, AfterBlocked,
                      Handling, clientVars
<1>2. PICK s \in Slots, c \in Clients :
        /\ s = cur /\ c = conn_fd[cur] /\ Watched(s, c) /\ Busy(s)
  BY <1>1, CurWatch
<1>3. Watched(s, c)'
  <2>1. /\ Busy(s)' /\ ~Unshifted(s)' /\ (NoRead(s)' <=> NoRead(s))
    BY <1>1, <1>2 DEF Unshifted, Busy, Handling, NoRead
  <2>2. /\ out_pos[s] \in Nat /\ OutLen(s) \in Nat /\ ReqParts[c] \in Nat \ {0}
        /\ Len(<<>>) = 0
    BY WorkerConstants DEF IInv, TypeOK, OutLen
  <2>3. pc' = "rearm" \/ ~Held(s, c)'
    BY <1>1, <1>2, <2>2 DEF Sent, Held, OutLen
  <2>4. Len(in_buf'[s]) < ReqParts[c] BY <1>1, <1>2, <2>2
  <2> QED BY <1>1, <1>2, <2>1, <2>3, <2>4 DEF Watched, Unseen, epollVars
<1>4. \A t \in Slots : t # cur => SameSlot(t) BY <1>1 DEF SameSlot
<1>5. \A d \in Clients : SameSocket(d)
  BY <1>1 DEF SameSocket, Space, epollVars
<1> QED BY <1>1, <1>2, <1>3, <1>4, <1>5, HandlerWatch

LEMMA DrainWatch ==
  ASSUME IInv, StreamInv, WakeInv, DrainDone \/ DrainBlocked
  PROVE  WatchInv'
<1>1. PICK s \in Slots, c \in Clients :
        /\ s = cur /\ c = conn_fd[cur] /\ Watched(s, c) /\ Busy(s) /\ reg[c] = s
  <2>1. Handling BY DEF DrainDone, DrainBlocked, SendStuck, Handling
  <2> QED BY <2>1, CurWatch
<1>2. /\ pc = "send" /\ Handling /\ caller = "drain"
      /\ pc' = AfterDrain /\ EnterRecv
      /\ UNCHANGED <<connVars, batch, cur, also_in, peer, rx, stream, got>>
  BY DEF DrainDone, DrainBlocked, SendStuck, Handling, clientVars
<1>3. /\ reg' = reg
      /\ \A d \in Clients : d # c => want_out'[d] = want_out[d]
      /\ \A d \in Clients : ready[d] => ready'[d]
      /\ Sent \/ (want_out' = want_out /\ SendStuck)
  <2>1. CASE DrainDone BY <1>1, <2>1 DEF DrainDone, Register, IInv, TypeOK
  <2>2. CASE DrainBlocked BY <2>2 DEF DrainBlocked, epollVars
  <2> QED BY <2>1, <2>2
<1>4. Watched(s, c)'
  <2>1. ~Unshifted(s) /\ ~Unshifted(s)' /\ ~NoRead(s)' /\ pc' \in {"recv", "loop"}
    BY <1>1, <1>2 DEF Unshifted, NoRead, AfterDrain, EnterRecv, Busy, Handling
  <2>2. /\ Held(s, c)' <=> Held(s, c)
        /\ Space(c)' = Space(c)
        /\ Unseen(c)' <=> Unseen(c)
    BY <1>2 DEF Held, OutLen, Space, Unseen, connVars
  <2>3. ~Busy(s)' => (Unseen(c) => ready[c])
    <3>1. ~Busy(s)' => NoRead(s)
      BY <1>1, <1>2 DEF Busy, NoRead, AfterDrain, Handling
    <3> QED BY <1>1, <3>1 DEF Watched
  <2>4. Held(s, c) => want_out'[c] /\ ~(Space(c) > 0)
    <3>1. out_pos[s] \in Nat /\ OutLen(s) \in Nat
      BY WorkerConstants DEF IInv, TypeOK, OutLen
    <3>2. Space(c) \in Int
      <4>1. stream[c] \in Seq(Nat \X Nat) /\ got[c] \in Nat /\ SendCap \in Nat
        BY WorkerConstants DEF IInv, TypeOK
      <4>2. Len(stream[c]) \in Nat BY <4>1, LenProperties
      <4> QED BY <4>1, <4>2 DEF Space
    <3>3. Held(s, c) => ~Sent BY <1>1, <3>1 DEF Held, Sent
    <3>4. Held(s, c) => want_out[c] BY <1>1, <1>2, <2>1 DEF Watched
    <3> QED BY <1>1, <1>3, <3>2, <3>3, <3>4 DEF SendStuck, Held
  <2>5. Len(in_buf'[s]) < ReqParts[c]
    BY <1>1, <1>2, <2>1 DEF Watched, connVars
  <2>6. Unseen(c) /\ ready[c] => Noticed(c, "IN")' BY <1>3 DEF Noticed
  <2> QED BY <2>1, <2>2, <2>3, <2>4, <2>5, <2>6 DEF Watched
<1>5. \A t \in Slots : t # cur => SameSlot(t) BY <1>2 DEF SameSlot, connVars
<1>6. \A d \in Clients : d # c => SameSocket(d)
  BY <1>2, <1>3 DEF SameSocket, Space
<1> QED BY <1>1, <1>2, <1>4, <1>5, <1>6, HandlerWatch DEF connVars

\* EPOLL_CTL_MOD asks again for what is already there.
LEMMA RearmWatch ==
  ASSUME IInv, StreamInv, WakeInv, Rearm
  PROVE  WatchInv'
<1>1. PICK s \in Slots, c \in Clients :
        /\ s = cur /\ c = conn_fd[cur] /\ Watched(s, c) /\ Busy(s) /\ reg[c] = s
  <2>1. Handling BY DEF Rearm, Handling
  <2> QED BY <2>1, CurWatch
<1>2. /\ pc = "rearm" /\ Handling /\ pc' = AfterClose
      /\ Register(c, s, TRUE)
      /\ UNCHANGED <<connVars, batch, cur, caller, also_in, peer, rx, stream, got>>
  BY <1>1 DEF Rearm, Handling, clientVars
<1>3. /\ reg' = reg
      /\ \A d \in Clients : d # c => want_out'[d] = want_out[d]
      /\ \A d \in Clients : ready[d] => ready'[d]
      /\ want_out'[c] = TRUE
      /\ Poll(c) \cap Interest(TRUE) # {} => ready'[c]
  BY <1>1, <1>2 DEF Register, IInv, TypeOK
<1>4. Watched(s, c)'
  <2>1. ~Busy(s)' /\ ~NoRead(s)' /\ ~Unshifted(s)' /\ ~Unshifted(s)
    BY <1>2 DEF Busy, Handling, AfterClose, NoRead, Unshifted
  <2>2. /\ Space(c)' = Space(c)
        /\ Unseen(c)' <=> Unseen(c)
    BY <1>2 DEF Space, Unseen
  <2>3. Unseen(c) => ready'[c]
    <3>1. Unseen(c) => "IN" \in Poll(c) \cap Interest(TRUE)
      BY DEF Unseen, Poll, Interest
    <3> QED BY <1>3, <3>1
  <2>4. Space(c) > 0 => ready'[c]
    <3>1. Space(c) > 0 => "OUT" \in Poll(c) \cap Interest(TRUE)
      BY DEF Poll, Interest
    <3> QED BY <1>3, <3>1
  <2>5. Len(in_buf'[s]) < ReqParts[c]
    BY <1>1, <1>2, <2>1 DEF Watched, connVars
  <2>6. \A k : ready'[c] => Noticed(c, k)' BY DEF Noticed
  <2> QED BY <1>3, <2>1, <2>2, <2>3, <2>4, <2>5, <2>6 DEF Watched
<1>5. \A t \in Slots : t # cur => SameSlot(t) BY <1>2 DEF SameSlot, connVars
<1>6. \A d \in Clients : d # c => SameSocket(d)
  BY <1>2, <1>3 DEF SameSocket, Space
<1> QED BY <1>1, <1>2, <1>4, <1>5, <1>6, HandlerWatch DEF connVars

-----------------------------------------------------------------------------
(***************************************************************************)
(* Sockets come in, clients send, read and leave.                          *)
(***************************************************************************)
LEMMA TurnAwayWatch ==
  ASSUME IInv, WakeInv, NEW c \in Clients, sock[c] # "open",
         RefuseClient(c) \/ AddFails(c),
         UNCHANGED <<threadVars, peer, rx, stream, got>>
  PROVE  WatchInv'
<1>1. /\ UNCHANGED <<conn_fd, reg, want_out, ready>>
      /\ \A s \in Slots : conn_fd[s] # NoFd =>
           /\ in_buf'[s] = in_buf[s] /\ out'[s] = out[s]
           /\ out_pos'[s] = out_pos[s]
  BY TurnAwayFrame
<1>2. \A t \in Slots : /\ SameSlot(t)
                       /\ Busy(t)' <=> Busy(t)
                       /\ Busy(t) => UNCHANGED <<pc, caller, also_in>>
  BY <1>1, WorkerConstants DEF SameSlot, Busy, Handling, threadVars
<1>3. \A d \in Clients : SameSocket(d) BY <1>1 DEF SameSocket, Space
<1>4. \A e \in ClientEvents : e \in ClientEvents'
  BY DEF ClientEvents, threadVars
<1>5. \A t \in Slots, d \in Clients :
        t # NoSlot /\ conn_fd'[t] = d => Watched(t, d)'
  BY <1>2, <1>3, <1>4, WatchOthers DEF WakeInv
<1> QED BY <1>5, SlotFacts DEF WatchInv

\* A socket registered with data or a hang-up pending is ready at once.
LEMMA AdoptWatch ==
  ASSUME IInv, WakeInv, NEW c \in Clients, sock[c] # "open", NEW bytes,
         AdoptClient(c, bytes), UNCHANGED <<batch, peer, rx, stream, got>>,
         ~Handling,
         \/ Handling' /\ pc' = "parse" /\ cur' = TopSlot
         \/ ~Handling' /\ bytes = <<>>
  PROVE  WatchInv'
<1>1. PICK s \in Slots :
      /\ s = TopSlot /\ conn_fd[s] = NoFd /\ conn_fd'[s] = c
      /\ in_buf'[s] = BufferedPrefix(bytes) /\ out'[s] = 0 /\ out_pos'[s] = 0
      /\ Register(c, s, FALSE)
      /\ \A t \in Slots : t # s =>
           /\ conn_fd'[t] = conn_fd[t] /\ in_buf'[t] = in_buf[t]
           /\ out'[t] = out[t] /\ out_pos'[t] = out_pos[t]
  BY AdoptFrame
<1>2. \A t \in Slots : t # s => SameSlot(t) /\ ~Busy(t) /\ ~Busy(t)'
  BY <1>1 DEF SameSlot, Busy, Handling
<1>3. /\ reg'[c] = s /\ want_out'[c] = FALSE
      /\ Poll(c) \cap Interest(FALSE) # {} => ready'[c]
      /\ \A d \in Clients : d # c => SameSocket(d)
  BY <1>1 DEF Register, SameSocket, Space, IInv, TypeOK
<1>4. \A e \in ClientEvents : e \in ClientEvents' BY DEF ClientEvents
<1>5. \A d \in Clients : sock[d] = "open" /\ reg[d] # s => SameSocket(d)
  BY <1>3
<1>6. \A t \in Slots, d \in Clients : t # s /\ conn_fd'[t] = d => Watched(t, d)'
  BY <1>2, <1>4, <1>5, WatchOthers DEF WakeInv
<1>7. Watched(s, c)'
  <2>1. Unseen(c)' => ready'[c]
    <3>1. Unseen(c)' <=> Unseen(c) BY DEF Unseen
    <3>2. Unseen(c) => "IN" \in Poll(c) \cap Interest(FALSE)
      BY DEF Unseen, Poll, Interest
    <3> QED BY <1>3, <3>1, <3>2
  <2>2. ~Held(s, c)' BY <1>1 DEF Held, OutLen
  <2>3. ~Handling' => Len(in_buf'[s]) < ReqParts[c]
    <3>1. Len(<<>>) = 0 /\ ReqParts[c] \in Nat \ {0} /\ BUF_SIZE \in Nat
      BY WorkerConstants
    <3>2. bytes = <<>> => BufferedPrefix(bytes) = <<>>
      BY <3>1 DEF BufferedPrefix
    <3> QED BY <1>1, <3>1, <3>2
  <2>4. Handling' => (Busy(s) /\ pc = "parse")'
    BY <1>1 DEF Busy, Handling
  <2>5. \A k : ready'[c] => Noticed(c, k)' BY DEF Noticed
  <2> QED BY <2>1, <2>2, <2>3, <2>4, <2>5 DEF Watched
<1>8. \A d \in Clients : conn_fd'[s] = d => d = c BY <1>1
<1> QED BY <1>6, <1>7, <1>8 DEF WatchInv

LEMMA AcceptWatch ==
  ASSUME IInv, WakeInv, AcceptClient \/ CtrlRecv
  PROVE  WatchInv'
<1>1. PICK c \in Clients :
        /\ sock[c] # "open"
        /\ \/ (RefuseClient(c) \/ AddFails(c)) /\ UNCHANGED <<pc, cur, caller>>
           \/ \E bytes : /\ AdoptClient(c, bytes)
                         /\ \/ pc' = "parse" /\ cur' = TopSlot
                            \/ pc' = pc /\ bytes = <<>>
        /\ ~Handling /\ (pc' = pc => ~Handling')
        /\ UNCHANGED <<batch, also_in, peer, rx, stream, got>>
  BY DEF AcceptClient, CtrlRecv, Queued, Passed, Handling, clientVars, threadVars
<1>2. CASE (RefuseClient(c) \/ AddFails(c)) /\ UNCHANGED <<pc, cur, caller>>
  BY <1>1, <1>2, TurnAwayWatch DEF threadVars
<1>3. CASE \E bytes : /\ AdoptClient(c, bytes)
                      /\ \/ pc' = "parse" /\ cur' = TopSlot
                         \/ pc' = pc /\ bytes = <<>>
  <2>1. pc' = "parse" => Handling' BY DEF Handling
  <2> QED BY <1>1, <1>3, <2>1, AdoptWatch
<1> QED BY <1>1, <1>2, <1>3

\* Whatever a client does wakes the registration, if it concerns it.
LEMMA ClientWatch ==
  ASSUME IInv, WakeInv, NEW c \in Clients, NEW k, Wake(c, k),
         UNCHANGED <<connVars, threadVars, reg, want_out, stream>>,
         \A d \in Clients : d # c =>
           rx'[d] = rx[d] /\ peer'[d] = peer[d] /\ got'[d] = got[d],
         Unseen(c)' => Unseen(c) \/ k \in {"IN", "HUP"},
         peer'[c] # "rst" => peer[c] # "rst",
         (Space(c) > 0)' => Space(c) > 0 \/ k = "OUT"
  PROVE  WatchInv'
<1>1. /\ \A d \in Clients : ready[d] => ready'[d]
      /\ reg[c] # NoSlot /\ k \in Interest(want_out[c]) => ready'[c]
  BY DEF Wake, IInv, TypeOK
<1>2. ClientEvents' = ClientEvents BY DEF ClientEvents, threadVars
<1>3. PICK s : s = reg[c] OBVIOUS
<1>4. \A d \in Clients : sock[d] = "open" /\ reg[d] # s => SameSocket(d)
  BY <1>1, <1>3 DEF SameSocket, Space
<1>5. \A t \in Slots : /\ SameSlot(t)
                       /\ Busy(t)' <=> Busy(t)
                       /\ Busy(t) => UNCHANGED <<pc, caller, also_in>>
  BY DEF SameSlot, Busy, Handling, connVars, threadVars
<1>6. \A t \in Slots, d \in Clients : t # s /\ conn_fd'[t] = d => Watched(t, d)'
  BY <1>2, <1>4, <1>5, WatchOthers DEF WakeInv
<1>7. ASSUME s \in Slots, conn_fd[s] = c PROVE Watched(s, c)'
  <2>1. Watched(s, c) BY <1>7 DEF WakeInv, WatchInv
  <2>2. /\ NoRead(s)' <=> NoRead(s)
        /\ Unshifted(s)' <=> Unshifted(s)
        /\ Busy(s)' <=> Busy(s)
        /\ pc' = pc /\ in_buf'[s] = in_buf[s] /\ want_out'[c] = want_out[c]
    BY DEF NoRead, Unshifted, Busy, Handling, connVars, threadVars
  <2>3. \A x : Noticed(c, x) => Noticed(c, x)'
    BY <1>1, <1>2, NoticedFrame
  <2>4. Held(s, c)' => Held(s, c) BY DEF Held, OutLen, connVars
  <2>5. Unseen(c)' => Unseen(c) \/ ready'[c]
    BY <1>1, <1>3, <1>7, SlotFacts DEF Interest
  <2>6. want_out[c] /\ k = "OUT" => ready'[c]
    BY <1>1, <1>3, <1>7, SlotFacts DEF Interest
  <2>7. \A x : ready'[c] => Noticed(c, x)' BY DEF Noticed
  <2>8. ~Unshifted(s) /\ ~(Busy(s) /\ pc = "rearm") =>
          (Held(s, c)' => Held(s, c) /\ want_out[c])
    BY <2>1, <2>4 DEF Watched
  <2>9. (~(Busy(s) /\ pc \in {"send", "rearm"}))' =>
          ((Held(s, c) /\ Space(c) > 0)' => Noticed(c, "OUT")')
    <3>1. SUFFICES ASSUME ~(Busy(s) /\ pc \in {"send", "rearm"}),
                          Held(s, c)', (Space(c) > 0)'
                   PROVE  Noticed(c, "OUT")'
      BY <2>2
    <3>2. ~Unshifted(s) /\ ~(Busy(s) /\ pc = "rearm")
      BY <3>1 DEF Unshifted, Busy, Handling
    <3>3. Held(s, c) /\ want_out[c] BY <2>8, <3>1, <3>2
    <3>4. CASE k = "OUT" BY <2>6, <2>7, <3>3, <3>4
    <3>5. CASE k # "OUT"
      BY <2>1, <2>3, <3>1, <3>3, <3>5 DEF Watched
    <3> QED BY <3>4, <3>5
  <2>10. (~Busy(s))' => (Unseen(c)' => Noticed(c, "IN")' \/ Noticed(c, "HUP")')
    BY <2>1, <2>2, <2>3, <2>5, <2>7 DEF Watched
  <2>11. NoRead(s)' => (Unseen(c)' => ready'[c])
    BY <1>1, <2>1, <2>2, <2>5 DEF Watched
  <2>12. (~Unshifted(s) /\ ~(Busy(s) /\ pc = "parse"))' =>
           Len(in_buf'[s]) < ReqParts[c]
    BY <2>1, <2>2 DEF Watched
  <2> QED BY <2>2, <2>8, <2>9, <2>10, <2>11, <2>12 DEF Watched
<1>8. \A t \in Slots, d \in Clients : conn_fd[t] = d /\ t = s => d = c
  BY <1>3, SlotFacts DEF IInv, OneOwner
<1> QED BY <1>6, <1>7, <1>8 DEF WatchInv, connVars

LEMMA ClientStepWatch ==
  ASSUME IInv, WakeInv, NEW c \in Clients,
         ClientSend(c) \/ ClientRead(c) \/ ClientLeave(c)
  PROVE  WatchInv'
<1>1. CASE ClientSend(c)
  <2>1. /\ Wake(c, "IN")
        /\ UNCHANGED <<connVars, threadVars, reg, want_out, stream, peer, got>>
        /\ \A d \in Clients : d # c => rx'[d] = rx[d]
    BY <1>1 DEF ClientSend, IInv, TypeOK
  <2> QED BY <2>1, ClientWatch DEF Space
<1>2. CASE ClientRead(c)
  <2>1. /\ Wake(c, "OUT")
        /\ UNCHANGED <<connVars, threadVars, reg, want_out, stream, peer, rx>>
        /\ \A d \in Clients : d # c => got'[d] = got[d]
    BY <1>2 DEF ClientRead, IInv, TypeOK
  <2> QED BY <2>1, ClientWatch DEF Unseen
<1>3. CASE ClientLeave(c)
  <2>1. /\ Wake(c, "HUP") /\ peer[c] # "rst"
        /\ UNCHANGED <<connVars, threadVars, reg, want_out, stream, got, rx>>
        /\ \A d \in Clients : d # c => peer'[d] = peer[d]
    BY <1>3 DEF ClientLeave, IInv, TypeOK
  <2> QED BY <2>1, ClientWatch DEF Space
<1> QED BY <1>1, <1>2, <1>3

LEMMA WatchStep ==
  ASSUME IInv, StreamInv, WakeInv, [Next]_vars
  PROVE  WatchInv'
<1>1. CASE Wait \/ Dispatch
  BY <1>1, WaitWatch, QuietWatch, CloseWatch, TakeWatch DEF Dispatch, WakeInv
<1>2. CASE Handle
  BY <1>2, AcceptWatch, QuietWatch, CloseWatch, RecvAgainWatch, RecvDataWatch,
     ParseNoneWatch, ParseRequestWatch, SendSomeWatch, ShiftWatch, DrainWatch,
     RearmWatch
     DEF Handle, WakeInv
<1>3. CASE \E c \in Clients : ClientStep(c)
  BY <1>3, QuietWatch, ClientStepWatch DEF ClientStep, WakeInv
<1>4. CASE \E l \in LBs : LBStep(l)
  BY <1>4, QuietWatch DEF WakeInv
<1>5. CASE UNCHANGED vars BY <1>5, QuietWatch DEF WakeInv
<1> QED BY <1>1, <1>2, <1>3, <1>4, <1>5 DEF Next, WorkerStep

-----------------------------------------------------------------------------
\* What holds of the worker while no client pipelines.
FlowInv == IInv /\ StreamInv /\ WakeInv

LEMMA InitFlow == ASSUME Init PROVE FlowInv
<1>1. HandlerCalls BY DEF Init, HandlerCalls, Handling
<1>2. HupEvents BY DEF Init, HupEvents, ClientEvents
<1>3. WatchInv BY WorkerConstants DEF Init, WatchInv
<1> QED BY <1>1, <1>2, <1>3, InitIInv, InitStream DEF FlowInv, WakeInv

LEMMA FlowStep ==
  ASSUME FlowInv, ~Pipelining, [Next]_vars
  PROVE  FlowInv'
<1>1. IInv' BY StepIInv DEF FlowInv
<1>2. StreamInv' BY StreamStep DEF FlowInv, WakeInv
<1>3. WakeInv'
  BY CallsStep, HupStep, WatchStep DEF FlowInv, WakeInv
<1> QED BY <1>1, <1>2, <1>3 DEF FlowInv

LEMMA FlowInductive == ASSUME ~Pipelining PROVE Spec => []FlowInv
<1>1. Init => FlowInv BY InitFlow
<1>2. FlowInv /\ [Next]_vars => FlowInv' BY FlowStep
<1> QED BY <1>1, <1>2, PTL DEF Spec

\* A client that waits for each answer receives whole responses, in order and
\* never more than it has asked for, however requests are cut by the network
\* and responses by a full send buffer (onRecv, drainSendNow, shiftBuf).
THEOREM ResponsesCorrect == ASSUME ~Pipelining PROVE Spec => []ResponsesIntact
<1>1. FlowInv => ResponsesIntact
  BY DEF FlowInv, StreamInv, ClientFlow, Intact, Merited, ResponsesIntact
<1> QED BY <1>1, FlowInductive, PTL

\* The worker never goes to sleep on a connection it owes something: unread
\* data, a hang-up, room for a held response or a whole request in in_buf
\* always has an event on its way (edge-triggered epoll, EPOLLOUT armed only
\* while a response is held back).
THEOREM WakeupsCorrect == ASSUME ~Pipelining PROVE Spec => []NoLostWakeup
<1>1. ASSUME FlowInv, NEW s \in Slots, conn_fd[s] # NoFd,
             ~(Handling /\ cur = s)
      PROVE  LET c == conn_fd[s] IN
             /\ rx[c] # <<>> => Noticed(c, "IN") \/ Noticed(c, "HUP")
             /\ peer[c] # "up" => Noticed(c, "IN") \/ Noticed(c, "HUP")
             /\ out_pos[s] < OutLen(s) /\ peer[c] # "rst" =>
                  want_out[c] /\ (Space(c) > 0 => Noticed(c, "OUT"))
             /\ Len(in_buf[s]) >= ReqParts[c] => ready[c]
  <2>1. PICK c \in Clients : c = conn_fd[s] /\ Watched(s, c)
    BY <1>1 DEF FlowInv, WakeInv, WatchInv, IInv, TypeOK
  <2>2. ~Busy(s) /\ ~Unshifted(s) BY <1>1 DEF Busy, Unshifted, Handling
  <2>3. ~(Len(in_buf[s]) >= ReqParts[c])
    <3>1. in_buf[s] \in Seq(Nat) /\ ReqParts[c] \in Nat
      BY <1>1, WorkerConstants DEF FlowInv, IInv, TypeOK
    <3>2. Len(in_buf[s]) \in Nat BY <3>1, LenProperties
    <3>3. Len(in_buf[s]) < ReqParts[c] BY <2>1, <2>2 DEF Watched
    <3> QED BY <3>1, <3>2, <3>3
  <2> QED BY <2>1, <2>2, <2>3 DEF Watched, Unseen, Held
<1>2. FlowInv => NoLostWakeup BY <1>1 DEF NoLostWakeup
<1> QED BY <1>2, FlowInductive, PTL

-----------------------------------------------------------------------------
(***************************************************************************)
(* Descriptors on their way from a load balancer.                          *)
(***************************************************************************)
\* A descriptor queues on a connection that is not closed, and the worker has
\* exactly the connection that was accepted.
CtrlLines ==
  /\ \A c \in Clients : sock[c] = "passed" => lb[via[c]] \notin {"none", "dead"}
  /\ \A l \in LBs : (lb[l] \in {"conn", "conn_eof"}) <=> (ctrl_conn = l)

PassedOn == \A c \in Clients : sock[c] = "passed" => via[c] \in LBs

PassInv == CtrlLines /\ PassedOn

\* Steps that leave the control connections alone.
LEMMA PassFrame ==
  ASSUME PassInv, UNCHANGED <<lb, via, ctrl_conn>>,
         \A c \in Clients : sock'[c] = "passed" => sock[c] = "passed"
  PROVE  PassInv'
  BY DEF PassInv, PassedOn, CtrlLines

LEMMA PassWorker ==
  ASSUME IInv, PassInv, WorkerStep
  PROVE  PassInv'
<1>1. CASE UNCHANGED <<lb, via, ctrl_conn, sock>> BY <1>1, PassFrame
<1>2. CASE DispatchHup \/ RecvNoRoom \/ RecvEnd \/ ParseBad
  <2>1. PICK s \in Slots : conn_fd[s] # NoFd /\ CloseConn(s) /\ UNCHANGED passVars
    <3>1. CASE DispatchHup
      <4>1. PICK e \in ClientEvents : CloseConn(e.slot) /\ UNCHANGED passVars
        BY <3>1 DEF DispatchHup
      <4> QED BY <4>1, EventSlots
    <3>2. CASE RecvNoRoom \/ RecvEnd \/ ParseBad
      <4>1. Handling /\ CloseConn(cur) /\ UNCHANGED passVars
        BY <3>2 DEF RecvNoRoom, RecvEnd, ParseBad, CloseCur, Handling
      <4> QED BY <4>1, CurOpen
    <3> QED BY <1>2, <3>1, <3>2
  <2>2. \A c \in Clients : sock'[c] = "passed" => sock[c] = "passed"
    BY <2>1, CloseFrame
  <2> QED BY <2>1, <2>2, PassFrame DEF passVars
<1>3. CASE AcceptClient \/ CtrlRecv
  <2>1. PICK c \in Clients, x \in {"open", "closed"} : sock' = [sock EXCEPT ![c] = x]
    BY <1>3 DEF AcceptClient, CtrlRecv, Queued, Passed, RefuseClient, AddFails,
                AdoptClient
  <2>2. \A d \in Clients : sock'[d] = "passed" => sock[d] = "passed"
    BY <2>1 DEF IInv, TypeOK
  <2>3. UNCHANGED <<lb, via, ctrl_conn>>
    BY <1>3 DEF AcceptClient, CtrlRecv, passVars
  <2> QED BY <2>2, <2>3, PassFrame
<1>4. ASSUME NEW l \in LBs, DropCtrl(l), UNCHANGED via
      PROVE  /\ \A c \in Clients : sock'[c] = "passed" =>
                  sock[c] = "passed" /\ via'[c] = via[c] /\ via[c] # l
             /\ lb'[l] = "dead" /\ \A m \in LBs : m # l => lb'[m] = lb[m]
  BY <1>4 DEF DropCtrl, Passed, IInv, TypeOK
<1>5. CASE AcceptCtrl
  <2>1. PICK l \in Pending :
          \/ /\ ctrl_conn' = l
             /\ lb' = [lb EXCEPT ![l] = IF @ = "pending" THEN "conn" ELSE "conn_eof"]
             /\ UNCHANGED sock
          \/ DropCtrl(l) /\ UNCHANGED ctrl_conn
    BY <1>5 DEF AcceptCtrl
  <2>2. /\ l \in LBs /\ lb[l] \in {"pending", "pending_eof"} /\ ctrl_conn = NoLB
        /\ UNCHANGED via
    BY <1>5 DEF AcceptCtrl, Pending
  <2>3. CASE DropCtrl(l) /\ UNCHANGED ctrl_conn
    BY <1>4, <2>2, <2>3 DEF PassInv, PassedOn, CtrlLines
  <2>4. CASE /\ ctrl_conn' = l
             /\ lb' = [lb EXCEPT ![l] = IF @ = "pending" THEN "conn" ELSE "conn_eof"]
             /\ UNCHANGED sock
    <3>1. lb'[l] \in {"conn", "conn_eof"} /\ \A m \in LBs : m # l => lb'[m] = lb[m]
      BY <2>2, <2>4 DEF IInv, TypeOK
    <3> QED BY <2>2, <2>4, <3>1, WorkerConstants
            DEF PassInv, PassedOn, CtrlLines
  <2> QED BY <2>1, <2>3, <2>4
<1>6. CASE RejectCtrl
  <2>1. PICK l \in Pending : DropCtrl(l) BY <1>6 DEF RejectCtrl
  <2>2. /\ l \in LBs /\ lb[l] \in {"pending", "pending_eof"}
        /\ UNCHANGED <<via, ctrl_conn>>
    BY <1>6 DEF RejectCtrl, Pending
  <2> QED BY <1>4, <2>1, <2>2 DEF PassInv, PassedOn, CtrlLines
<1>7. CASE CtrlEof
  <2>1. ctrl_conn \in LBs
    BY <1>7 DEF CtrlEof, IInv, TypeOK, BatchFresh
  <2>2. DropCtrl(ctrl_conn) /\ ctrl_conn' = NoLB /\ UNCHANGED via
    BY <1>7 DEF CtrlEof
  <2> QED BY <1>4, <2>1, <2>2, WorkerConstants
          DEF PassInv, PassedOn, CtrlLines
<1> QED
  BY <1>1, <1>2, <1>3, <1>5, <1>6, <1>7
     DEF WorkerStep, Wait, Dispatch, DispatchListen, DispatchCtrlConn,
         DispatchOut, DispatchIn, Handle, AcceptDone, CtrlAgain, RecvData,
         RecvAgain, ParseNone, ParseRequest, SendSome, SendDone, SendBlocked,
         DrainDone, DrainBlocked, Rearm, passVars

LEMMA PassEnvironment ==
  ASSUME IInv, PassInv,
         \/ \E c \in Clients : ClientStep(c)
         \/ \E l \in LBs : LBStep(l)
  PROVE  PassInv'
<1>1. CASE \E c \in Clients : ClientStep(c)
  <2>1. UNCHANGED <<lb, via, ctrl_conn>>
    BY <1>1 DEF ClientStep, Connect, ClientSend, ClientRead, ClientLeave, passVars
  <2>2. \A c \in Clients : sock'[c] = "passed" => sock[c] = "passed"
    BY <1>1 DEF ClientStep, Connect, ClientSend, ClientRead, ClientLeave, IInv,
                TypeOK
  <2> QED BY <2>1, <2>2, PassFrame
<1>2. CASE \E l \in LBs : LBConnect(l) \/ LBExit(l)
  BY <1>2 DEF LBConnect, LBExit, PassInv, PassedOn, CtrlLines, IInv,
              TypeOK
<1>3. CASE \E l \in LBs, c \in Clients : LBPass(l, c)
  <2>1. PICK l \in LBs, c \in Clients :
          /\ lb[l] \in {"pending", "conn"} /\ sock' = [sock EXCEPT ![c] = "passed"]
          /\ via' = [via EXCEPT ![c] = l] /\ UNCHANGED <<lb, ctrl_conn>>
    BY <1>3 DEF LBPass
  <2>2. \A d \in Clients : \/ d = c /\ via'[d] = l
                           \/ sock'[d] = sock[d] /\ via'[d] = via[d]
    BY <2>1 DEF IInv, TypeOK
  <2> QED BY <2>1, <2>2 DEF PassInv, PassedOn, CtrlLines
<1> QED BY <1>1, <1>2, <1>3 DEF LBStep

LEMMA PassInductive == Spec => []PassInv
<1>1. Init => PassInv
  BY WorkerConstants DEF Init, PassInv, PassedOn, CtrlLines
<1>2. IInv /\ PassInv /\ [Next]_vars => PassInv'
  <2>1. UNCHANGED vars /\ PassInv => PassInv'
    BY DEF vars, passVars, PassInv, PassedOn, CtrlLines
  <2> QED BY <2>1, PassWorker, PassEnvironment DEF Next
<1> QED BY <1>1, <1>2, InductiveInvariant, PTL DEF Spec

\* A descriptor a load balancer passed waits on the control connection the
\* worker has accepted or has yet to accept, never on one it refused or gave up;
\* one the worker received is in exactly one slot, or closed and in none
\* (acceptCtrl, onCtrlRecv, addClientFd, closeConn).
THEOREM DescriptorsCorrect == Spec => []NoStrandedDescriptor
<1>1. ASSUME IInv, PassInv PROVE NoStrandedDescriptor
  <2>1. ASSUME NEW c \in Clients, sock[c] = "passed"
        PROVE  via[c] \in Pending \cup {ctrl_conn}
    <3>1. via[c] \in LBs /\ lb[via[c]] \notin {"none", "dead"}
      BY <1>1, <2>1 DEF PassInv, PassedOn, CtrlLines
    <3>2. lb[via[c]] \in {"pending", "pending_eof", "conn", "conn_eof"}
      BY <1>1, <3>1 DEF IInv, TypeOK
    <3> QED BY <1>1, <3>1, <3>2 DEF PassInv, CtrlLines, Pending
  <2>2. ASSUME NEW c \in Clients, sock[c] = "open"
        PROVE  \E s \in Slots : Holders(c) = {s}
    <3>1. reg[c] \in Slots /\ conn_fd[reg[c]] = c
      BY <1>1, <2>2 DEF IInv, OneOwner, TypeOK
    <3>2. Holders(c) = {reg[c]}
      BY <1>1, <3>1, WorkerConstants DEF Holders, IInv, OneOwner
    <3> QED BY <3>1, <3>2
  <2>3. ASSUME NEW c \in Clients, sock[c] # "open" PROVE Holders(c) = {}
    <3>1. reg[c] = NoSlot BY <1>1, <2>3 DEF IInv, OneOwner
    <3>2. ASSUME NEW s \in Slots, conn_fd[s] = c PROVE FALSE
      <4>1. reg[c] = s BY <1>1, <3>2, WorkerConstants DEF IInv, OneOwner
      <4> QED BY <3>1, <3>2, <4>1 DEF Slots, NoSlot
    <3> QED BY <3>2 DEF Holders
  <2>4. \A l \in LBs : (lb[l] \in {"conn", "conn_eof"}) <=> (ctrl_conn = l)
    BY <1>1 DEF PassInv, CtrlLines
  <2> QED BY <2>1, <2>2, <2>3, <2>4 DEF NoStrandedDescriptor
<1> QED BY <1>1, InductiveInvariant, PassInductive, PTL

-----------------------------------------------------------------------------
(***************************************************************************)
(* Why a connection is closed.                                             *)
(***************************************************************************)
\* The steps that close the slot they are about.
LEMMA ClosesOne ==
  ASSUME IInv, NEW s \in Slots, conn_fd[s] # NoFd, CloseConn(s),
         NEW d \in Clients, sock[d] # "closed", sock'[d] = "closed"
  PROVE  d = conn_fd[s] /\ sock[d] = "open"
<1>1. d = conn_fd[s] BY CloseFrame
<1> QED BY <1>1, OpenSlot

LEMMA HupCause ==
  ASSUME FlowInv, DispatchHup, NEW d \in Clients, sock[d] # "closed",
         sock'[d] = "closed"
  PROVE  CloseCause(d)
<1>1. PICK e \in ClientEvents : "HUP" \in e.mask /\ CloseConn(e.slot)
  BY DEF DispatchHup
<1>2. peer[conn_fd[e.slot]] # "up" BY <1>1 DEF FlowInv, WakeInv, HupEvents
<1>3. e.slot \in Slots /\ conn_fd[e.slot] # NoFd BY EventSlots DEF FlowInv
<1>4. d = conn_fd[e.slot] /\ sock[d] = "open"
  BY <1>1, <1>3, ClosesOne DEF FlowInv
<1> QED BY <1>2, <1>4 DEF CloseCause

LEMMA RecvCause ==
  ASSUME FlowInv, RecvNoRoom \/ RecvEnd, NEW d \in Clients,
         sock[d] # "closed", sock'[d] = "closed"
  PROVE  CloseCause(d)
<1>1. /\ pc = "recv" /\ Handling /\ CloseConn(cur)
      /\ BufferFull \/ peer[conn_fd[cur]] # "up"
  BY DEF RecvNoRoom, RecvEnd, CloseCur, Handling
<1>2. cur \in Slots /\ conn_fd[cur] # NoFd BY <1>1, CurOpen DEF FlowInv
<1>3. d = conn_fd[cur] /\ sock[d] = "open"
  BY <1>1, <1>2, ClosesOne DEF FlowInv
<1>4. CASE BufferFull
  <2>1. Len(in_buf[cur]) < ReqParts[d]
    <3>1. Watched(cur, d) BY <1>2, <1>3 DEF FlowInv, WakeInv, WatchInv
    <3> QED BY <1>1, <3>1 DEF Watched, Unshifted
  <2>2. Len(in_buf[cur]) >= BUF_SIZE BY <1>4 DEF BufferFull
  <2>3. in_buf[cur] \in Seq(Nat) BY <1>2 DEF FlowInv, IInv, TypeOK
  <2>4. Len(in_buf[cur]) \in Nat /\ ReqParts[d] \in Nat /\ BUF_SIZE \in Nat
    BY <2>3, LenProperties, WorkerConstants
  <2>5. ReqParts[d] > BUF_SIZE BY <2>1, <2>2, <2>4
  <2> QED BY <1>3, <2>5 DEF CloseCause
<1>5. CASE ~BufferFull BY <1>1, <1>3, <1>5 DEF CloseCause
<1> QED BY <1>4, <1>5

LEMMA BadCause ==
  ASSUME FlowInv, ParseBad, NEW d \in Clients, sock[d] # "closed",
         sock'[d] = "closed"
  PROVE  CloseCause(d)
<1>1. pc = "parse" /\ Handling /\ CloseConn(cur) /\ IsBad
  BY DEF ParseBad, CloseCur, Handling
<1>2. /\ cur \in Slots /\ conn_fd[cur] # NoFd /\ Flow(cur, conn_fd[cur])
      /\ ClientFlow(conn_fd[cur])
  BY <1>1, CurFlow, CurOpen DEF FlowInv
<1>3. d = conn_fd[cur] /\ sock[d] = "open"
  BY <1>1, <1>2, ClosesOne DEF FlowInv
<1>4. /\ in_buf[cur] \in Seq(Nat) /\ rx[d] \in Seq(Nat) /\ out[cur] \in Nat
      /\ sent[d] \in Nat /\ ReqParts[d] \in Nat \ {0} /\ MaxReq \in Nat
  BY <1>2, WorkerConstants DEF FlowInv, IInv, TypeOK
<1>5. Unread(cur) = in_buf[cur] BY <1>1 DEF Unread, Unshifted
<1>6. PICK q, r, m, i, j, a \in Nat :
        /\ q = out[cur] /\ r = ReqParts[d] /\ m = q * r /\ a = sent[d]
        /\ i = Len(in_buf[cur]) /\ j = Len(rx[d])
  <2>1. Len(in_buf[cur]) \in Nat /\ Len(rx[d]) \in Nat BY <1>4, LenProperties
  <2>2. out[cur] * ReqParts[d] \in Nat BY <1>4, Multiples
  <2> QED BY <1>4, <2>1, <2>2
<1>7. i >= r /\ m + i + j <= a /\ a <= MaxReq * r
  BY <1>1, <1>2, <1>3, <1>5, <1>6 DEF IsBad, Complete, Flow, ClientFlow
<1>8. (q + 1) * r = m + r /\ (q + 1) * r <= a
  <2>1. (q + 1) * r = q * r + r BY Multiples
  <2> QED BY <1>6, <1>7, <2>1
<1>9. q + 1 \in 1 .. MaxReq
  <2>1. (q + 1) * r <= MaxReq * r /\ r > 0
    <3>1. (q + 1) * r \in Nat /\ MaxReq * r \in Nat BY <1>4, Multiples
    <3>2. PICK x, y \in Nat : x = (q + 1) * r /\ y = MaxReq * r BY <3>1
    <3>3. x <= a /\ a <= y BY <1>7, <1>8, <3>2
    <3>4. x <= y BY <3>3
    <3>5. r > 0 BY <1>4, <1>6
    <3> QED BY <3>2, <3>4, <3>5
  <2>2. q + 1 <= MaxReq
    <3>1. SUFFICES ASSUME q + 1 > MaxReq PROVE FALSE BY <1>4
    <3>2. MaxReq + 1 <= q + 1 /\ MaxReq + 1 \in Nat BY <1>4, <3>1
    <3>3. (MaxReq + 1) * r <= (q + 1) * r /\ (MaxReq + 1) * r = MaxReq * r + r
      BY <1>4, <3>2, Multiples
    <3>4. MaxReq * r \in Nat /\ (q + 1) * r \in Nat BY <1>4, Multiples
    <3> QED BY <2>1, <3>3, <3>4
  <2> QED BY <1>4, <2>2
<1>10. <<d, q + 1>> \in BadReqs
  <2>1. 1 \in 1 .. Len(in_buf[cur]) BY <1>4, <1>6, <1>7
  <2>2. in_buf[cur][1] = q + 1
    BY <1>2, <1>3, <1>5, <1>6, <2>1 DEF Flow, AllAre
  <2>3. Head(in_buf[cur]) = in_buf[cur][1]
    <3>1. in_buf[cur] # <<>> BY <2>1, <1>4, EmptySeq
    <3> QED BY <1>4, <3>1, HeadTailProperties
  <2> QED BY <1>1, <1>3, <2>2, <2>3 DEF IsBad
<1>11. sent[d] >= (q + 1) * ReqParts[d] BY <1>6, <1>8
<1>12. SentBad(d) BY <1>9, <1>10, <1>11 DEF SentBad
<1> QED BY <1>3, <1>12 DEF CloseCause

\* A socket turned away, and those queued on a dropped control connection.
LEMMA TurnAwayCause ==
  ASSUME FlowInv, PassInv,
         AcceptClient \/ CtrlRecv \/ AcceptCtrl \/ RejectCtrl \/ CtrlEof,
         NEW d \in Clients, sock[d] # "closed", sock'[d] = "closed"
  PROVE  CloseCause(d)
<1>1. sock \in [Clients -> {"none", "queued", "passed", "open", "closed"}]
  BY DEF FlowInv, IInv, TypeOK
<1>2. CASE AcceptClient \/ CtrlRecv
  <2>1. PICK c \in Clients :
          /\ sock[c] \in {"queued", "passed"}
          /\ \/ RefuseClient(c) \/ AddFails(c)
             \/ sock' = [sock EXCEPT ![c] = "open"]
    BY <1>2 DEF AcceptClient, CtrlRecv, Queued, Passed, AdoptClient
  <2>2. c = d /\ (RefuseClient(c) \/ AddFails(c))
    BY <1>1, <2>1 DEF RefuseClient, AddFails
  <2> QED BY <2>1, <2>2 DEF RefuseClient, AddFails, CloseCause
<1>3. CASE AcceptCtrl \/ RejectCtrl
  <2>1. PICK l \in Pending : DropCtrl(l) \/ UNCHANGED sock
    BY <1>3 DEF AcceptCtrl, RejectCtrl
  <2>2. sock[d] = "passed" /\ via[d] = l BY <2>1 DEF DropCtrl, Passed
  <2>3. l # ctrl_conn
    BY <2>1 DEF Pending, PassInv, CtrlLines
  <2> QED BY <2>2, <2>3 DEF CloseCause
<1>4. CASE CtrlEof BY <1>4 DEF CtrlEof, DropCtrl
<1> QED BY <1>2, <1>3, <1>4

LEMMA CauseStep ==
  ASSUME FlowInv, PassInv, [Next]_vars, NEW d \in Clients,
         sock[d] # "closed", sock'[d] = "closed"
  PROVE  CloseCause(d)
<1>1. sock' # sock OBVIOUS
<1>2. sock \in [Clients -> {"none", "queued", "passed", "open", "closed"}]
  BY DEF FlowInv, IInv, TypeOK
<1>3. CASE WorkerStep
  BY <1>1, <1>3, HupCause, RecvCause, BadCause, TurnAwayCause
     DEF WorkerStep, Wait, Dispatch, DispatchListen, DispatchCtrlConn,
         DispatchOut, DispatchIn, Handle, AcceptDone, CtrlAgain, RecvData,
         RecvAgain, ParseNone, ParseRequest, SendSome, SendDone, SendBlocked,
         DrainDone, DrainBlocked, Rearm
<1>4. CASE \E c \in Clients : ClientStep(c)
  BY <1>1, <1>2, <1>4 DEF ClientStep, Connect, ClientSend, ClientRead, ClientLeave
<1>5. CASE \E l \in LBs : LBStep(l)
  BY <1>1, <1>2, <1>5 DEF LBStep, LBConnect, LBExit, LBPass
<1>6. CASE UNCHANGED vars BY <1>1, <1>6 DEF vars
<1> QED BY <1>3, <1>4, <1>5, <1>6 DEF Next

\* The worker closes no connection without a cause: closeConn is reached only
\* on a hang-up of the client, on a bad request it did send, or on a request
\* larger than in_buf, and a socket is turned away only by an exhausted pool,
\* a failed registration or a control connection that is not served.
THEOREM ClosesForCause == ASSUME ~Pipelining PROVE Spec => ClosedForCause
<1>1. FlowInv /\ PassInv /\ [Next]_vars
        => [\A c \in Clients :
              sock[c] # "closed" /\ sock'[c] = "closed" => CloseCause(c)]_vars
  BY CauseStep
<1> QED BY <1>1, FlowInductive, PassInductive, PTL DEF Spec, ClosedForCause

-----------------------------------------------------------------------------
(***************************************************************************)
(* The worker implements the safety part of Service.                       *)
(***************************************************************************)
\* A connection that was closed stays closed.
LEMMA ClosedStays ==
  ASSUME IInv, [Next]_vars, NEW d \in Clients, sock[d] = "closed"
  PROVE  sock'[d] = "closed"
<1>1. sock \in [Clients -> {"none", "queued", "passed", "open", "closed"}]
  BY DEF IInv, TypeOK
<1>2. CASE UNCHANGED sock BY <1>2
<1>3. CASE DispatchHup \/ RecvNoRoom \/ RecvEnd \/ ParseBad
  <2>1. PICK s \in Slots : conn_fd[s] # NoFd /\ CloseConn(s)
    <3>1. CASE DispatchHup
      <4>1. PICK e \in ClientEvents : CloseConn(e.slot) BY <3>1 DEF DispatchHup
      <4> QED BY <4>1, EventSlots
    <3>2. CASE RecvNoRoom \/ RecvEnd \/ ParseBad
      <4>1. Handling /\ CloseConn(cur)
        BY <3>2 DEF RecvNoRoom, RecvEnd, ParseBad, CloseCur, Handling
      <4> QED BY <4>1, CurOpen
    <3> QED BY <1>3, <3>1, <3>2
  <2> QED BY <2>1, CloseFrame
<1>4. CASE AcceptClient \/ CtrlRecv
  <2>1. PICK c \in Clients :
          sock[c] # "closed" /\ \E x : sock' = [sock EXCEPT ![c] = x]
    BY <1>4 DEF AcceptClient, CtrlRecv, Queued, Passed, RefuseClient, AddFails,
                AdoptClient
  <2> QED BY <1>1, <2>1
<1>5. CASE AcceptCtrl \/ RejectCtrl \/ CtrlEof
  BY <1>1, <1>5 DEF AcceptCtrl, RejectCtrl, CtrlEof, DropCtrl
<1>6. CASE \/ \E c \in Clients : ClientStep(c)
           \/ \E l \in LBs, c \in Clients : LBPass(l, c)
  BY <1>1, <1>6
     DEF ClientStep, Connect, ClientSend, ClientRead, ClientLeave, LBPass
<1>7. CASE \E l \in LBs : LBConnect(l) \/ LBExit(l)
  BY <1>2, <1>7 DEF LBConnect, LBExit
<1>8. CASE WorkerStep
  BY <1>2, <1>3, <1>4, <1>5, <1>8
     DEF WorkerStep, Wait, Dispatch, DispatchListen, DispatchCtrlConn,
         DispatchOut, DispatchIn, Handle, AcceptDone, CtrlAgain, RecvData,
         RecvAgain, ParseNone, ParseRequest, SendSome, SendDone, SendBlocked,
         DrainDone, DrainBlocked, Rearm
<1>9. CASE UNCHANGED vars BY <1>2, <1>9 DEF vars
<1> QED BY <1>6, <1>7, <1>8, <1>9 DEF Next, LBStep

\* Only clients add to sent, and only drainSendNow adds to a stream.
LEMMA CountsStay ==
  ASSUME [Next]_vars, ~SendSome, \A c \in Clients : ~ClientSend(c)
  PROVE  UNCHANGED <<sent, stream>>
<1>1. CASE Wait \/ Dispatch
  BY <1>1
     DEF Wait, Dispatch, DispatchListen, DispatchCtrlConn, AcceptCtrl,
         RejectCtrl, DispatchHup, DispatchOut, DispatchIn, clientVars
<1>2. CASE Handle
  BY <1>2
     DEF Handle, AcceptClient, AcceptDone, CtrlRecv, CtrlAgain, CtrlEof,
         RecvNoRoom, RecvData, RecvAgain, RecvEnd, CloseCur, ParseNone,
         ParseBad, ParseRequest, SendDone, SendBlocked, DrainDone,
         DrainBlocked, Rearm, clientVars
<1>3. CASE \E c \in Clients : ClientStep(c)
  BY <1>3 DEF ClientStep, Connect, ClientRead, ClientLeave, clientVars
<1>4. CASE \E l \in LBs : LBStep(l)
  BY <1>4 DEF LBStep, LBConnect, LBExit, LBPass, clientVars
<1>5. CASE UNCHANGED vars BY <1>5 DEF vars, clientVars
<1> QED BY <1>1, <1>2, <1>3, <1>4, <1>5 DEF Next, WorkerStep

askedBar == [c \in Clients |-> sent[c] \div ReqParts[c]]
droppedBar == [c \in Clients |-> sock[c] = "closed"]

LEMMA AnsweredIs ==
  ASSUME StreamInv
  PROVE  answeredBar = [c \in Clients |-> Len(stream[c]) \div RespParts]
<1>1. \A c \in Clients : Intact(c) BY DEF StreamInv, ClientFlow
<1> QED BY <1>1 DEF answeredBar

LEMMA DropMaps ==
  ASSUME FlowInv, FlowInv', [Next]_vars, UNCHANGED <<sent, stream>>
  PROVE  Abstract!Drop
<1>1. answeredBar' = answeredBar
  <2>1. answeredBar = [c \in Clients |-> Len(stream[c]) \div RespParts]
    BY AnsweredIs DEF FlowInv
  <2>2. answeredBar' = [c \in Clients |-> Len(stream'[c]) \div RespParts]
    <3>1. \A c \in Clients : Intact(c)' BY DEF FlowInv, StreamInv, ClientFlow
    <3> QED BY <3>1 DEF answeredBar
  <2> QED BY <2>1, <2>2
<1>2. askedBar' = askedBar BY DEF askedBar
<1>3. PICK C \in SUBSET Clients : C = {c \in Clients : sock'[c] = "closed"}
  OBVIOUS
<1>4. \A c \in Clients : sock[c] = "closed" => sock'[c] = "closed"
  BY ClosedStays DEF FlowInv
<1>5. droppedBar' = [c \in Clients |-> droppedBar[c] \/ c \in C]
  BY <1>3, <1>4 DEF droppedBar
<1> QED BY <1>1, <1>2, <1>3, <1>5 DEF Abstract!Drop, askedBar, droppedBar

\* One chunk more completes at most one request.
LEMMA OneMore ==
  ASSUME NEW a \in Nat, NEW n \in Nat, NEW b \in Nat \ {0}, n <= b,
         NEW d \in Nat, d * b <= a, a < d * b + b
  PROVE  /\ a \div b = d
         /\ (a + n) \div b = d \/ ((a + n) \div b = d + 1 /\ a + n >= d * b + b)
<1>1. PICK m \in Nat : m = d * b BY Multiples
<1>2. (d + 1) * b = m + b /\ d + 1 \in Nat BY <1>1, Multiples
<1>3. a - m \in 0 .. b - 1 /\ m + (a - m) = a BY <1>1
<1>4. a \div b = d BY <1>1, <1>3, QuotientOf
<1>5. CASE a + n < m + b
  <2>1. a + n - m \in 0 .. b - 1 /\ m + (a + n - m) = a + n BY <1>1, <1>5
  <2> QED BY <1>1, <1>4, <2>1, QuotientOf
<1>6. CASE a + n >= m + b
  <2>1. a + n - (m + b) \in 0 .. b - 1 /\ m + b + (a + n - (m + b)) = a + n
    BY <1>1, <1>6
  <2>2. ((d + 1) * b + (a + n - (m + b))) \div b = d + 1
    BY <1>2, <2>1, QuotientOf
  <2> QED BY <1>1, <1>2, <1>4, <1>6, <2>1, <2>2
<1> QED BY <1>1, <1>5, <1>6

LEMMA AskMaps ==
  ASSUME FlowInv, FlowInv', NEW c \in Clients, ClientSend(c)
  PROVE  Abstract!Ask(c) \/ UNCHANGED <<askedBar, answeredBar, droppedBar>>
<1>1. /\ sock[c] # "closed" /\ sent[c] < MaxReq * ReqParts[c]
      /\ sent' = [sent EXCEPT ![c] = @ + 1] /\ UNCHANGED <<stream, sock>>
  BY DEF ClientSend
<1>2. /\ sent \in [Clients -> Nat] /\ ReqParts[c] \in Nat \ {0} /\ MaxReq \in Nat
  BY WorkerConstants DEF FlowInv, IInv, TypeOK
<1>3. UNCHANGED <<answeredBar, droppedBar>>
  BY <1>1 DEF answeredBar, Intact, droppedBar
<1>4. PICK a, b, d \in Nat : a = sent[c] /\ b = ReqParts[c] /\ d = a \div b
  BY <1>2, QuotientBounds
<1>5. d * b <= a /\ a < d * b + b /\ b \in Nat \ {0}
  BY <1>2, <1>4, QuotientBounds
<1>6. (a + 1) \div b = d \/ (a + 1) \div b = d + 1
  <2>1. 1 \in Nat /\ 1 <= b /\ a \in Nat /\ d \in Nat BY <1>4, <1>5
  <2>2. /\ a \div b = d
        /\ \/ (a + 1) \div b = d
           \/ (a + 1) \div b = d + 1 /\ a + 1 >= d * b + b
    BY ONLY <1>5, <2>1, OneMore
  <2> QED BY <2>2
<1>7. /\ sent'[c] = a + 1 /\ \A x \in Clients : x # c => sent'[x] = sent[x]
  BY <1>1, <1>2, <1>4
<1>8. askedBar' = [askedBar EXCEPT ![c] = (a + 1) \div b]
  BY <1>4, <1>7 DEF askedBar
<1>9. d < MaxReq
  <2>1. SUFFICES ASSUME d >= MaxReq PROVE FALSE BY <1>2
  <2>2. MaxReq * b <= d * b BY <1>2, <2>1, Multiples
  <2>3. PICK x, y \in Nat : x = MaxReq * b /\ y = d * b BY <1>2, Multiples
  <2>4. a < x /\ x <= y /\ y <= a BY <1>1, <1>4, <1>5, <2>2, <2>3
  <2> QED BY <2>4
<1>10. askedBar[c] = d BY <1>4 DEF askedBar
<1>11. CASE (a + 1) \div b = d
  <2>1. askedBar' = askedBar BY <1>8, <1>10, <1>11 DEF askedBar
  <2> QED BY <1>3, <2>1
<1>12. CASE (a + 1) \div b = d + 1
  <2>1. ~droppedBar[c] BY <1>1 DEF droppedBar
  <2>2. askedBar' = [askedBar EXCEPT ![c] = @ + 1] BY <1>8, <1>10, <1>12
  <2> QED BY <1>3, <1>9, <1>10, <2>1, <2>2
          DEF Abstract!Ask, askedBar, droppedBar
<1> QED BY <1>6, <1>11, <1>12

\* What one send() writes ends at most one response.
LEMMA AnswerMaps ==
  ASSUME FlowInv, FlowInv', SendSome
  PROVE  \/ \E c \in Clients : Abstract!Answer(c)
         \/ UNCHANGED <<askedBar, answeredBar, droppedBar>>
<1>1. PICK s \in Slots, c \in Clients : s = cur /\ c = conn_fd[cur]
  <2>1. Handling BY DEF SendSome, Handling
  <2> QED BY <2>1, CurOpen DEF FlowInv
<1>2. PICK n : /\ n = IF OutLen(s) - out_pos[s] <= Space(c)
                      THEN OutLen(s) - out_pos[s] ELSE Space(c)
               /\ stream' = [stream EXCEPT
                    ![c] = @ \o [i \in 1 .. n |-> <<out[s], out_pos[s] + i>>]]
  BY <1>1 DEF SendSome
<1>3. /\ ~(out_pos[s] >= OutLen(s)) /\ Space(c) > 0 /\ UNCHANGED <<sent, sock>>
  BY <1>1 DEF SendSome, Sent, clientVars
<1>4. /\ Flow(s, c) /\ sock[c] = "open"
      /\ out[s] \in Nat /\ out_pos[s] \in Nat /\ sent[c] \in Nat
      /\ stream \in [Clients -> Seq(Nat \X Nat)] /\ got[c] \in Nat
      /\ RespParts \in Nat \ {0} /\ SendCap \in Nat
      /\ ReqParts[c] \in Nat \ {0}
  <2>1. conn_fd[s] = c BY <1>1
  <2>2. sock[c] = "open" BY <2>1, OpenSlot DEF FlowInv
  <2>3. Flow(s, c) BY <2>1 DEF FlowInv, StreamInv, ClientFlow
  <2>4. RespParts \in Nat \ {0} /\ SendCap \in Nat /\ ReqParts[c] \in Nat \ {0}
    BY WorkerConstants
  <2>5. TypeOK BY DEF FlowInv, IInv
  <2> QED BY <2>2, <2>3, <2>4, <2>5 DEF TypeOK
<1>5. PICK q, w, g, P \in Nat :
        q = out[s] /\ w = out_pos[s] /\ g = Len(stream[c]) /\ P = RespParts
  <2>1. Len(stream[c]) \in Nat BY <1>4, LenProperties
  <2> QED BY <1>4, <2>1
<1>6. /\ q # 0 /\ w < P /\ n \in 1 .. P - w /\ g = (q - 1) * P + w
  <2>1. ~(w >= OutLen(s)) BY <1>3, <1>5
  <2>2. q # 0 /\ OutLen(s) = P BY <1>4, <1>5, <2>1 DEF OutLen
  <2>3. Space(c) \in Int BY <1>4, <1>5 DEF Space
  <2>4. w < P BY <2>1, <2>2
  <2>5. n \in 1 .. P - w BY <1>2, <1>3, <1>5, <2>2, <2>3, <2>4
  <2> QED BY <1>4, <1>5, <2>2, <2>4, <2>5 DEF Flow
<1>7. /\ Len(stream'[c]) = g + n
      /\ \A x \in Clients : x # c => stream'[x] = stream[x]
  <2>1. PICK sq : sq = [i \in 1 .. n |-> <<q, w + i>>] OBVIOUS
  <2>2. sq \in Seq(Nat \X Nat) /\ Len(sq) = n BY <1>6, <2>1
  <2>3. stream'[c] = stream[c] \o sq BY <1>2, <1>4, <1>5, <2>1
  <2>4. stream[c] \in Seq(Nat \X Nat) BY <1>4
  <2>5. Len(stream[c] \o sq) = Len(stream[c]) + Len(sq) BY <2>2, <2>4, Joined
  <2> QED BY <1>2, <1>4, <1>5, <2>2, <2>3, <2>5
<1>8. PICK d \in Nat : d = q - 1 BY <1>6
<1>9. /\ g \div P = d
      /\ (g + n) \div P = d \/ (g + n) \div P = d + 1
  <2>1. PICK m \in Nat : m = d * P BY Multiples
  <2>2. g = m + w BY <1>6, <1>8, <2>1
  <2>3. n \in Nat /\ n <= P /\ d * P <= g /\ g < d * P + P /\ P \in Nat \ {0}
    BY <1>6, <2>1, <2>2
  <2> QED BY <2>3, OneMore
<1>10. /\ answeredBar = [x \in Clients |-> Len(stream[x]) \div P]
       /\ answeredBar' = [x \in Clients |-> Len(stream'[x]) \div P]
  <2>1. answeredBar = [x \in Clients |-> Len(stream[x]) \div P]
    BY <1>5, AnsweredIs DEF FlowInv
  <2>2. \A x \in Clients : Intact(x)' BY DEF FlowInv, StreamInv, ClientFlow
  <2> QED BY <1>5, <2>1, <2>2 DEF answeredBar
<1>11. answeredBar[c] = d BY <1>5, <1>9, <1>10
<1>12. answeredBar' = [answeredBar EXCEPT ![c] = (g + n) \div P]
  BY <1>7, <1>10
<1>13. UNCHANGED <<askedBar, droppedBar>> BY <1>3 DEF askedBar, droppedBar
<1>14. d < askedBar[c]
  <2>1. out[s] * ReqParts[c] <= sent[c] BY <1>4, FlowLength DEF FlowInv
  <2>2. q <= sent[c] \div ReqParts[c]
    BY <1>4, <1>5, <2>1, QuotientAtLeast
  <2>3. sent[c] \div ReqParts[c] \in Nat BY <1>4, QuotientBounds
  <2>4. PICK e \in Nat : e = sent[c] \div ReqParts[c] BY <2>3
  <2>5. d < e BY <1>6, <1>8, <2>2, <2>4
  <2> QED BY <2>4, <2>5 DEF askedBar
<1>15. CASE (g + n) \div P = d
  <2>1. answeredBar' = answeredBar BY <1>10, <1>11, <1>12, <1>15
  <2> QED BY <1>13, <2>1
<1>16. CASE (g + n) \div P = d + 1
  <2>1. ~droppedBar[c] BY <1>4 DEF droppedBar
  <2>2. answeredBar' = [answeredBar EXCEPT ![c] = @ + 1]
    BY <1>11, <1>12, <1>16
  <2>3. Abstract!Answer(c)
    BY <1>11, <1>13, <1>14, <2>1, <2>2 DEF Abstract!Answer, askedBar, droppedBar
  <2> QED BY <2>3
<1> QED BY <1>9, <1>15, <1>16

\* The worker keeps the safety part of what Service promises a client: every
\* request is answered at most once, only after it is complete, whole and in
\* order, and a connection that was dropped is not served again.
THEOREM WorkerImplements == ASSUME ~Pipelining PROVE Spec => Abstract!Safe
<1>1. Init => Abstract!Init
  <2>1. SUFFICES ASSUME Init PROVE Abstract!Init OBVIOUS
  <2>2. \A c \in Clients : ReqParts[c] \in Nat \ {0} BY WorkerConstants
  <2>3. \A c \in Clients : 0 \div ReqParts[c] = 0
    <3>1. \A b \in Nat \ {0} : 0 \div b = 0 OBVIOUS
    <3> QED BY <2>2, <3>1
  <2>4. 0 \div RespParts = 0 BY WorkerConstants
  <2>5. answeredBar = [c \in Clients |-> 0]
    <3>1. \A c \in Clients : stream[c] = <<>> BY <2>1 DEF Init
    <3>2. Len(<<>>) = 0 OBVIOUS
    <3> QED BY <2>1, <2>4, <3>1, <3>2, InitFlow, AnsweredIs DEF FlowInv
  <2> QED BY <2>1, <2>3, <2>5 DEF Init, Abstract!Init
<1>2. FlowInv /\ FlowInv' /\ [Next]_vars => [Abstract!Next]_(Abstract!vars)
  <2>1. SUFFICES ASSUME FlowInv, FlowInv', [Next]_vars
                 PROVE  [Abstract!Next]_(Abstract!vars)
    OBVIOUS
  <2>2. CASE SendSome
    BY <2>1, <2>2, AnswerMaps DEF Abstract!Next, Abstract!vars, askedBar, droppedBar
  <2>3. CASE \E c \in Clients : ClientSend(c)
    BY <2>1, <2>3, AskMaps DEF Abstract!Next, Abstract!vars, askedBar, droppedBar
  <2>4. CASE ~SendSome /\ \A c \in Clients : ~ClientSend(c)
    BY <2>1, <2>4, CountsStay, DropMaps DEF Abstract!Next
  <2> QED BY <2>2, <2>3, <2>4
<1> QED BY <1>1, <1>2, FlowInductive, PTL DEF Spec, Abstract!Safe
=============================================================================
