------------------------------- MODULE Worker -------------------------------
(***************************************************************************)
(* One API worker (src/main.zig): a single thread around one epoll         *)
(* instance, a fixed pool of MAX_CONNS connection slots handed out by a    *)
(* LIFO stack of free indices, and two ways a client socket reaches it: a  *)
(* listening socket of its own (legacy mode), or a SEQPACKET control       *)
(* socket over which a load balancer passes descriptors together with the  *)
(* bytes it already read from them (control mode).                         *)
(*                                                                         *)
(* The worker runs one step per system call, so that clients and load      *)
(* balancers act between any two of them.  The kernel's part (receive and  *)
(* send buffers, the epoll ready list, readiness captured when the batch   *)
(* is returned and used later) is modelled from how the code uses it.      *)
(*                                                                         *)
(* A byte stream is a sequence of chunks.  A request of client c is        *)
(* ReqParts[c] chunks that carry the request's number, a response is       *)
(* RespParts chunks <<number, part>>.  A client's socket and its           *)
(* descriptor are the same value, the client.                              *)
(***************************************************************************)
EXTENDS Integers, Sequences, FiniteSets

CONSTANTS
  Clients,      \* client connections, each used once
  LBs,          \* control connections load balancers may open (control mode)
  NoFd, NoLB,   \* "no descriptor" (-1 in the code)
  CtrlMode,     \* ctrl_path is set: control socket instead of a listener
  MAX_CONNS,    \* slots of the pool
  MAX_EVENTS,   \* length of the array epoll_wait fills (128 in the code)
  BUF_SIZE,     \* chunks in_buf holds
  MAX_PREFIX,   \* most chunks a load balancer reads before passing a socket
  ReqParts, RespParts,
  SendCap,      \* chunks the kernel's send buffer of a client holds
  MaxReq,       \* bound: requests a client sends
  BadReqs,      \* pairs <<client, number>>: POST without Content-Length
  Pipelining,   \* a client may send a request before the last was answered
  Leaving,      \* how a client may leave: half-close ("fin"), reset ("rst")
  AddMayFail    \* EPOLL_CTL_ADD may fail (ENOMEM, ENOSPC)

Slots == 0 .. MAX_CONNS - 1
NoSlot == -1

ASSUME WorkerConstants ==
  /\ MAX_CONNS \in Nat \ {0} /\ MAX_EVENTS \in Nat \ {0}
  /\ BUF_SIZE \in Nat \ {0} /\ MAX_PREFIX \in Nat
  /\ ReqParts \in [Clients -> Nat \ {0}] /\ RespParts \in Nat \ {0}
  /\ SendCap \in Nat \ {0} /\ MaxReq \in Nat
  /\ NoFd \notin Clients /\ NoLB \notin LBs
  /\ {CtrlMode, Pipelining, AddMayFail} \subseteq BOOLEAN
  /\ Leaving \subseteq {"fin", "rst"}
  /\ IsFiniteSet(Clients) /\ IsFiniteSet(LBs)

VARIABLES
  \* the worker
  conn_fd,      \* conns[ci].fd
  in_buf,       \* conns[ci].in_buf[0..in_len]
  out,          \* number of the request conns[ci].out answers, 0 for ""
  out_pos,      \* conns[ci].out_pos
  free_idx, free_count,
  ctrl_conn,    \* ctrl_conn_fd
  batch,        \* events of the current epoll_wait still to be dispatched
  pc,           \* next system call of the thread
  cur,          \* slot the current handler works on
  caller,       \* handler that entered the parse and send steps
  also_in,      \* the event under dispatch also carries EPOLLIN
  \* the kernel, per client socket
  sock,         \* where the server side of the socket is
  reg,          \* slot in the epoll data of the registration, or NoSlot
  want_out,     \* EPOLLOUT is in the registered interest
  ready,        \* the registration is on the ready list
  rx,           \* chunks received and not read
  stream,       \* every chunk the worker wrote
  \* the clients and the load balancers
  peer,         \* "up", "fin" (write side shut down) or "rst"
  sent,         \* chunks the client sent
  got,          \* response chunks the client read
  prefix,       \* chunks passed along with a descriptor
  via,          \* control connection a passed descriptor is queued on
  lb            \* state of each control connection

connVars == <<conn_fd, in_buf, out, out_pos>>
poolVars == <<free_idx, free_count>>
threadVars == <<batch, pc, cur, caller, also_in>>
epollVars == <<reg, want_out, ready>>
clientVars == <<peer, sent, got>>
passVars == <<prefix, via, lb, ctrl_conn>>
vars == <<connVars, poolVars, threadVars, epollVars, clientVars, passVars,
          sock, rx, stream>>

-----------------------------------------------------------------------------
(***************************************************************************)
(* Kernel side: readiness.                                                 *)
(***************************************************************************)
Space(c) == SendCap - (Len(stream[c]) - got[c])

\* What poll() reports for a client socket.  "HUP" stands for RDHUP, HUP and
\* ERR, which the code treats alike.
Poll(c) == {k \in {"IN", "OUT", "HUP"} :
              \/ k = "IN" /\ (rx[c] # <<>> \/ peer[c] # "up")
              \/ k = "OUT" /\ (Space(c) > 0 \/ peer[c] = "rst")
              \/ k = "HUP" /\ peer[c] # "up"}

\* Interest mask the code registers: IN|RDHUP always, OUT while a response
\* is held back; HUP and ERR cannot be masked.
Interest(wantOut) == IF wantOut THEN {"IN", "OUT", "HUP"} ELSE {"IN", "HUP"}

Mask(c) == Poll(c) \cap Interest(want_out[c])

\* EPOLL_CTL_ADD and EPOLL_CTL_MOD poll the socket again, and put it on the
\* ready list when an event of interest is already pending.
Register(c, s, wantOut) ==
  /\ reg' = [reg EXCEPT ![c] = s]
  /\ want_out' = [want_out EXCEPT ![c] = wantOut]
  /\ ready' = [ready EXCEPT ![c] = @ \/ Poll(c) \cap Interest(wantOut) # {}]

\* A socket that becomes readable or writable wakes its edge-triggered
\* registration when the event is one of interest.
Wake(c, k) ==
  ready' = [ready EXCEPT
              ![c] = @ \/ (reg[c] # NoSlot /\ k \in Interest(want_out[c]))]

ListenEvent == [kind |-> "listen", slot |-> NoSlot, mask |-> {}]
CtrlAcceptEvent == [kind |-> "ctrl_accept", slot |-> NoSlot, mask |-> {}]
CtrlConnEvent == [kind |-> "ctrl_conn", slot |-> NoSlot, mask |-> {}]
ClientEvent(c) == [kind |-> "client", slot |-> reg[c], mask |-> Mask(c)]

Queued == {c \in Clients : sock[c] = "queued"}
Passed(l) == {c \in Clients : sock[c] = "passed" /\ via[c] = l}
Pending == {l \in LBs : lb[l] \in {"pending", "pending_eof"}}

\* The listener and the control sockets are level-triggered.
Deliverable ==
  {ClientEvent(c) : c \in {d \in Clients :
                             reg[d] # NoSlot /\ ready[d] /\ Mask(d) # {}}}
  \cup {e \in {ListenEvent, CtrlAcceptEvent, CtrlConnEvent} :
          \/ e = ListenEvent /\ ~CtrlMode /\ Queued # {}
          \/ e = CtrlAcceptEvent /\ Pending # {}
          \/ /\ e = CtrlConnEvent /\ ctrl_conn # NoLB
             /\ Passed(ctrl_conn) # {} \/ lb[ctrl_conn] = "conn_eof"}

-----------------------------------------------------------------------------
Init ==
  /\ conn_fd = [s \in Slots |-> NoFd]
  /\ in_buf = [s \in Slots |-> <<>>]
  /\ out = [s \in Slots |-> 0]
  /\ out_pos = [s \in Slots |-> 0]
  /\ free_idx = [i \in Slots |-> MAX_CONNS - 1 - i]
  /\ free_count = MAX_CONNS
  /\ ctrl_conn = NoLB
  /\ batch = {} /\ pc = "loop" /\ cur = 0 /\ caller = "recv" /\ also_in = FALSE
  /\ sock = [c \in Clients |-> "none"]
  /\ reg = [c \in Clients |-> NoSlot]
  /\ want_out = [c \in Clients |-> FALSE]
  /\ ready = [c \in Clients |-> FALSE]
  /\ rx = [c \in Clients |-> <<>>]
  /\ stream = [c \in Clients |-> <<>>]
  /\ peer = [c \in Clients |-> "up"]
  /\ sent = [c \in Clients |-> 0]
  /\ got = [c \in Clients |-> 0]
  /\ prefix = [c \in Clients |-> <<>>]
  /\ via = [c \in Clients |-> NoLB]
  /\ lb = [l \in LBs |-> "none"]

-----------------------------------------------------------------------------
(***************************************************************************)
(* The pool of connection slots.                                           *)
(***************************************************************************)

\* The free stack: closeConn pushes, addClientFd pops.
\* (Variants: a close that forgets the slot, an adoption that keeps it.)
PushNothing(s) == UNCHANGED poolVars
PopNothing == UNCHANGED free_count

PushFree(s) ==
  /\ free_idx' = [free_idx EXCEPT ![free_count] = s]
  /\ free_count' = free_count + 1

PopFree == free_count' = free_count - 1

\* EPOLL_CTL_DEL.  (Variant: rely on close() to end the registration, which
\* it does not while the load balancer's duplicate is open.)
UnregisterByClose(c) ==
  /\ ready' = [ready EXCEPT ![c] = FALSE]
  /\ UNCHANGED <<reg, want_out>>

Unregister(c) ==
  /\ reg' = [reg EXCEPT ![c] = NoSlot]
  /\ ready' = [ready EXCEPT ![c] = FALSE]
  /\ want_out' = [want_out EXCEPT ![c] = FALSE]

\* closeConn: unregister, close, reset the slot and push it on the free
\* stack, whatever state the slot was in.
CloseConn(s) ==
  LET c == conn_fd[s] IN
  /\ IF c # NoFd
       THEN /\ Unregister(c)
            /\ sock' = [sock EXCEPT ![c] = "closed"]
            /\ conn_fd' = [conn_fd EXCEPT ![s] = NoFd]
       ELSE UNCHANGED <<epollVars, sock, conn_fd>>
  /\ in_buf' = [in_buf EXCEPT ![s] = <<>>]
  /\ out' = [out EXCEPT ![s] = 0]
  /\ out_pos' = [out_pos EXCEPT ![s] = 0]
  /\ PushFree(s)

\* The slot addClientFd takes.
TopSlot == free_idx[free_count - 1]

\* addClientFd on an exhausted pool: the client is turned away.
RefuseClient(c) ==
  /\ free_count = 0
  /\ sock' = [sock EXCEPT ![c] = "closed"]
  /\ UNCHANGED <<connVars, poolVars, epollVars>>

\* addClientFd when EPOLL_CTL_ADD fails: the slot goes back.
AddFails(c) ==
  /\ AddMayFail /\ free_count > 0
  /\ conn_fd' = [conn_fd EXCEPT ![TopSlot] = NoFd]
  /\ in_buf' = [in_buf EXCEPT ![TopSlot] = <<>>]
  /\ out' = [out EXCEPT ![TopSlot] = 0]
  /\ out_pos' = [out_pos EXCEPT ![TopSlot] = 0]
  /\ free_idx' = [free_idx EXCEPT ![free_count - 1] = TopSlot]
  /\ sock' = [sock EXCEPT ![c] = "closed"]
  /\ UNCHANGED <<free_count, epollVars>>

\* The passed bytes the slot's buffer starts with.
\* (Variant: they are dropped.)
DroppedPrefix(bytes) == <<>>

BufferedPrefix(bytes) ==
  IF Len(bytes) <= BUF_SIZE THEN bytes ELSE SubSeq(bytes, 1, BUF_SIZE)

\* addClientFd: take a slot, put the passed bytes in its buffer, register.
AdoptClient(c, bytes) ==
  /\ free_count > 0
  /\ PopFree
  /\ conn_fd' = [conn_fd EXCEPT ![TopSlot] = c]
  /\ in_buf' = [in_buf EXCEPT ![TopSlot] = BufferedPrefix(bytes)]
  /\ out' = [out EXCEPT ![TopSlot] = 0]
  /\ out_pos' = [out_pos EXCEPT ![TopSlot] = 0]
  /\ Register(c, TopSlot, FALSE)
  /\ sock' = [sock EXCEPT ![c] = "open"]
  /\ UNCHANGED free_idx

-----------------------------------------------------------------------------
(***************************************************************************)
(* The event loop.                                                         *)
(***************************************************************************)

\* epoll_wait: readiness is captured here and acted on later.  Everything
\* deliverable is returned unless the array is too short for it.
Wait ==
  /\ pc = "loop" /\ batch = {}
  /\ \E B \in SUBSET Deliverable :
       /\ B # {}
       /\ Cardinality(B) <= MAX_EVENTS
       /\ B = Deliverable \/ Cardinality(B) = MAX_EVENTS
       /\ batch' = B
       /\ ready' = [c \in Clients |-> ready[c] /\ Mask(c) # {}
                                      /\ ClientEvent(c) \notin B]
  /\ UNCHANGED <<connVars, poolVars, pc, cur, caller, also_in, reg, want_out,
                 clientVars, passVars, sock, rx, stream>>

\* The event loop takes the next event; epoll promises no order.
Take(e) == pc = "loop" /\ e \in batch /\ batch' = batch \ {e}

DispatchListen ==
  /\ Take(ListenEvent)
  /\ pc' = "accept"
  /\ UNCHANGED <<connVars, poolVars, cur, caller, also_in, epollVars,
                 clientVars, passVars, sock, rx, stream>>

DispatchCtrlConn ==
  /\ Take(CtrlConnEvent)
  /\ pc' = "ctrl"
  /\ UNCHANGED <<connVars, poolVars, cur, caller, also_in, epollVars,
                 clientVars, passVars, sock, rx, stream>>

\* Closing a control connection closes the descriptors still queued on it.
DropCtrl(l) ==
  /\ lb' = [lb EXCEPT ![l] = "dead"]
  /\ sock' = [c \in Clients |-> IF c \in Passed(l) THEN "closed" ELSE sock[c]]

\* acceptCtrl with no control connection yet: keep the new one.
AcceptCtrl ==
  /\ Take(CtrlAcceptEvent) /\ ctrl_conn = NoLB
  /\ \E l \in Pending :
       \/ /\ ctrl_conn' = l
          /\ lb' = [lb EXCEPT ![l] = IF @ = "pending" THEN "conn" ELSE "conn_eof"]
          /\ UNCHANGED sock
       \/ /\ AddMayFail
          /\ DropCtrl(l)
          /\ UNCHANGED ctrl_conn
  /\ UNCHANGED <<connVars, poolVars, pc, cur, caller, also_in, epollVars,
                 clientVars, prefix, via, rx, stream>>

\* acceptCtrl while a control connection is held: the newcomer is closed.
\* (Variant: it is left unaccepted.)
RejectNothing ==
  /\ Take(CtrlAcceptEvent) /\ ctrl_conn # NoLB
  /\ UNCHANGED <<connVars, poolVars, pc, cur, caller, also_in, epollVars,
                 clientVars, passVars, sock, rx, stream>>

RejectCtrl ==
  /\ Take(CtrlAcceptEvent) /\ ctrl_conn # NoLB
  /\ \E l \in Pending : DropCtrl(l)
  /\ UNCHANGED <<connVars, poolVars, pc, cur, caller, also_in, epollVars,
                 clientVars, prefix, via, ctrl_conn, rx, stream>>

ClientEvents == {e \in batch : e.kind = "client"}

\* HUP, ERR or RDHUP: close and go on with the next event.
\* (Variant: fall through to the handlers of the other bits.)
DispatchHupAndIn ==
  \E e \in ClientEvents :
    /\ Take(e) /\ "HUP" \in e.mask
    /\ CloseConn(e.slot)
    /\ pc' = "recv" /\ cur' = e.slot
    /\ UNCHANGED <<caller, also_in, clientVars, passVars, rx, stream>>

DispatchHup ==
  \E e \in ClientEvents :
    /\ Take(e) /\ "HUP" \in e.mask
    /\ CloseConn(e.slot)
    /\ UNCHANGED <<pc, cur, caller, also_in, clientVars, passVars, rx, stream>>

DispatchOut ==
  \E e \in ClientEvents :
    /\ Take(e) /\ "HUP" \notin e.mask /\ "OUT" \in e.mask
    /\ pc' = "send" /\ cur' = e.slot /\ caller' = "drain"
    /\ also_in' = ("IN" \in e.mask)
    /\ UNCHANGED <<connVars, poolVars, epollVars, clientVars, passVars, sock,
                   rx, stream>>

DispatchIn ==
  \E e \in ClientEvents :
    /\ Take(e) /\ e.mask = {"IN"}
    /\ pc' = "recv" /\ cur' = e.slot /\ caller' = "recv"
    /\ UNCHANGED <<connVars, poolVars, also_in, epollVars, clientVars,
                   passVars, sock, rx, stream>>

-----------------------------------------------------------------------------
(***************************************************************************)
(* acceptAll and onCtrlRecv: where client sockets come from.               *)
(***************************************************************************)
AcceptClient ==
  /\ pc = "accept"
  /\ \E c \in Queued : RefuseClient(c) \/ AddFails(c) \/ AdoptClient(c, <<>>)
  /\ UNCHANGED <<threadVars, clientVars, passVars, rx, stream>>

AcceptDone ==
  /\ pc = "accept" /\ Queued = {}
  /\ pc' = "loop"
  /\ UNCHANGED <<connVars, poolVars, batch, cur, caller, also_in, epollVars,
                 clientVars, passVars, sock, rx, stream>>

\* onCtrlRecv, one message: the descriptor and its prefix are adopted, and a
\* non-empty prefix is processed before the next message is read.
CtrlRecv ==
  /\ pc = "ctrl"
  /\ \E c \in Passed(ctrl_conn) :
       /\ prefix' = [prefix EXCEPT ![c] = <<>>]
       /\ \/ /\ RefuseClient(c) \/ AddFails(c)
             /\ UNCHANGED <<pc, cur, caller>>
          \/ /\ AdoptClient(c, prefix[c])
             /\ IF prefix[c] # <<>>
                  THEN pc' = "parse" /\ cur' = TopSlot /\ caller' = "ctrl"
                  ELSE UNCHANGED <<pc, cur, caller>>
  /\ UNCHANGED <<batch, also_in, clientVars, via, lb, ctrl_conn, rx, stream>>

CtrlAgain ==
  /\ pc = "ctrl" /\ Passed(ctrl_conn) = {} /\ lb[ctrl_conn] = "conn"
  /\ pc' = "loop"
  /\ UNCHANGED <<connVars, poolVars, batch, cur, caller, also_in, epollVars,
                 clientVars, passVars, sock, rx, stream>>

\* recvmsg reports end of file only after every queued message.
\* (Variant: the closed descriptor stays in ctrl_conn_fd.)
CtrlEofKept ==
  /\ pc = "ctrl" /\ Passed(ctrl_conn) = {} /\ lb[ctrl_conn] = "conn_eof"
  /\ pc' = "loop"
  /\ DropCtrl(ctrl_conn)
  /\ UNCHANGED <<connVars, poolVars, batch, cur, caller, also_in, epollVars,
                 clientVars, prefix, via, ctrl_conn, rx, stream>>

CtrlEof ==
  /\ pc = "ctrl" /\ Passed(ctrl_conn) = {} /\ lb[ctrl_conn] = "conn_eof"
  /\ pc' = "loop"
  /\ DropCtrl(ctrl_conn)
  /\ ctrl_conn' = NoLB
  /\ UNCHANGED <<connVars, poolVars, batch, cur, caller, also_in, epollVars,
                 clientVars, prefix, via, rx, stream>>

-----------------------------------------------------------------------------
(***************************************************************************)
(* onRecv, and the parse-respond-send loop it shares with processBuffered. *)
(***************************************************************************)
AfterClose == IF caller = "ctrl" THEN "ctrl" ELSE "loop"

CloseCur ==
  /\ CloseConn(cur)
  /\ pc' = AfterClose
  /\ UNCHANGED <<batch, cur, caller, also_in, clientVars, passVars, rx, stream>>

BufferFull == Len(in_buf[cur]) >= BUF_SIZE

\* in_len >= in_buf.len: no room to receive into.
RecvNoRoom == pc = "recv" /\ BufferFull /\ CloseCur

RecvData ==
  LET c == conn_fd[cur]
      n == IF Len(rx[c]) <= BUF_SIZE - Len(in_buf[cur]) THEN Len(rx[c])
           ELSE BUF_SIZE - Len(in_buf[cur])
  IN
  /\ pc = "recv" /\ ~BufferFull /\ rx[c] # <<>>
  /\ in_buf' = [in_buf EXCEPT ![cur] = @ \o SubSeq(rx[c], 1, n)]
  /\ rx' = [rx EXCEPT ![c] = SubSeq(@, n + 1, Len(@))]
  /\ pc' = "parse" /\ caller' = "recv"
  /\ UNCHANGED <<conn_fd, out, out_pos, poolVars, batch, cur, also_in,
                 epollVars, clientVars, passVars, sock, stream>>

\* error.WouldBlock  (Variant: taken for an error.)
RecvAgainCloses ==
  /\ pc = "recv" /\ ~BufferFull
  /\ rx[conn_fd[cur]] = <<>> /\ peer[conn_fd[cur]] = "up"
  /\ CloseCur

RecvAgain ==
  /\ pc = "recv" /\ ~BufferFull
  /\ rx[conn_fd[cur]] = <<>> /\ peer[conn_fd[cur]] = "up"
  /\ pc' = "loop"
  /\ UNCHANGED <<connVars, poolVars, batch, cur, caller, also_in, epollVars,
                 clientVars, passVars, sock, rx, stream>>

\* recv returned 0 or an error
RecvEnd ==
  /\ pc = "recv" /\ ~BufferFull
  /\ rx[conn_fd[cur]] = <<>> /\ peer[conn_fd[cur]] # "up"
  /\ CloseCur

Complete == Len(in_buf[cur]) >= ReqParts[conn_fd[cur]]
IsBad == Complete /\ <<conn_fd[cur], Head(in_buf[cur])>> \in BadReqs

\* Where the parse loop returns to when it needs more bytes.
AfterParse == IF caller = "ctrl" THEN "ctrl" ELSE "recv"

\* error.Incomplete, or nothing left: back to the caller's loop.
ParseNone ==
  /\ pc = "parse" /\ ~Complete
  /\ pc' = AfterParse
  /\ UNCHANGED <<connVars, poolVars, batch, cur, caller, also_in, epollVars,
                 clientVars, passVars, sock, rx, stream>>

\* error.Bad
ParseBad == pc = "parse" /\ IsBad /\ CloseCur

\* startSend replaces whatever response the slot still held.
\* (Variant: out_pos is not reset.)
StartSendAtOldPos ==
  /\ out' = [out EXCEPT ![cur] = Head(in_buf[cur])]
  /\ UNCHANGED out_pos

StartSend ==
  /\ out' = [out EXCEPT ![cur] = Head(in_buf[cur])]
  /\ out_pos' = [out_pos EXCEPT ![cur] = 0]

ParseRequest ==
  /\ pc = "parse" /\ Complete /\ ~IsBad
  /\ StartSend
  /\ pc' = "send"
  /\ UNCHANGED <<conn_fd, in_buf, poolVars, batch, cur, caller, also_in,
                 epollVars, clientVars, passVars, sock, rx, stream>>

\* (Variant: the answered request stays in the buffer.)
ShiftNothing == UNCHANGED in_buf

\* shiftBuf: drop the request that was answered, keep what follows it.
ShiftBuf ==
  in_buf' = [in_buf EXCEPT ![cur] = SubSeq(@, ReqParts[conn_fd[cur]] + 1, Len(@))]

OutLen(s) == IF out[s] = 0 THEN 0 ELSE RespParts
Sent == out_pos[cur] >= OutLen(cur)

\* drainSendNow: one send() that moved something.
SendSome ==
  LET c == conn_fd[cur]
      left == OutLen(cur) - out_pos[cur]
      n == IF left <= Space(c) THEN left ELSE Space(c)
  IN
  /\ pc = "send" /\ ~Sent /\ Space(c) > 0 /\ peer[c] # "rst"
  /\ stream' = [stream EXCEPT
                  ![c] = @ \o [i \in 1 .. n |-> <<out[cur], out_pos[cur] + i>>]]
  /\ out_pos' = [out_pos EXCEPT ![cur] = @ + n]
  /\ UNCHANGED <<conn_fd, in_buf, out, poolVars, threadVars, epollVars,
                 clientVars, passVars, sock, rx>>

AfterDrain == IF also_in THEN "recv" ELSE "loop"
EnterRecv == caller' = IF also_in THEN "recv" ELSE caller

\* drainSendNow returned true in the parse loop: next request.
SendDone ==
  /\ pc = "send" /\ Sent /\ caller # "drain"
  /\ ShiftBuf
  /\ pc' = "parse"
  /\ UNCHANGED <<conn_fd, out, out_pos, poolVars, batch, cur, caller, also_in,
                 epollVars, clientVars, passVars, sock, rx, stream>>

\* drainSendNow returned true in drainSend: EPOLLOUT is no longer wanted.
DrainDone ==
  /\ pc = "send" /\ Sent /\ caller = "drain"
  /\ Register(conn_fd[cur], reg[conn_fd[cur]], FALSE)
  /\ pc' = AfterDrain /\ EnterRecv
  /\ UNCHANGED <<connVars, poolVars, batch, cur, also_in, clientVars, passVars,
                 sock, rx, stream>>

SendStuck == LET c == conn_fd[cur] IN
  pc = "send" /\ ~Sent /\ (Space(c) <= 0 \/ peer[c] = "rst")

\* What follows a send buffer that filled up in the parse loop.
\* (Variant: return without asking for EPOLLOUT.)
ReturnUnarmed == AfterClose

AfterBlocked == "rearm"

\* drainSendNow returned false in the parse loop.
SendBlocked ==
  /\ SendStuck /\ caller # "drain"
  /\ ShiftBuf
  /\ pc' = AfterBlocked
  /\ UNCHANGED <<conn_fd, out, out_pos, poolVars, batch, cur, caller, also_in,
                 epollVars, clientVars, passVars, sock, rx, stream>>

\* drainSendNow returned false in drainSend: EPOLLOUT stays registered.
DrainBlocked ==
  /\ SendStuck /\ caller = "drain"
  /\ pc' = AfterDrain /\ EnterRecv
  /\ UNCHANGED <<connVars, poolVars, batch, cur, also_in, epollVars,
                 clientVars, passVars, sock, rx, stream>>

\* EPOLL_CTL_MOD with EPOLLOUT, then the handler returns without reading on.
Rearm ==
  /\ pc = "rearm"
  /\ Register(conn_fd[cur], reg[conn_fd[cur]], TRUE)
  /\ pc' = AfterClose
  /\ UNCHANGED <<connVars, poolVars, batch, cur, caller, also_in, clientVars,
                 passVars, sock, rx, stream>>

-----------------------------------------------------------------------------
(***************************************************************************)
(* The clients and the load balancers, as the worker sees them.            *)
(***************************************************************************)
Connect(c) ==
  /\ sock[c] = "none"
  /\ sock' = [sock EXCEPT ![c] = "queued"]
  /\ UNCHANGED <<connVars, poolVars, threadVars, epollVars, clientVars,
                 passVars, rx, stream>>

\* A client that does not pipeline begins a request only after it has read
\* the whole of the last response.
MayBegin(c) ==
  \/ Pipelining
  \/ sent[c] % ReqParts[c] # 0
  \/ got[c] = (sent[c] \div ReqParts[c]) * RespParts

ClientSend(c) ==
  /\ sock[c] \notin {"none", "closed"} /\ peer[c] = "up"
  /\ sent[c] < MaxReq * ReqParts[c] /\ MayBegin(c)
  /\ sent' = [sent EXCEPT ![c] = @ + 1]
  /\ rx' = [rx EXCEPT ![c] = Append(@, sent[c] \div ReqParts[c] + 1)]
  /\ Wake(c, "IN")
  /\ UNCHANGED <<connVars, poolVars, threadVars, reg, want_out, peer, got,
                 passVars, sock, stream>>

ClientRead(c) ==
  /\ peer[c] # "rst" /\ got[c] < Len(stream[c])
  /\ got' = [got EXCEPT ![c] = @ + 1]
  /\ Wake(c, "OUT")
  /\ UNCHANGED <<connVars, poolVars, threadVars, reg, want_out, peer, sent,
                 passVars, sock, rx, stream>>

ClientLeave(c) ==
  /\ sock[c] # "none" /\ peer[c] # "rst"
  /\ \E how \in Leaving : peer' = [peer EXCEPT ![c] = how]
  /\ peer' # peer
  /\ Wake(c, "HUP")
  /\ UNCHANGED <<connVars, poolVars, threadVars, reg, want_out, sent, got,
                 passVars, sock, rx, stream>>

LBConnect(l) ==
  /\ CtrlMode /\ lb[l] = "none"
  /\ lb' = [lb EXCEPT ![l] = "pending"]
  /\ UNCHANGED <<connVars, poolVars, threadVars, epollVars, clientVars, prefix,
                 via, ctrl_conn, sock, rx, stream>>

\* A load balancer reads what a client sent so far, up to MAX_PREFIX, and
\* passes the socket on with it.
LBPass(l, c) ==
  LET n == IF Len(rx[c]) <= MAX_PREFIX THEN Len(rx[c]) ELSE MAX_PREFIX IN
  /\ lb[l] \in {"pending", "conn"} /\ sock[c] = "queued"
  /\ sock' = [sock EXCEPT ![c] = "passed"]
  /\ via' = [via EXCEPT ![c] = l]
  /\ prefix' = [prefix EXCEPT ![c] = SubSeq(rx[c], 1, n)]
  /\ rx' = [rx EXCEPT ![c] = SubSeq(@, n + 1, Len(@))]
  /\ UNCHANGED <<connVars, poolVars, threadVars, epollVars, clientVars, lb,
                 ctrl_conn, stream>>

\* The load balancer exits: its end of the control connection is closed.
LBExit(l) ==
  /\ lb[l] \in {"pending", "conn"}
  /\ lb' = [lb EXCEPT ![l] = IF @ = "conn" THEN "conn_eof" ELSE "pending_eof"]
  /\ UNCHANGED <<connVars, poolVars, threadVars, epollVars, clientVars, prefix,
                 via, ctrl_conn, sock, rx, stream>>

-----------------------------------------------------------------------------
Dispatch ==
  \/ DispatchListen \/ DispatchCtrlConn \/ AcceptCtrl \/ RejectCtrl
  \/ DispatchHup \/ DispatchOut \/ DispatchIn

Handle ==
  \/ AcceptClient \/ AcceptDone
  \/ CtrlRecv \/ CtrlAgain \/ CtrlEof
  \/ RecvNoRoom \/ RecvData \/ RecvAgain \/ RecvEnd
  \/ ParseNone \/ ParseBad \/ ParseRequest
  \/ SendSome \/ SendDone \/ SendBlocked \/ DrainDone \/ DrainBlocked \/ Rearm

WorkerStep == Wait \/ Dispatch \/ Handle

ClientStep(c) == Connect(c) \/ ClientSend(c) \/ ClientRead(c) \/ ClientLeave(c)

LBStep(l) == LBConnect(l) \/ LBExit(l) \/ \E c \in Clients : LBPass(l, c)

Next ==
  \/ WorkerStep
  \/ \E c \in Clients : ClientStep(c)
  \/ \E l \in LBs : LBStep(l)

Spec == Init /\ [][Next]_vars

\* The thread runs while it has something to do, and a client reads what it
\* is sent.
FairSpec ==
  /\ Spec
  /\ WF_vars(WorkerStep)
  /\ \A c \in Clients : WF_vars(ClientRead(c))

-----------------------------------------------------------------------------
(***************************************************************************)
(* Correctness.                                                            *)
(***************************************************************************)

\* The slots, connections and thread state are of the kinds the code keeps in
\* its structures: a count never leaves 0..MAX_CONNS, an index always names a
\* slot, a registration always names a slot.
TypeOK ==
  /\ conn_fd \in [Slots -> Clients \cup {NoFd}]
  /\ in_buf \in [Slots -> Seq(Nat)]
  /\ out \in [Slots -> Nat]
  /\ out_pos \in [Slots -> Nat]
  /\ free_idx \in [Slots -> Slots]
  /\ free_count \in 0 .. MAX_CONNS
  /\ ctrl_conn \in LBs \cup {NoLB}
  /\ \A e \in batch : e.kind = "client" => e.slot \in Slots
  /\ pc \in {"loop", "accept", "ctrl", "recv", "parse", "send", "rearm"}
  /\ cur \in Slots
  /\ caller \in {"recv", "ctrl", "drain"}
  /\ also_in \in BOOLEAN
  /\ sock \in [Clients -> {"none", "queued", "passed", "open", "closed"}]
  /\ reg \in [Clients -> Slots \cup {NoSlot}]
  /\ want_out \in [Clients -> BOOLEAN]
  /\ ready \in [Clients -> BOOLEAN]
  /\ rx \in [Clients -> Seq(Nat)]
  /\ stream \in [Clients -> Seq(Nat \X Nat)]
  /\ peer \in [Clients -> {"up", "fin", "rst"}]
  /\ sent \in [Clients -> Nat]
  /\ got \in [Clients -> Nat]
  /\ prefix \in [Clients -> Seq(Nat)]
  /\ via \in [Clients -> LBs \cup {NoLB}]
  /\ lb \in [LBs -> {"none", "pending", "pending_eof", "conn", "conn_eof", "dead"}]

FreeSlots == {free_idx[i] : i \in 0 .. free_count - 1}

\* The free stack holds every slot without a connection exactly once.
\* closeConn pushes a slot without asking whether it is free already
\* (main.zig:277), so one close too many would hand one slot to two clients.
PoolIntegrity ==
  /\ \A i, j \in 0 .. free_count - 1 : free_idx[i] = free_idx[j] => i = j
  /\ FreeSlots = {s \in Slots : conn_fd[s] = NoFd}

\* A client's socket is held by one slot, registered with that slot's index
\* as epoll data, exactly while it is open: no descriptor leaks and no event
\* is delivered to another client's slot.
OneOwner ==
  /\ \A s, t \in Slots : conn_fd[s] = conn_fd[t] /\ conn_fd[s] # NoFd => s = t
  /\ \A c \in Clients : /\ (sock[c] = "open") <=> (reg[c] # NoSlot)
                        /\ reg[c] # NoSlot => conn_fd[reg[c]] = c
  /\ \A s \in Slots : conn_fd[s] # NoFd => reg[conn_fd[s]] = s

Handling == pc \in {"recv", "parse", "send", "rearm"}

\* An event captured by epoll_wait is still about the connection it was
\* captured for when its turn comes, although other handlers closed and
\* reused slots in between; the slot under work is open and no later event
\* of the batch names it; the control connection is there when its event is.
BatchFresh ==
  /\ \A e \in ClientEvents : conn_fd[e.slot] # NoFd
  /\ \A e, f \in ClientEvents : e.slot = f.slot => e = f
  /\ Handling => conn_fd[cur] # NoFd /\ \A e \in ClientEvents : e.slot # cur
  /\ (pc = "ctrl" \/ (caller = "ctrl" /\ Handling) \/ CtrlConnEvent \in batch)
       => ctrl_conn # NoLB

\* A client that waits for each answer receives whole responses, one for each
\* request it completed and in that order, however the responses are cut by a
\* full send buffer and the requests by the network.
ResponsesIntact ==
  \A c \in Clients :
    /\ \A i \in 1 .. Len(stream[c]) :
         stream[c][i] = <<(i - 1) \div RespParts + 1, ((i - 1) % RespParts) + 1>>
    /\ Len(stream[c]) <= RespParts * (sent[c] \div ReqParts[c])

Noticed(c, k) == ready[c] \/ \E e \in ClientEvents : e.slot = reg[c] /\ k \in e.mask

\* No wake-up is lost: while the worker is not working on a connection, data
\* or a hang-up it has not seen, and room for a response it holds back, are
\* either on the ready list or in the batch, and a whole request waits in
\* in_buf only if the pending data will bring the worker back to it.
NoLostWakeup ==
  \A s \in Slots :
    LET c == conn_fd[s] IN
    c # NoFd /\ ~(Handling /\ cur = s) =>
      /\ rx[c] # <<>> => Noticed(c, "IN") \/ Noticed(c, "HUP")
      /\ peer[c] # "up" => Noticed(c, "IN") \/ Noticed(c, "HUP")
      /\ out_pos[s] < OutLen(s) /\ peer[c] # "rst" =>
           want_out[c] /\ (Space(c) > 0 => Noticed(c, "OUT"))
      /\ Len(in_buf[s]) >= ReqParts[c] => ready[c]

Holders(c) == {s \in Slots : conn_fd[s] = c}

\* A descriptor that was passed waits on the control connection the worker has
\* accepted or on one it has yet to accept, never on one it refused or gave up;
\* one it received is in exactly one slot, or closed and in none.  The control
\* connection the worker has is the only one that was accepted and not closed.
NoStrandedDescriptor ==
  /\ \A c \in Clients : sock[c] = "passed" => via[c] \in Pending \cup {ctrl_conn}
  /\ \A c \in Clients :
       IF sock[c] = "open" THEN \E s \in Slots : Holders(c) = {s} ELSE Holders(c) = {}
  /\ \A l \in LBs : (lb[l] \in {"conn", "conn_eof"}) <=> (ctrl_conn = l)

\* The first k complete requests of c include a bad one.
SentBad(c) == \E r \in 1 .. MaxReq : <<c, r>> \in BadReqs /\ sent[c] >= r * ReqParts[c]

\* What the worker may drop a client for.
CloseCause(c) ==
  \/ sock[c] = "open" /\ (peer[c] # "up" \/ SentBad(c) \/ ReqParts[c] > BUF_SIZE)
  \/ sock[c] \in {"queued", "passed"} /\ (free_count = 0 \/ AddMayFail)
  \/ sock[c] = "passed" /\ via[c] # ctrl_conn

\* The worker drops a client only for a reason: the client left or sent a bad
\* request or one larger than in_buf, the pool was exhausted or the kernel had
\* no room for a registration, or the control connection that carried the
\* descriptor was not the one the worker serves.
ClosedForCause ==
  [][\A c \in Clients :
       sock[c] # "closed" /\ sock'[c] = "closed" => CloseCause(c)]_vars

Settled(c) == sock[c] = "closed" \/ peer[c] # "up"

\* Every request a client completed on a connection the worker was given is
\* answered in full, unless the client leaves or is dropped for cause.
EveryRequestAnswered ==
  \A c \in Clients : \A r \in 1 .. MaxReq :
    (sock[c] = "open" /\ sent[c] >= r * ReqParts[c])
      ~> (got[c] >= r * RespParts \/ Settled(c))

\* Every socket handed to the worker is adopted or turned away.
EveryClientTakenUp ==
  \A c \in Clients :
    sock[c] \in (IF CtrlMode THEN {"passed"} ELSE {"queued"})
      ~> sock[c] \in {"open", "closed"}
=============================================================================
