------------------------ MODULE LoadBalancerZigProofs ------------------------
(***************************************************************************)
(* lb.zig, for any number of clients and workers, any requests and any     *)
(* capacity of the control connections.                                    *)
(***************************************************************************)
EXTENDS LoadBalancerZig, HandoffProofs

Working == pc \in {"read", "send", "close"}

LBType ==
  /\ pc \in {"accept", "poll", "read", "send", "close"}
  /\ cfd \in Clients \cup {NoClient}
  /\ start \in Backends /\ attempt \in 0 .. NB /\ rr \in Backends
  /\ accepted \in Nat /\ got_one \in BOOLEAN
  /\ prefix_buf \in Seq(Chunks)

\* Its own copy of a descriptor is open exactly while it works on that client.
InHandOnly ==
  /\ Working <=> cfd \in Clients
  /\ \A c \in Clients : sock[c] = "open" <=> (Working /\ cfd = c)

\* What was read so far and what is left are the whole, until it is passed.
ReadInOrder ==
  pc \in {"read", "send"} =>
    Unheard(cfd) /\ prefix_buf \o rx[cfd] = Arrived(cfd)

\* The backends already tried for the client have gone.
TriedAreDead ==
  pc = "send" => \A i \in 0 .. attempt - 1 : ~alive[(start + i) % NB]

LBInv ==
  HandoffInv /\ LBType /\ InHandOnly /\ ReadInOrder /\ TriedAreDead
-----------------------------------------------------------------------------
\* The turn goes round: trying NB backends from any start tries them all.
LEMMA Around ==
  /\ 0 \in Backends /\ NB \in Nat \ {0}
  /\ \A b \in Backends, i \in 0 .. NB : (b + i) % NB \in Backends
  /\ \A a, b \in Backends : \E i \in 0 .. NB - 1 : (a + i) % NB = b
<1>1. NB \in Nat /\ NB > 0 BY HandoffConstants
<1>2. \A n, x \in Nat : n > 0 => x % n \in 0 .. n - 1 OBVIOUS
<1>3. \A n, x \in Nat : x < n => x % n = x OBVIOUS
<1>4. \A n, x \in Nat : x < n => (x + n) % n = x OBVIOUS
<1>5. \A b \in Backends, i \in 0 .. NB : (b + i) % NB \in Backends
  BY <1>1, <1>2 DEF Backends
<1>6. ASSUME NEW a \in Backends, NEW b \in Backends
      PROVE  \E i \in 0 .. NB - 1 : (a + i) % NB = b
  <2>1. a \in Nat /\ b \in Nat /\ a < NB /\ b < NB BY <1>1 DEF Backends
  <2>2. CASE a <= b
    <3>1. b - a \in 0 .. NB - 1 /\ a + (b - a) = b BY <1>1, <2>1, <2>2
    <3>2. b % NB = b BY <1>1, <1>3, <2>1
    <3> QED BY <3>1, <3>2
  <2>3. CASE a > b
    <3>1. b + NB - a \in 0 .. NB - 1 /\ a + (b + NB - a) = b + NB
      BY <1>1, <2>1, <2>3
    <3>2. (b + NB) % NB = b BY <1>1, <1>4, <2>1
    <3> QED BY <3>1, <3>2
  <2> QED BY <2>1, <2>2, <2>3
<1> QED BY <1>1, <1>5, <1>6 DEF Backends

LEMMA CandidateIs ==
  ASSUME LBInv
  PROVE  Candidate \in Backends /\ NB \in Nat \ {0}
BY Around DEF LBInv, LBType, Candidate

LEMMA InitInv == ASSUME Init PROVE LBInv
<1>1. HandoffInv BY HandoffInitInv DEF Init
<1>2. LBType
  <2>1. got_one \in BOOLEAN BY Zenon DEF Init
  <2>2. 0 \in Backends /\ 0 \in 0 .. NB /\ <<>> \in Seq(Chunks)
    BY Around, EmptySeq
  <2> QED BY <2>1, <2>2 DEF Init, LBType
<1>3. InHandOnly
  BY LoadBalancerZigConstants DEF InHandOnly, Working, Init, HandoffInit
<1>4. ReadInOrder /\ TriedAreDead BY DEF ReadInOrder, TriedAreDead, Init
<1> QED BY <1>1, <1>2, <1>3, <1>4 DEF LBInv

LEMMA InHand ==
  ASSUME LBInv, Working
  PROVE  cfd \in Clients /\ cfd # NoClient /\ sock[cfd] = "open"
BY LoadBalancerZigConstants DEF LBInv, InHandOnly

LEMMA AcceptInv == ASSUME LBInv, Accept PROVE LBInv'
<1>1. PICK c \in Clients :
        sock[c] = "queued" /\ cfd' = c /\ sock' = [sock EXCEPT ![c] = "open"]
  BY DEF Accept, Queued
<1>2. /\ pc = "accept" /\ pc' = "read" /\ prefix_buf' = <<>> /\ got_one' = TRUE
      /\ UNCHANGED <<sent, rx, workerVars, start, attempt, rr, accepted>>
      /\ ~Working /\ Working'
  BY DEF Accept, Working
<1>3. sock \in [Clients -> {"none", "queued", "open", "released"}]
  BY DEF LBInv, HandoffInv, HandoffType
<1>4. HandoffInv' BY <1>1, <1>2, <1>3, SockInv DEF LBInv
<1>5. LBType' BY <1>1, <1>2, EmptySeq DEF LBInv, LBType
<1>6. InHandOnly' BY <1>1, <1>2, <1>3 DEF LBInv, InHandOnly
<1>7. Unheard(c)' /\ rx'[c] = Arrived(c)'
  BY <1>1, <1>2, SameHearing DEF LBInv, HandoffInv, QueueUntouched, Arrived
<1>8. <<>> \o rx'[c] = rx'[c]
  BY <1>4, ConcatEmptySeq DEF HandoffInv, HandoffType
<1>9. ReadInOrder' BY <1>1, <1>2, <1>7, <1>8 DEF ReadInOrder
<1>10. TriedAreDead' BY <1>2 DEF TriedAreDead
<1> QED BY <1>4, <1>5, <1>6, <1>9, <1>10 DEF LBInv

LEMMA IdleInv == ASSUME LBInv, EndBatch \/ Poll PROVE LBInv'
<1>1. /\ UNCHANGED <<handoffVars, cfd, start, attempt, rr, prefix_buf>>
      /\ ~Working /\ ~Working' /\ pc' \in {"accept", "poll"}
      /\ accepted' \in {0, accepted} /\ got_one' \in {FALSE, got_one}
  BY DEF EndBatch, Poll, Working
<1>2. UNCHANGED <<sock, sent, rx, workerVars>> BY <1>1 DEF handoffVars
<1>3. HandoffInv' BY <1>2, SockInv DEF LBInv, HandoffInv, HandoffType
<1>4. LBType'
  <2>1. got_one' \in BOOLEAN BY Zenon, <1>1 DEF LBInv, LBType
  <2> QED BY <1>1, <2>1 DEF LBInv, LBType
<1>5. InHandOnly' BY <1>1, <1>2 DEF LBInv, InHandOnly
<1>6. ReadInOrder' /\ TriedAreDead'
  BY <1>1 DEF ReadInOrder, TriedAreDead, Working
<1> QED BY <1>3, <1>4, <1>5, <1>6 DEF LBInv

LEMMA ReadSomeInv == ASSUME LBInv, ReadSome PROVE LBInv'
<1>1. PICK room : room = MAX_PREFIX - Len(prefix_buf) OBVIOUS
<1>2. /\ pc = "read" /\ room > 0 /\ Working /\ Working'
      /\ prefix_buf' = prefix_buf \o Taken(cfd, room) /\ Consume(cfd, room)
      /\ UNCHANGED <<sock, sent, workerVars, pc, cfd, start, attempt, rr,
                     accepted, got_one>>
  BY <1>1 DEF ReadSome, AllParts, Working
<1>3. PICK c \in Clients, p \in Seq(Chunks) :
        c = cfd /\ sock[c] = "open" /\ p = prefix_buf
  BY <1>2, InHand DEF LBInv, LBType
<1>4. room \in Nat BY <1>1, <1>2, <1>3, HandoffConstants, LenProperties
<1>5. Unheard(c) /\ p \o rx[c] = Arrived(c)
  BY <1>2, <1>3 DEF LBInv, ReadInOrder
<1>6. /\ HandoffInv' /\ Unheard(c)' /\ p \o Taken(c, room) \in Seq(Chunks)
      /\ (p \o Taken(c, room)) \o rx'[c] = Arrived(c)'
  BY <1>2, <1>3, <1>4, <1>5, ReadInv DEF LBInv
<1>7. LBType' BY <1>2, <1>3, <1>6 DEF LBInv, LBType
<1>8. InHandOnly' BY <1>2 DEF LBInv, InHandOnly
<1>9. ReadInOrder' BY <1>2, <1>3, <1>6 DEF ReadInOrder
<1>10. TriedAreDead' BY <1>2 DEF TriedAreDead
<1> QED BY <1>6, <1>7, <1>8, <1>9, <1>10 DEF LBInv

\* Steps on the client in hand that touch neither a socket nor a message.
LEMMA ThinkInv ==
  ASSUME LBInv, ReadDone \/ SendFails \/ AllFailed
  PROVE  LBInv'
<1>1. /\ UNCHANGED <<sock, sent, rx, workerVars, alive, cfd, rr, accepted,
                     got_one, prefix_buf>>
      /\ Working /\ Working' /\ pc \in {"read", "send"}
      /\ pc' \in {"send", "close"}
  BY DEF ReadDone, SendFails, AllFailed, TryNext, handoffVars, workerVars,
         Working
<1>2. cfd \in Clients BY <1>1, InHand
<1>3. HandoffInv' BY <1>1, SockInv DEF LBInv, HandoffInv, HandoffType
<1>4. InHandOnly' BY <1>1 DEF LBInv, InHandOnly
<1>5. ReadInOrder'
  BY <1>1, <1>2, SameHearing DEF LBInv, ReadInOrder, Arrived
<1>6. LBType' /\ TriedAreDead'
  <2>1. CASE ReadDone
    <3>1. start' \in Backends /\ attempt' = 0 /\ 0 \in 0 .. NB /\ 0 .. 0 - 1 = {}
      BY <2>1, HandoffConstants DEF ReadDone, LBInv, LBType
    <3> QED BY <1>1, <3>1 DEF LBInv, LBType, TriedAreDead
  <2>2. CASE SendFails
    <3>1. /\ pc = "send" /\ attempt < NB /\ ~alive[(start + attempt) % NB]
          /\ attempt' = attempt + 1 /\ pc' = pc /\ start' = start
      BY <2>2 DEF SendFails, TryNext, Candidate
    <3>2. PICK n, m \in Nat : n = attempt /\ m = NB
      BY HandoffConstants DEF LBInv, LBType
    <3>3. attempt' \in 0 .. NB /\ \A i \in 0 .. attempt' - 1 :
                                    i \in 0 .. attempt - 1 \/ i = attempt
      BY <3>1, <3>2
    <3>4. \A i \in 0 .. attempt' - 1 : ~alive[(start + i) % NB]
      BY <3>1, <3>3 DEF LBInv, TriedAreDead
    <3>5. LBType' BY <1>1, <3>1, <3>3 DEF LBInv, LBType
    <3> QED BY <1>1, <3>1, <3>4, <3>5 DEF TriedAreDead
  <2>3. CASE AllFailed
    BY <1>1, <2>3 DEF AllFailed, LBInv, LBType, TriedAreDead
  <2> QED BY <2>1, <2>2, <2>3
<1> QED BY <1>3, <1>4, <1>5, <1>6 DEF LBInv

LEMMA SendFdInv ==
  ASSUME LBInv, SendFd
  PROVE  /\ LBInv' /\ Unheard(cfd)
         /\ \E b \in Backends :
              /\ alive[b]
              /\ \A a \in Backends, d \in Clients :
                   Passed(a, d)' <=> Passed(a, d) \/ (a = b /\ d = cfd)
<1>1. PICK c \in Clients, b \in Backends, p \in Seq(Chunks) :
        c = cfd /\ sock[c] = "open" /\ b = Candidate /\ p = prefix_buf
  BY InHand, CandidateIs DEF SendFd, Working, LBInv, LBType
<1>2. /\ pc = "send" /\ pc' = "close" /\ Send(b, c, p) /\ alive[b]
      /\ rr' = (b + 1) % NB /\ Working /\ Working'
      /\ UNCHANGED <<sock, sent, rx, taken, alive, cfd, start, attempt,
                     accepted, got_one, prefix_buf>>
  BY <1>1 DEF SendFd, Succeed, Room, Working
<1>3. Unheard(c) /\ p \o rx[c] = Arrived(c)
  BY <1>1, <1>2 DEF LBInv, ReadInOrder
<1>4. /\ HandoffInv'
      /\ \A a \in Backends, d \in Clients :
           Passed(a, d)' <=> Passed(a, d) \/ (a = b /\ d = c)
  BY <1>1, <1>2, <1>3, SendInv DEF LBInv
<1>5. rr' \in Backends
  <2>1. 1 \in 0 .. NB BY HandoffConstants
  <2> QED BY <1>2, <2>1, Around
<1>6. LBType' BY <1>2, <1>5 DEF LBInv, LBType
<1>7. InHandOnly' BY <1>2 DEF LBInv, InHandOnly
<1>8. ReadInOrder' /\ TriedAreDead' BY <1>2 DEF ReadInOrder, TriedAreDead
<1> QED BY <1>1, <1>2, <1>3, <1>4, <1>6, <1>7, <1>8 DEF LBInv

LEMMA CloseInv == ASSUME LBInv, Close PROVE LBInv'
<1>1. /\ pc = "close" /\ Working
      /\ sock' = [sock EXCEPT ![cfd] = "released"]
      /\ cfd' = NoClient /\ pc' = "accept" /\ ~Working'
      /\ accepted' = accepted + 1
      /\ UNCHANGED <<sent, rx, workerVars, start, attempt, rr, got_one,
                     prefix_buf>>
  BY DEF Close, CloseCopy, Working
<1>2. PICK c \in Clients : c = cfd /\ sock[c] = "open" BY <1>1, InHand
<1>3. sock \in [Clients -> {"none", "queued", "open", "released"}]
  BY DEF LBInv, HandoffInv, HandoffType
<1>4. HandoffInv' BY <1>1, <1>2, <1>3, SockInv DEF LBInv
<1>5. LBType' BY <1>1 DEF LBInv, LBType
<1>6. \A d \in Clients : sock[d] = "open" <=> d = c
  BY <1>1, <1>2 DEF LBInv, InHandOnly
<1>7. InHandOnly'
  BY <1>1, <1>2, <1>3, <1>6, LoadBalancerZigConstants DEF InHandOnly
<1>8. ReadInOrder' /\ TriedAreDead' BY <1>1 DEF ReadInOrder, TriedAreDead
<1> QED BY <1>4, <1>5, <1>7, <1>8 DEF LBInv

\* A worker that exits stays dead, so a backend tried in vain stays one.
LEMMA SurroundingsKeepLB ==
  ASSUME LBInv, Surroundings, UNCHANGED lbVars
  PROVE  LBInv'
<1>1. /\ HandoffInv' /\ Working' = Working
      /\ UNCHANGED <<pc, cfd, start, attempt, rr, accepted, got_one, prefix_buf>>
  BY SurroundingsInv DEF LBInv, lbVars, Working
<1>2. /\ HandoffType /\ HandoffType'
      /\ \A c \in Clients :
           \/ sock'[c] = sock[c]
           \/ sock[c] = "none" /\ sock'[c] = "queued"
      /\ \A b \in Backends, c \in Clients : Passed(b, c)' => Passed(b, c)
      /\ \A b \in Backends : alive'[b] => alive[b]
  BY <1>1, SurroundingsKeep DEF LBInv, HandoffInv
<1>3. LBType' BY <1>1 DEF LBInv, LBType
<1>4. InHandOnly' BY <1>1, <1>2 DEF LBInv, InHandOnly
<1>5. \A c \in Clients : Unheard(c) => Unheard(c)'
  BY <1>2 DEF Unheard, Passed
<1>6. ReadInOrder'
  <2>1. SUFFICES ASSUME pc \in {"read", "send"}
                 PROVE  Unheard(cfd)' /\ prefix_buf \o rx'[cfd] = Arrived(cfd)'
    BY <1>1 DEF ReadInOrder
  <2>2. PICK c \in Clients, p \in Seq(Chunks) :
          /\ c = cfd /\ c = cfd' /\ sock[c] = "open" /\ p = prefix_buf
          /\ Unheard(c) /\ p \o rx[c] = Arrived(c)
    BY <1>1, <2>1, InHand DEF Working, LBInv, LBType, ReadInOrder
  <2>3. Unheard(c)' BY <1>5, <2>2
  <2>4. p \o rx'[c] = Arrived(c)' BY <1>2, <2>2, BytesStay
  <2> QED BY <2>2, <2>3, <2>4
<1>7. TriedAreDead'
  <2>1. SUFFICES ASSUME pc = "send", NEW i \in 0 .. attempt - 1
                 PROVE  ~alive'[(start + i) % NB]
    BY <1>1 DEF TriedAreDead
  <2>2. i \in 0 .. NB /\ start \in Backends
    BY HandoffConstants DEF LBInv, LBType
  <2>3. PICK b \in Backends : b = (start + i) % NB BY <2>2, Around
  <2> QED BY <1>2, <2>1, <2>3 DEF LBInv, TriedAreDead
<1> QED BY <1>1, <1>3, <1>4, <1>6, <1>7 DEF LBInv

LEMMA StutterKeeps == ASSUME LBInv, UNCHANGED vars PROVE LBInv'
<1>1. UNCHANGED <<sock, sent, rx, workerVars, alive, pc, cfd, start, attempt,
                  rr, accepted, got_one, prefix_buf>>
  BY DEF vars, handoffVars, lbVars, workerVars
<1>2. HandoffInv' BY <1>1, SockInv DEF LBInv, HandoffInv, HandoffType
<1>3. LBType' BY <1>1 DEF LBInv, LBType
<1>4. InHandOnly' BY <1>1 DEF LBInv, InHandOnly, Working
<1>5. ReadInOrder'
  BY <1>1, InHand, SameHearing DEF LBInv, ReadInOrder, Arrived, Working
<1>6. TriedAreDead' BY <1>1 DEF LBInv, TriedAreDead
<1> QED BY <1>2, <1>3, <1>4, <1>5, <1>6 DEF LBInv

LEMMA StepInv == ASSUME LBInv, [Next]_vars PROVE LBInv'
<1>1. CASE Accept BY <1>1, AcceptInv
<1>2. CASE EndBatch \/ Poll BY <1>2, IdleInv
<1>3. CASE ReadSome BY <1>3, ReadSomeInv
<1>4. CASE ReadDone \/ SendFails \/ AllFailed BY <1>4, ThinkInv
<1>5. CASE SendFd BY <1>5, SendFdInv
<1>6. CASE Close BY <1>6, CloseInv
<1>7. CASE Surroundings /\ UNCHANGED lbVars BY <1>7, SurroundingsKeepLB
<1>8. CASE UNCHANGED vars BY <1>8, StutterKeeps
<1> QED BY <1>1, <1>2, <1>3, <1>4, <1>5, <1>6, <1>7, <1>8 DEF Next, LBStep

\* The inductive invariant, from which the rest follows.
LEMMA LBInvariant == Spec => []LBInv
<1>1. Init => LBInv BY InitInv
<1>2. LBInv /\ [Next]_vars => LBInv' BY StepInv
<1> QED BY <1>1, <1>2, PTL DEF Spec

\* In however many parts a client's bytes are read, those a worker gets with
\* the socket and those left in it are all the client sent, in order.
THEOREM BytesKept == Spec => []BytesConserved
<1>1. LBInv => BytesConserved BY DEF LBInv, HandoffInv
<1> QED BY <1>1, LBInvariant, PTL

\* When NB attempts have failed every worker has gone, though the workers kept
\* exiting while it tried.
LEMMA TriedAll ==
  ASSUME LBInv, AllFailed, NEW b \in Backends
  PROVE  ~alive[b]
<1>1. pc = "send" /\ attempt = NB /\ start \in Backends
  BY DEF AllFailed, LBInv, LBType
<1>2. PICK i \in 0 .. NB - 1 : (start + i) % NB = b BY <1>1, Around
<1> QED BY <1>1, <1>2 DEF LBInv, TriedAreDead

\* A client is given up only when every worker has gone.
THEOREM DropsExcused == Spec => DroppedOnlyWhenAllDead
<1>1. ASSUME LBInv, [Next]_vars
      PROVE  [pc = "send" /\ pc' = "close" /\ chan' = chan
                => \A b \in Backends : ~alive[b]]_vars
  <2>1. SUFFICES ASSUME pc = "send", pc' = "close", chan' = chan
                 PROVE  \A b \in Backends : ~alive[b]
    OBVIOUS
  <2>2. CASE AllFailed BY <1>1, <2>2, TriedAll
  <2>3. CASE SendFd
    <3>1. PICK b \in Backends : b = Candidate BY <1>1, CandidateIs
    <3>2. PICK m \in Message : m = [client |-> cfd, prefix |-> prefix_buf]
      BY <1>1, <2>3, InHand DEF SendFd, Working, LBInv, LBType, Message
    <3>3. chan[b] \in Seq(Message) /\ chan'[b] = Append(chan[b], m)
      BY <1>1, <2>3, <3>1, <3>2
         DEF SendFd, Send, LBInv, HandoffInv, HandoffType
    <3>4. Len(Append(chan[b], m)) = Len(chan[b]) + 1 /\ Len(chan[b]) \in Nat
      BY <3>3, AppendProperties, LenProperties
    <3>5. Append(chan[b], m) # chan[b] BY <3>4
    <3> QED BY <2>1, <3>3, <3>5
  <2>4. ~(Accept \/ EndBatch \/ Poll \/ ReadSome \/ ReadDone \/ SendFails
            \/ Close \/ UNCHANGED lbVars)
    BY <2>1 DEF Accept, EndBatch, Poll, ReadSome, ReadDone, SendFails, TryNext,
                Close, lbVars
  <2> QED BY <1>1, <2>2, <2>3, <2>4 DEF Next, LBStep, vars
<1> QED BY <1>1, LBInvariant, PTL DEF Spec, DroppedOnlyWhenAllDead
-----------------------------------------------------------------------------
\* What Dispatch sees of each step.
LEMMA OutcomeIs ==
  ASSUME LBInv, NEW c \in Clients
  PROVE  /\ sock[c] = "none" => Outcome(c) = <<"none">>
         /\ \A b \in Backends : Passed(b, c) => Outcome(c) = <<"with", b>>
         /\ sock[c] = "queued" => Outcome(c) = <<"waiting">>
         /\ sock[c] = "open" /\ pc # "close" => Outcome(c) = <<"waiting">>
         /\ (\A b \in Backends : ~Passed(b, c))
              /\ (sock[c] = "released" \/ (sock[c] = "open" /\ pc = "close"))
            => Outcome(c) = <<"dropped">>
<1>1. sock[c] \in {"none", "queued", "open", "released"}
  BY DEF LBInv, HandoffInv, HandoffType
<1>2. sock[c] \in {"none", "queued"} => \A b \in Backends : ~Passed(b, c)
  BY DEF LBInv, HandoffInv, QueueUntouched, Unheard, Passed
<1>3. sock[c] = "open" /\ pc # "close" => \A b \in Backends : ~Passed(b, c)
  BY DEF LBInv, InHandOnly, Working, ReadInOrder, Unheard, Passed
<1>4. \A b \in Backends : Passed(b, c) => Holder(c) = <<"with", b>>
  BY HolderIs DEF LBInv, HandoffInv
<1> QED BY <1>1, <1>2, <1>3, <1>4 DEF Outcome

LEMMA OutcomeIsNext ==
  ASSUME LBInv', NEW c \in Clients
  PROVE  /\ sock'[c] = "none" => Outcome(c)' = <<"none">>
         /\ \A b \in Backends : Passed(b, c)' => Outcome(c)' = <<"with", b>>
         /\ sock'[c] = "queued" => Outcome(c)' = <<"waiting">>
         /\ sock'[c] = "open" /\ pc' # "close" => Outcome(c)' = <<"waiting">>
         /\ (\A b \in Backends : ~Passed(b, c)')
              /\ (sock'[c] = "released" \/ (sock'[c] = "open" /\ pc' = "close"))
            => Outcome(c)' = <<"dropped">>
<1>1. sock'[c] \in {"none", "queued", "open", "released"}
  BY DEF LBInv, HandoffInv, HandoffType
<1>2. sock'[c] \in {"none", "queued"} => \A b \in Backends : ~Passed(b, c)'
  BY DEF LBInv, HandoffInv, QueueUntouched, Unheard, Passed
<1>3. sock'[c] = "open" /\ pc' # "close" => \A b \in Backends : ~Passed(b, c)'
  BY DEF LBInv, InHandOnly, Working, ReadInOrder, Unheard, Passed
<1>4. \A b \in Backends : Passed(b, c)' => Holder(c)' = <<"with", b>>
  BY HolderIsNext DEF LBInv, HandoffInv
<1> QED BY <1>1, <1>2, <1>3, <1>4 DEF Outcome

\* A client nothing is done to keeps its outcome.
LEMMA OutcomeStays ==
  ASSUME LBInv, LBInv', NEW c \in Clients, sock'[c] = sock[c],
         \A b \in Backends : Passed(b, c)' <=> Passed(b, c),
         sock[c] = "open" => (pc = "close" <=> pc' = "close")
  PROVE  Outcome(c)' = Outcome(c)
<1>1. sock[c] \in {"none", "queued", "open", "released"}
  BY DEF LBInv, HandoffInv, HandoffType
<1>2. CASE \E b \in Backends : Passed(b, c) BY <1>2, OutcomeIs, OutcomeIsNext
<1>3. CASE \A b \in Backends : ~Passed(b, c)
  BY <1>1, <1>3, OutcomeIs, OutcomeIsNext
<1> QED BY <1>2, <1>3

\* Only the client in hand is open.
LEMMA OthersClosed ==
  ASSUME LBInv, NEW c \in Clients, ~Working \/ c # cfd
  PROVE  sock[c] # "open"
BY DEF LBInv, InHandOnly

\* Steps that change no outcome.
LEMMA QuietMaps ==
  ASSUME LBInv, LBInv',
         Accept \/ EndBatch \/ Poll \/ ReadSome \/ ReadDone \/ SendFails \/ Close
  PROVE  UNCHANGED <<outcomeBar, goneBar>>
<1>1. UNCHANGED <<workerVars, alive>>
  BY DEF Accept, EndBatch, Poll, ReadSome, ReadDone, SendFails, Close,
         handoffVars, workerVars
<1>2. goneBar' = goneBar BY <1>1 DEF goneBar
<1>3. \A b \in Backends, d \in Clients : Passed(b, d)' <=> Passed(b, d)
  BY <1>1, SameHearing
<1>4. sock \in [Clients -> {"none", "queued", "open", "released"}]
  BY DEF LBInv, HandoffInv, HandoffType
<1>5. SUFFICES ASSUME NEW c \in Clients PROVE Outcome(c)' = Outcome(c)
  BY <1>2 DEF outcomeBar
<1>6. CASE Accept
  <2>1. PICK d \in Clients : sock[d] = "queued"
                             /\ sock' = [sock EXCEPT ![d] = "open"]
    BY <1>6 DEF Accept, Queued
  <2>2. CASE c = d
    <3>1. sock'[c] = "open" /\ pc' # "close" BY <1>4, <1>6, <2>1, <2>2 DEF Accept
    <3> QED BY <2>1, <2>2, <3>1, OutcomeIs, OutcomeIsNext
  <2>3. CASE c # d
    <3>1. ~Working BY <1>6 DEF Accept, Working
    <3> QED BY <1>1, <1>3, <2>1, <2>3, <3>1, OthersClosed, OutcomeStays
  <2> QED BY <2>2, <2>3
<1>7. CASE EndBatch \/ Poll \/ ReadSome \/ ReadDone \/ SendFails
  <2>1. sock' = sock /\ (pc = "close" <=> pc' = "close")
    BY <1>7 DEF EndBatch, Poll, ReadSome, ReadDone, SendFails, TryNext,
                handoffVars
  <2> QED BY <1>3, <2>1, OutcomeStays
<1>8. CASE Close
  <2>1. /\ Working /\ pc = "close" /\ sock' = [sock EXCEPT ![cfd] = "released"]
    BY <1>8 DEF Close, CloseCopy, Working
  <2>2. CASE c = cfd
    <3>1. sock[c] = "open" /\ sock'[c] = "released"
      BY <1>1, <1>4, <2>1, <2>2, InHand
    <3>2. CASE \E b \in Backends : Passed(b, c)
      BY <1>3, <3>2, OutcomeIs, OutcomeIsNext
    <3>3. CASE \A b \in Backends : ~Passed(b, c)
      BY <1>3, <2>1, <3>1, <3>3, OutcomeIs, OutcomeIsNext
    <3> QED BY <3>2, <3>3
  <2>3. CASE c # cfd
    BY <1>3, <2>1, <2>3, OthersClosed, OutcomeStays
  <2> QED BY <2>2, <2>3
<1> QED BY <1>6, <1>7, <1>8

\* A message that is queued gives the client to one worker.
LEMMA PassMaps ==
  ASSUME LBInv, LBInv', SendFd
  PROVE  \E c \in Clients, b \in Backends : Abstract!Give(c, b)
<1>1. /\ Working /\ pc = "send" /\ pc' = "close" /\ UNCHANGED <<sock, alive>>
  BY DEF Working, SendFd, Succeed
<1>2. PICK c \in Clients, b \in Backends :
        /\ c = cfd /\ sock[c] = "open" /\ alive[b] /\ Unheard(c)
        /\ \A a \in Backends, d \in Clients :
             Passed(a, d)' <=> Passed(a, d) \/ (a = b /\ d = c)
  BY <1>1, InHand, SendFdInv
<1>3. outcomeBar[c] = <<"waiting">>
  BY <1>1, <1>2, OutcomeIs DEF outcomeBar
<1>4. Outcome(c)' = <<"with", b>> BY <1>2, OutcomeIsNext
<1>5. \A d \in Clients : d # c => Outcome(d)' = Outcome(d)
  BY <1>1, <1>2, OthersClosed, OutcomeStays
<1>6. outcomeBar' = [outcomeBar EXCEPT ![c] = <<"with", b>>]
  BY <1>4, <1>5 DEF outcomeBar
<1>7. b \notin goneBar /\ goneBar' = goneBar BY <1>1, <1>2 DEF goneBar
<1> QED BY <1>3, <1>6, <1>7 DEF Abstract!Give, Abstract!With

\* The failure of the last attempt drops the client.
LEMMA FailMaps ==
  ASSUME LBInv, LBInv', AllFailed
  PROVE  \E c \in Clients : Abstract!Drop(c)
<1>1. /\ Working /\ pc = "send" /\ pc' = "close"
      /\ UNCHANGED <<sock, workerVars, alive>>
  BY DEF Working, AllFailed, handoffVars, workerVars
<1>2. PICK c \in Clients : c = cfd /\ sock[c] = "open" BY <1>1, InHand
<1>3. outcomeBar[c] = <<"waiting">>
  BY <1>1, <1>2, OutcomeIs DEF outcomeBar
<1>4. \A a \in Backends : ~Passed(a, c) /\ ~Passed(a, c)'
  BY <1>1, <1>2, SameHearing DEF LBInv, ReadInOrder, Unheard, Passed
<1>5. Outcome(c)' = <<"dropped">> BY <1>1, <1>2, <1>4, OutcomeIsNext
<1>6. ASSUME NEW d \in Clients, d # c PROVE Outcome(d)' = Outcome(d)
  <2>1. sock[d] # "open" BY <1>2, <1>6, OthersClosed
  <2>2. \A a \in Backends : Passed(a, d)' <=> Passed(a, d)
    BY <1>1, SameHearing
  <2> QED BY <1>1, <2>1, <2>2, OutcomeStays
<1>7. outcomeBar' = [outcomeBar EXCEPT ![c] = <<"dropped">>]
  BY <1>5, <1>6 DEF outcomeBar
<1>8. goneBar # {} /\ goneBar' = goneBar
  <2>1. 0 \in Backends /\ ~alive[0] BY Around, TriedAll
  <2> QED BY <1>1, <2>1 DEF goneBar
<1> QED BY <1>3, <1>7, <1>8 DEF Abstract!Drop

\* A worker's exit takes its clients along, and no others.
LEMMA ExitMaps ==
  ASSUME LBInv, LBInv', NEW b \in Backends, WorkerDie(b), UNCHANGED lbVars
  PROVE  Abstract!Exit(b)
<1>1. /\ alive[b] /\ alive' = [alive EXCEPT ![b] = FALSE]
      /\ UNCHANGED <<sock, pc>>
      /\ alive \in [Backends -> BOOLEAN]
  BY DEF WorkerDie, lbVars, LBInv, HandoffInv, HandoffType
<1>2. b \notin goneBar /\ goneBar' = goneBar \cup {b} BY <1>1 DEF goneBar
<1>3. \A a \in Backends, c \in Clients :
        Deliveries(a, c)' = IF a = b THEN {} ELSE Deliveries(a, c)
  BY DieMail DEF LBInv, HandoffInv
<1>4. ASSUME NEW c \in Clients
      PROVE  Outcome(c)' = IF Outcome(c) = <<"with", b>> THEN <<"dropped">>
                           ELSE Outcome(c)
  <2>1. CASE Passed(b, c)
    <3>1. Outcome(c) = <<"with", b>> BY <2>1, OutcomeIs
    <3>2. \A a \in Backends : ~Passed(a, c)'
      BY <1>3, <2>1, HolderIs DEF LBInv, HandoffInv, Passed
    <3>3. sock[c] = "released" \/ (sock[c] = "open" /\ pc = "close")
      <4>1. ~Unheard(c) BY <2>1 DEF Unheard, Passed
      <4> QED BY <4>1 DEF LBInv, HandoffInv, QueueUntouched, HandoffType,
                          InHandOnly, Working, ReadInOrder
    <3>4. Outcome(c)' = <<"dropped">> BY <1>1, <3>2, <3>3, OutcomeIsNext
    <3> QED BY <3>1, <3>4
  <2>2. CASE ~Passed(b, c)
    <3>1. \A a \in Backends : Passed(a, c)' <=> Passed(a, c)
      BY <1>3, <2>2 DEF Passed
    <3>2. Outcome(c)' = Outcome(c) BY <1>1, <3>1, OutcomeStays
    <3>3. Outcome(c) # <<"with", b>>
      <4>1. sock[c] \in {"none", "queued", "open", "released"}
        BY DEF LBInv, HandoffInv, HandoffType
      <4>2. CASE \E a \in Backends : Passed(a, c)
        <5>1. PICK a \in Backends : Passed(a, c) BY <4>2
        <5>2. Outcome(c) = <<"with", a>> /\ a # b BY <2>2, <5>1, OutcomeIs
        <5> QED BY <5>2
      <4>3. CASE \A a \in Backends : ~Passed(a, c)
        <5>1. Outcome(c) \in {<<"none">>, <<"waiting">>, <<"dropped">>}
          BY <4>1, <4>3, OutcomeIs
        <5> QED BY <5>1
      <4> QED BY <4>2, <4>3
    <3> QED BY <3>2, <3>3
  <2> QED BY <2>1, <2>2
<1>5. outcomeBar' = [c \in Clients |-> IF outcomeBar[c] = <<"with", b>>
                                      THEN <<"dropped">> ELSE outcomeBar[c]]
  BY <1>4 DEF outcomeBar
<1> QED BY <1>2, <1>5 DEF Abstract!Exit, Abstract!With

\* What clients and workers do is an arrival, an exit or nothing to Dispatch.
LEMMA SurroundingsMap ==
  ASSUME LBInv, LBInv', Surroundings, UNCHANGED lbVars
  PROVE  \/ \E c \in Clients : Abstract!Arrive(c)
         \/ \E b \in Backends : Abstract!Exit(b)
         \/ UNCHANGED <<outcomeBar, goneBar>>
<1>1. pc' = pc BY DEF lbVars
<1>2. CASE \E c \in Clients : Connect(c)
  <2>1. PICK c \in Clients : Connect(c) BY <1>2
  <2>2. /\ sock[c] = "none" /\ sock' = [sock EXCEPT ![c] = "queued"]
        /\ UNCHANGED <<workerVars, alive>>
        /\ sock \in [Clients -> {"none", "queued", "open", "released"}]
    BY <2>1 DEF Connect, workerVars, LBInv, HandoffInv, HandoffType
  <2>3. outcomeBar[c] = <<"none">> BY <2>2, OutcomeIs DEF outcomeBar
  <2>4. Outcome(c)' = <<"waiting">> BY <2>2, OutcomeIsNext
  <2>5. \A d \in Clients : d # c => Outcome(d)' = Outcome(d)
    BY <1>1, <2>2, SameHearing, OutcomeStays
  <2>6. outcomeBar' = [outcomeBar EXCEPT ![c] = <<"waiting">>]
    BY <2>4, <2>5 DEF outcomeBar
  <2>7. goneBar' = goneBar BY <2>2 DEF goneBar
  <2> QED BY <2>3, <2>6, <2>7 DEF Abstract!Arrive
<1>3. CASE (\E c \in Clients : ClientSend(c)) \/ \E b \in Backends : WorkerTake(b)
  <2>1. UNCHANGED <<sock, alive>>
    BY <1>3 DEF ClientSend, WorkerTake, workerVars
  <2>2. \A b \in Backends, c \in Clients : Passed(b, c)' <=> Passed(b, c)
    BY <1>3, TakeMail, SameHearing DEF ClientSend, LBInv, HandoffInv
  <2>3. \A c \in Clients : Outcome(c)' = Outcome(c)
    BY <1>1, <2>1, <2>2, OutcomeStays
  <2> QED BY <2>1, <2>3 DEF outcomeBar, goneBar
<1>4. CASE \E b \in Backends : WorkerDie(b) BY <1>4, ExitMaps
<1> QED BY <1>2, <1>3, <1>4 DEF Surroundings

\* Every connection gets one outcome, once, however many workers are tried and
\* whichever exits when.  (That it gets one in the end is for TLC.)
THEOREM LBImplements == Spec => Abstract!Safe
<1>1. ASSUME Init PROVE Abstract!Init
  <2>1. LBInv BY <1>1, InitInv
  <2>2. \A c \in Clients : Outcome(c) = <<"none">>
    BY <1>1, <2>1, OutcomeIs DEF Init, HandoffInit
  <2>3. goneBar = {} BY <1>1 DEF Init, HandoffInit, goneBar
  <2> QED BY <2>2, <2>3 DEF Abstract!Init, outcomeBar
<1>2. ASSUME LBInv, LBInv', [Next]_vars
      PROVE  [Abstract!Next]_(Abstract!vars)
  <2>1. CASE Accept \/ EndBatch \/ Poll \/ ReadSome \/ ReadDone \/ SendFails
               \/ Close
    BY <1>2, <2>1, QuietMaps DEF Abstract!vars
  <2>2. CASE SendFd
    BY <1>2, <2>2, PassMaps DEF Abstract!Next, Abstract!Settle
  <2>3. CASE AllFailed
    BY <1>2, <2>3, FailMaps DEF Abstract!Next, Abstract!Settle
  <2>4. CASE Surroundings /\ UNCHANGED lbVars
    BY <1>2, <2>4, SurroundingsMap DEF Abstract!Next, Abstract!vars
  <2>5. CASE UNCHANGED vars
    <3>1. UNCHANGED <<sock, workerVars, alive, pc>>
      BY <2>5 DEF vars, handoffVars, lbVars, workerVars
    <3>2. \A c \in Clients : Outcome(c)' = Outcome(c)
      BY <1>2, <3>1, SameHearing, OutcomeStays
    <3> QED BY <3>1, <3>2 DEF outcomeBar, goneBar, Abstract!vars
  <2> QED BY <1>2, <2>1, <2>2, <2>3, <2>4, <2>5 DEF Next, LBStep
<1>3. Abstract!Init /\ [][Abstract!Next]_(Abstract!vars) => Abstract!Safe
  BY DEF Abstract!Safe
<1> QED BY <1>1, <1>2, <1>3, LBInvariant, PTL DEF Spec

=============================================================================
