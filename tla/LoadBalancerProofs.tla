-------------------------- MODULE LoadBalancerProofs --------------------------
(***************************************************************************)
(* lb.c, for any number of clients and workers, any requests and any       *)
(* capacity of the control connections.                                    *)
(***************************************************************************)
EXTENDS LoadBalancer, HandoffProofs

Calls == {"accept", "poll", "peek", "drain", "send", "block", "close"}

LBType ==
  /\ pc \in Calls /\ cfd \in Clients \cup {NoClient}
  /\ target \in Backends /\ rr \in Backends
  /\ accepted \in 0 .. ACCEPT_BATCH
  /\ staged \in Seq(Chunks)
  /\ served \subseteq Clients
  /\ assigned \in [Backends -> Nat]

\* The client it works on is a client.
Occupied == Holding <=> cfd \in Clients

\* How far the hand-off of that client has come.
Underway ==
  /\ Holding /\ pc # "close" => Unheard(cfd)
  /\ pc \in {"peek", "drain"} => rx[cfd] = Arrived(cfd)
  /\ pc \in {"send", "block"} => staged \o rx[cfd] = Arrived(cfd)
  /\ pc = "close" => Passed(target, cfd) \/ ~alive[target]

\* A client answered here is closed, and no worker knows of it.
ServedHere ==
  \A c \in served :
    sock[c] = "released" /\ Unheard(c) /\ StartsReady(Request[c])

\* The backends before the one whose turn it is are one client ahead.
Turns ==
  \E k \in Nat : \A b \in Backends :
    assigned[b] = IF b < rr THEN k + 1 ELSE k

LBInv ==
  /\ HandoffInv /\ LBType /\ NoDescriptorLeak /\ Occupied /\ Underway
  /\ ServedHere /\ Turns
-----------------------------------------------------------------------------
LEMMA BackendFacts ==
  /\ 0 \in Backends
  /\ \A b \in Backends : (b + 1) % NB \in Backends
  /\ \A b \in Backends : \/ b + 1 \in Backends /\ (b + 1) % NB = b + 1
                         \/ b + 1 = NB /\ (b + 1) % NB = 0
<1>1. NB \in Nat /\ NB > 0 BY HandoffConstants
<1>2. \A n, i \in Nat : n > 0 /\ i < n => i % n = i OBVIOUS
<1>3. \A n \in Nat : n > 0 => n % n = 0 OBVIOUS
<1> QED BY <1>1, <1>2, <1>3 DEF Backends

LEMMA InitInv == ASSUME Init PROVE LBInv
<1>1. HandoffInv BY HandoffInitInv DEF Init
<1>2. /\ LBType
      /\ ~Holding /\ cfd = NoClient /\ served = {}
      /\ \A c \in Clients : sock[c] # "open"
  BY BackendFacts, EmptySeq, LoadBalancerConstants
     DEF Init, LBType, Calls, Holding, HandoffInit
<1>3. NoDescriptorLeak /\ Occupied /\ Underway /\ ServedHere
  BY <1>2, LoadBalancerConstants
     DEF NoDescriptorLeak, Occupied, Underway, ServedHere, Init, Holding
<1>4. Turns BY DEF Turns, Init, Backends
<1> QED BY <1>1, <1>2, <1>3, <1>4 DEF LBInv

\* The client in hand.
LEMMA InHand ==
  ASSUME LBInv, Holding
  PROVE  cfd \in Clients /\ cfd # NoClient /\ sock[cfd] = "open"
         /\ cfd \notin served
BY LoadBalancerConstants DEF LBInv, Occupied, NoDescriptorLeak, ServedHere

LEMMA AcceptInv == ASSUME LBInv, Accept PROVE LBInv'
<1>1. PICK c \in Clients :
        sock[c] = "queued" /\ cfd' = c /\ sock' = [sock EXCEPT ![c] = "open"]
  BY DEF Accept, Queued
<1>2. /\ pc = "accept" /\ pc' = "peek" /\ accepted < ACCEPT_BATCH
      /\ accepted' = accepted + 1
      /\ UNCHANGED <<sent, rx, workerVars, target, rr, staged, served, assigned>>
      /\ ~Holding /\ Holding'
  BY DEF Accept, Holding
<1>3. sock \in [Clients -> {"none", "queued", "open", "released"}]
  BY DEF LBInv, HandoffInv, HandoffType
<1>4. HandoffInv' BY <1>1, <1>2, <1>3, SockInv DEF LBInv
<1>5. LBType' BY <1>1, <1>2, LoadBalancerConstants DEF LBInv, LBType, Calls
<1>6. \A d \in Clients : sock[d] # "open"
  BY <1>2 DEF LBInv, NoDescriptorLeak
<1>7. NoDescriptorLeak' /\ Occupied'
  BY <1>1, <1>2, <1>3, <1>6 DEF NoDescriptorLeak, Occupied
<1>8. Unheard(c)' /\ rx'[c] = Arrived(c)'
  BY <1>1, <1>2, SameHearing DEF LBInv, HandoffInv, QueueUntouched, Arrived
<1>9. Underway' BY <1>1, <1>2, <1>8 DEF Underway
<1>10. ServedHere'
  BY <1>1, <1>2, <1>3, SameHearing DEF LBInv, LBType, ServedHere
<1>11. Turns' BY <1>2 DEF LBInv, Turns
<1> QED BY <1>4, <1>5, <1>7, <1>9, <1>10, <1>11 DEF LBInv

LEMMA EndBatchInv == ASSUME LBInv, EndBatch \/ Poll PROVE LBInv'
<1>1. /\ UNCHANGED <<handoffVars, cfd, target, rr, staged, served, assigned>>
      /\ ~Holding /\ ~Holding' /\ pc' \in {"accept", "poll"}
      /\ accepted' \in {0, accepted}
  BY DEF EndBatch, Poll, Holding
<1>2. UNCHANGED <<sock, sent, rx, workerVars>> BY <1>1 DEF handoffVars
<1>3. HandoffInv' BY <1>2, SockInv DEF LBInv, HandoffInv, HandoffType
<1>4. LBType' BY <1>1, LoadBalancerConstants DEF LBInv, LBType, Calls
<1>5. NoDescriptorLeak' /\ Occupied'
  BY <1>1, <1>2 DEF LBInv, NoDescriptorLeak, Occupied
<1>6. Underway' BY <1>1 DEF Underway, Holding
<1>7. ServedHere' BY <1>1, <1>2, SameHearing DEF LBInv, LBType, ServedHere
<1>8. Turns' BY <1>1 DEF LBInv, Turns
<1> QED BY <1>3, <1>4, <1>5, <1>6, <1>7, <1>8 DEF LBInv

LEMMA ServeReadyInv == ASSUME LBInv, ServeReady PROVE LBInv'
<1>1. /\ pc = "peek" /\ StartsReady(rx[cfd]) /\ Holding
      /\ served' = served \cup {cfd}
      /\ sock' = [sock EXCEPT ![cfd] = "released"]
      /\ cfd' = NoClient /\ pc' = "accept" /\ ~Holding'
      /\ UNCHANGED <<sent, rx, workerVars, target, rr, accepted, staged,
                     assigned>>
  BY DEF ServeReady, CloseCopy, MayLookReady, Holding
<1>2. PICK c \in Clients : c = cfd /\ sock[c] = "open" /\ c \notin served
  BY <1>1, InHand
<1>3. sock \in [Clients -> {"none", "queued", "open", "released"}]
  BY DEF LBInv, HandoffInv, HandoffType
<1>4. HandoffInv' BY <1>1, <1>2, <1>3, SockInv DEF LBInv
<1>5. LBType' BY <1>1, <1>2 DEF LBInv, LBType, Calls
<1>6. \A d \in Clients : sock[d] = "open" <=> d = c
  BY <1>1, <1>2 DEF LBInv, NoDescriptorLeak
<1>7. NoDescriptorLeak' /\ Occupied'
  BY <1>1, <1>2, <1>3, <1>6, LoadBalancerConstants
     DEF NoDescriptorLeak, Occupied
<1>8. Underway' BY <1>1 DEF Underway, Holding
<1>9. Unheard(c) /\ StartsReady(Request[c])
  <2>1. Unheard(c) /\ rx[c] = Arrived(c)
    BY <1>1, <1>2 DEF LBInv, Underway
  <2>2. PICK q \in Seq(Chunks), n \in 0 .. Len(Request[c]) :
          q = Request[c] /\ n = sent[c]
    BY HandoffConstants DEF LBInv, HandoffInv, HandoffType
  <2>3. SubSeq(q, 1, n) \in Seq(Chunks) /\ Len(SubSeq(q, 1, n)) = n
        /\ Len(q) \in Nat
    BY <2>2, Prefix, LenProperties
  <2>4. StartsReady(SubSeq(q, 1, n))
    BY <1>1, <1>2, <2>1, <2>2 DEF Arrived
  <2>5. SubSeq(q, 1, n) # <<>> BY <2>4 DEF StartsReady
  <2>6. n # 0
    BY <2>2, <2>3, <2>5, SubSeqEmpty
  <2>7. 1 \in 1 .. Len(q) /\ n \in 1 .. Len(q) BY <2>2, <2>3, <2>6
  <2>8. Head(SubSeq(q, 1, n)) = q[1] BY <2>7, HeadTailOfSubSeq
  <2>9. q # <<>> /\ Head(q) = q[1] BY <2>7, EmptySeq, HeadTailProperties
  <2> QED BY <2>1, <2>2, <2>4, <2>8, <2>9 DEF StartsReady
<1>10. ServedHere'
  BY <1>1, <1>2, <1>3, <1>9, SameHearing DEF LBInv, LBType, ServedHere
<1>11. Turns' BY <1>1 DEF LBInv, Turns
<1> QED BY <1>4, <1>5, <1>7, <1>8, <1>10, <1>11 DEF LBInv

\* One more for the backend whose turn it is, and the turn passes on.
LEMMA TurnPasses ==
  ASSUME LBType, Turns, rr' = NextTurn,
         assigned' = [assigned EXCEPT ![rr] = @ + 1]
  PROVE  Turns' /\ rr' \in Backends /\ assigned' \in [Backends -> Nat]
<1>1. PICK k \in Nat : \A b \in Backends :
        assigned[b] = IF b < rr THEN k + 1 ELSE k
  BY DEF Turns
<1>2. rr \in Backends /\ rr' \in Backends
      /\ (rr' = rr + 1 \/ (rr + 1 = NB /\ rr' = 0))
  BY BackendFacts DEF LBType, NextTurn
<1>3. assigned'[rr] = k + 1 /\ \A b \in Backends : b # rr => assigned'[b] = assigned[b]
  BY <1>1, <1>2 DEF LBType, Backends
<1>4. assigned' \in [Backends -> Nat] BY <1>1, <1>2, <1>3 DEF LBType
<1>5. CASE rr' = rr + 1
  <2>1. \A b \in Backends : assigned'[b] = IF b < rr' THEN k + 1 ELSE k
    BY <1>1, <1>2, <1>3, <1>5 DEF Backends
  <2> QED BY <1>2, <1>4, <2>1 DEF Turns
<1>6. CASE rr + 1 = NB /\ rr' = 0
  <2>1. \A b \in Backends : assigned'[b] = IF b < rr' THEN k + 1 + 1 ELSE k + 1
    BY <1>1, <1>2, <1>3, <1>6, HandoffConstants DEF Backends
  <2>2. k + 1 \in Nat OBVIOUS
  <2> QED BY <1>2, <1>4, <2>1, <2>2 DEF Turns
<1> QED BY <1>2, <1>5, <1>6

LEMMA ChooseBackendInv == ASSUME LBInv, ChooseBackend PROVE LBInv'
<1>1. /\ pc = "peek" /\ pc' = "drain" /\ Holding /\ Holding'
      /\ target' = rr /\ rr' = NextTurn
      /\ assigned' = [assigned EXCEPT ![rr] = @ + 1]
      /\ UNCHANGED <<sock, sent, rx, workerVars, cfd, accepted, staged, served>>
  BY DEF ChooseBackend, Holding, handoffVars
<1>2. HandoffInv' BY <1>1, SockInv DEF LBInv, HandoffInv, HandoffType
<1>3. Turns' /\ rr' \in Backends /\ assigned' \in [Backends -> Nat]
  BY <1>1, TurnPasses DEF LBInv
<1>4. LBType' BY <1>1, <1>3 DEF LBInv, LBType, Calls
<1>5. NoDescriptorLeak' /\ Occupied'
  BY <1>1 DEF LBInv, NoDescriptorLeak, Occupied
<1>6. cfd \in Clients BY <1>1, InHand
<1>7. Underway'
  BY <1>1, <1>6, SameHearing DEF LBInv, Underway, Arrived
<1>8. ServedHere' BY <1>1, SameHearing DEF LBInv, LBType, ServedHere
<1> QED BY <1>2, <1>3, <1>4, <1>5, <1>7, <1>8 DEF LBInv

LEMMA DrainPrefixInv == ASSUME LBInv, DrainPrefix PROVE LBInv'
<1>1. /\ pc = "drain" /\ pc' = "send" /\ Holding /\ Holding'
      /\ staged' = Taken(cfd, MAX_PREFIX) /\ Consume(cfd, MAX_PREFIX)
      /\ UNCHANGED <<sock, sent, workerVars, cfd, target, rr, accepted,
                     served, assigned>>
  BY DEF DrainPrefix, Holding
<1>2. PICK c \in Clients : c = cfd /\ sock[c] = "open" BY <1>1, InHand
<1>3. Unheard(c) /\ rx[c] = Arrived(c) BY <1>1, <1>2 DEF LBInv, Underway
<1>4. <<>> \in Seq(Chunks) /\ rx[c] \in Seq(Chunks) /\ <<>> \o rx[c] = rx[c]
  BY EmptySeq, ConcatEmptySeq DEF LBInv, HandoffInv, HandoffType
<1>5. MAX_PREFIX \in Nat BY HandoffConstants
<1>6. /\ HandoffInv' /\ Unheard(c)' /\ Taken(c, MAX_PREFIX) \in Seq(Chunks)
      /\ (<<>> \o Taken(c, MAX_PREFIX)) \o rx'[c] = Arrived(c)'
  BY <1>1, <1>2, <1>3, <1>4, <1>5, ReadInv DEF LBInv
<1>7. <<>> \o Taken(c, MAX_PREFIX) = Taken(c, MAX_PREFIX)
  BY <1>6, ConcatEmptySeq
<1>8. LBType' BY <1>1, <1>2, <1>6 DEF LBInv, LBType, Calls
<1>9. NoDescriptorLeak' /\ Occupied'
  BY <1>1 DEF LBInv, NoDescriptorLeak, Occupied
<1>10. Underway' BY <1>1, <1>2, <1>6, <1>7 DEF Underway
<1>11. ServedHere' BY <1>1, SameHearing DEF LBInv, LBType, ServedHere
<1>12. Turns' BY <1>1 DEF LBInv, Turns
<1> QED BY <1>6, <1>8, <1>9, <1>10, <1>11, <1>12 DEF LBInv

\* Either attempt to pass the socket, when it succeeds.
LEMMA PassesSocket ==
  ASSUME LBInv, pc \in {"send", "block"}, pc' = "close",
         Send(target, cfd, staged),
         UNCHANGED <<sock, sent, rx, taken, alive, cfd, target, rr, accepted,
                     staged, served, assigned>>
  PROVE  /\ LBInv' /\ Unheard(cfd) /\ Passed(target, cfd)'
         /\ \A a \in Backends, d \in Clients :
              d # cfd => (Passed(a, d)' <=> Passed(a, d))
<1>1. Holding /\ Holding' /\ pc # "close" BY DEF Holding
<1>2. PICK c \in Clients : c = cfd /\ sock[c] = "open" /\ c \notin served
  BY <1>1, InHand
<1>3. Unheard(c) /\ staged \o rx[c] = Arrived(c)
  BY <1>1, <1>2 DEF LBInv, Underway
<1>4. target \in Backends /\ staged \in Seq(Chunks) BY DEF LBInv, LBType
<1>5. /\ HandoffInv'
      /\ \A a \in Backends, d \in Clients :
           Passed(a, d)' <=> Passed(a, d) \/ (a = target /\ d = c)
  BY <1>2, <1>3, <1>4, SendInv DEF LBInv
<1>6. LBType' BY DEF LBInv, LBType, Calls
<1>7. NoDescriptorLeak' /\ Occupied'
  BY <1>1 DEF LBInv, NoDescriptorLeak, Occupied
<1>8. Underway' BY <1>2, <1>4, <1>5 DEF Underway
<1>9. ServedHere'
  BY <1>2, <1>5 DEF LBInv, LBType, ServedHere, Unheard, Passed
<1>10. Turns' BY DEF LBInv, Turns
<1> QED BY <1>2, <1>3, <1>4, <1>5, <1>6, <1>7, <1>8, <1>9, <1>10 DEF LBInv

\* An attempt that fails, and the next call.
LEMMA FailsToPass ==
  ASSUME LBInv, UNCHANGED <<handoffVars, cfd, target, rr, accepted, staged,
                            served, assigned>>,
         \/ pc = "send" /\ pc' = "block"
         \/ pc = "block" /\ pc' = "close" /\ ~alive[target]
  PROVE  LBInv'
<1>1. Holding /\ Holding' BY DEF Holding
<1>2. UNCHANGED <<sock, sent, rx, workerVars, alive>>
  BY DEF handoffVars, workerVars
<1>3. HandoffInv' BY <1>2, SockInv DEF LBInv, HandoffInv, HandoffType
<1>4. LBType' BY DEF LBInv, LBType, Calls
<1>5. NoDescriptorLeak' /\ Occupied'
  BY <1>1, <1>2 DEF LBInv, NoDescriptorLeak, Occupied
<1>6. cfd \in Clients BY <1>1, InHand
<1>7. Underway'
  BY <1>1, <1>2, <1>6, SameHearing DEF LBInv, Underway, Arrived
<1>8. ServedHere' BY <1>2, SameHearing DEF LBInv, LBType, ServedHere
<1>9. Turns' BY DEF LBInv, Turns
<1> QED BY <1>3, <1>4, <1>5, <1>7, <1>8, <1>9 DEF LBInv

LEMMA CloseInv == ASSUME LBInv, Close PROVE LBInv'
<1>1. /\ pc = "close" /\ Holding
      /\ sock' = [sock EXCEPT ![cfd] = "released"]
      /\ cfd' = NoClient /\ pc' = "accept" /\ ~Holding'
      /\ UNCHANGED <<sent, rx, workerVars, target, rr, accepted, staged,
                     served, assigned>>
  BY DEF Close, CloseCopy, Holding
<1>2. PICK c \in Clients : c = cfd /\ sock[c] = "open" BY <1>1, InHand
<1>3. sock \in [Clients -> {"none", "queued", "open", "released"}]
  BY DEF LBInv, HandoffInv, HandoffType
<1>4. HandoffInv' BY <1>1, <1>2, <1>3, SockInv DEF LBInv
<1>5. LBType' BY <1>1 DEF LBInv, LBType, Calls
<1>6. \A d \in Clients : sock[d] = "open" <=> d = c
  BY <1>1, <1>2 DEF LBInv, NoDescriptorLeak
<1>7. NoDescriptorLeak' /\ Occupied'
  BY <1>1, <1>2, <1>3, <1>6, LoadBalancerConstants
     DEF NoDescriptorLeak, Occupied
<1>8. Underway' BY <1>1 DEF Underway, Holding
<1>9. ServedHere'
  BY <1>1, <1>2, <1>3, SameHearing DEF LBInv, LBType, ServedHere
<1>10. Turns' BY <1>1 DEF LBInv, Turns
<1> QED BY <1>4, <1>5, <1>7, <1>8, <1>9, <1>10 DEF LBInv

\* A worker that exits excuses the message it loses.
LEMMA SurroundingsKeepLB ==
  ASSUME LBInv, Surroundings, UNCHANGED lbVars
  PROVE  LBInv'
<1>1. /\ HandoffInv' /\ Holding' = Holding
      /\ UNCHANGED <<pc, cfd, target, rr, accepted, staged, served, assigned>>
  BY SurroundingsInv DEF LBInv, lbVars, Holding
<1>2. /\ HandoffType /\ HandoffType' /\ OneDelivery
      /\ \A c \in Clients :
           \/ sock'[c] = sock[c]
           \/ sock[c] = "none" /\ sock'[c] = "queued"
      /\ \A b \in Backends, c \in Clients :
           Passed(b, c)' <=> Passed(b, c) /\ (alive[b] => alive'[b])
      /\ \A b \in Backends : alive'[b] => alive[b]
  BY <1>1, SurroundingsKeep DEF LBInv, HandoffInv
<1>3. LBType' BY <1>1 DEF LBInv, LBType
<1>4. NoDescriptorLeak' /\ Occupied'
  BY <1>1, <1>2 DEF LBInv, NoDescriptorLeak, Occupied
<1>5. \A c \in Clients : Unheard(c) => Unheard(c)'
  BY <1>2 DEF Unheard, Passed
<1>6. Underway'
  <2>1. SUFFICES ASSUME Holding PROVE Underway'
    BY <1>1 DEF Underway, Holding
  <2>2. PICK c \in Clients : c = cfd /\ c = cfd' /\ sock[c] = "open"
    BY <1>1, <2>1, InHand
  <2>3. pc # "close" => Unheard(c)' BY <1>5, <2>1, <2>2 DEF LBInv, Underway
  <2>4. ASSUME NEW p \in Seq(Chunks), p \o rx[c] = Arrived(c)
        PROVE  p \o rx'[c] = Arrived(c)'
    BY <1>2, <2>2, <2>4, BytesStay
  <2>5. pc \in {"peek", "drain"} => rx'[c] = Arrived(c)'
    <3>1. /\ <<>> \in Seq(Chunks)
          /\ <<>> \o rx[c] = rx[c] /\ <<>> \o rx'[c] = rx'[c]
      BY <1>2, EmptySeq, ConcatEmptySeq DEF HandoffType
    <3> QED BY <2>2, <2>4, <3>1 DEF LBInv, Underway
  <2>6. pc \in {"send", "block"} => staged \o rx'[c] = Arrived(c)'
    BY <2>2, <2>4 DEF LBInv, Underway, LBType
  <2>7. pc = "close" => Passed(target, c)' \/ ~alive'[target]
    <3>1. PICK b \in Backends : b = target /\ b = target'
      BY <1>1 DEF LBInv, LBType
    <3>2. pc = "close" => Passed(b, c) \/ ~alive[b]
      BY <2>2, <3>1 DEF LBInv, Underway
    <3>3. /\ Passed(b, c)' <=> Passed(b, c) /\ (alive[b] => alive'[b])
          /\ alive'[b] => alive[b]
      BY <1>2
    <3>4. pc = "close" => Passed(b, c)' \/ ~alive'[b] BY <3>2, <3>3
    <3> QED BY <3>1, <3>4
  <2> QED BY <1>1, <2>2, <2>3, <2>5, <2>6, <2>7 DEF Underway
<1>7. ServedHere' BY <1>1, <1>2, <1>5 DEF LBInv, LBType, ServedHere
<1>8. Turns' BY <1>1 DEF LBInv, Turns
<1> QED BY <1>1, <1>3, <1>4, <1>6, <1>7, <1>8 DEF LBInv

LEMMA StutterKeeps == ASSUME LBInv, UNCHANGED vars PROVE LBInv'
<1>1. UNCHANGED <<sock, sent, rx, workerVars, pc, cfd, target, rr, accepted,
                  staged, served, assigned, alive>>
  BY DEF vars, handoffVars, lbVars, workerVars
<1>2. HandoffInv' BY <1>1, SockInv DEF LBInv, HandoffInv, HandoffType
<1>3. LBType' /\ Turns' BY <1>1 DEF LBInv, LBType, Turns
<1>4. NoDescriptorLeak' /\ Occupied'
  BY <1>1 DEF LBInv, NoDescriptorLeak, Occupied, Holding
<1>5. Underway'
  BY <1>1, InHand, SameHearing DEF LBInv, Underway, Arrived, Holding, LBType
<1>6. ServedHere' BY <1>1, SameHearing DEF LBInv, LBType, ServedHere
<1> QED BY <1>2, <1>3, <1>4, <1>5, <1>6 DEF LBInv

LEMMA StepInv == ASSUME LBInv, [Next]_vars PROVE LBInv'
<1>1. CASE Accept BY <1>1, AcceptInv
<1>2. CASE EndBatch \/ Poll BY <1>2, EndBatchInv
<1>3. CASE ServeReady BY <1>3, ServeReadyInv
<1>4. CASE ChooseBackend BY <1>4, ChooseBackendInv
<1>5. CASE DrainPrefix BY <1>5, DrainPrefixInv
<1>6. CASE SendFd BY <1>6, PassesSocket DEF SendFd, AfterSend
<1>7. CASE SendFdFails BY <1>7, FailsToPass DEF SendFdFails, AfterFullQueue
<1>8. CASE SendFdBlocking
  <2>1. CASE alive[target]
    BY <1>8, <2>1, PassesSocket DEF SendFdBlocking
  <2>2. CASE ~alive[target]
    BY <1>8, <2>2, FailsToPass DEF SendFdBlocking, handoffVars, workerVars
  <2> QED BY <2>1, <2>2
<1>9. CASE Close BY <1>9, CloseInv
<1>10. CASE Surroundings /\ UNCHANGED lbVars BY <1>10, SurroundingsKeepLB
<1>11. CASE UNCHANGED vars BY <1>11, StutterKeeps
<1> QED BY <1>1, <1>2, <1>3, <1>4, <1>5, <1>6, <1>7, <1>8, <1>9, <1>10, <1>11
        DEF Next, LBStep
\* The inductive invariant, from which the rest follows.
LEMMA LBInvariant == Spec => []LBInv
<1>1. Init => LBInv BY InitInv
<1>2. LBInv /\ [Next]_vars => LBInv' BY StepInv
<1> QED BY <1>1, <1>2, PTL DEF Spec

\* Whatever arrives between the peek, the read and the hand-off, the bytes a
\* worker gets with a socket and those left in it are all the client sent.
THEOREM BytesKept == Spec => []BytesConserved
<1>1. LBInv => BytesConserved BY DEF LBInv, HandoffInv
<1> QED BY <1>1, LBInvariant, PTL

\* The thread keeps a descriptor open only while it works on that client.
THEOREM DescriptorsKept == Spec => []NoDescriptorLeak
<1>1. LBInv => NoDescriptorLeak BY DEF LBInv
<1> QED BY <1>1, LBInvariant, PTL

\* The turn is fair at every moment: no backend is more than one client ahead
\* of another.
THEOREM TurnsFair == Spec => []Balanced
<1>1. ASSUME LBInv PROVE Balanced
  <2>1. PICK k \in Nat : \A b \in Backends :
          assigned[b] = IF b < rr THEN k + 1 ELSE k
    BY <1>1 DEF LBInv, Turns
  <2>2. SUFFICES ASSUME NEW a \in Backends, NEW b \in Backends
                 PROVE  assigned[a] - assigned[b] \in {-1, 0, 1}
    BY DEF Balanced
  <2>3. assigned[a] \in {k, k + 1} /\ assigned[b] \in {k, k + 1}
    BY <2>1
  <2> QED BY <2>3
<1> QED BY <1>1, LBInvariant, PTL

\* A client that is given up has a worker, or the worker it was for has gone:
\* a full queue never costs a connection.
THEOREM DropsExcused == Spec => DroppedOnlyForDeadBackend
<1>1. ASSUME LBInv, [Next]_vars
      PROVE  [\A c \in Clients :
                sock[c] = "open" /\ sock'[c] = "released" /\ c \notin served'
                  => Passed(target, c) \/ ~alive[target]]_vars
  <2>1. SUFFICES ASSUME NEW c \in Clients, sock[c] = "open",
                        sock'[c] = "released", c \notin served'
                 PROVE  Passed(target, c) \/ ~alive[target]
    OBVIOUS
  <2>2. Holding /\ cfd = c BY <1>1, <2>1 DEF LBInv, NoDescriptorLeak
  <2>3. CASE Close
    BY <1>1, <2>2, <2>3 DEF Close, LBInv, Underway
  <2>4. CASE ServeReady BY <2>1, <2>2, <2>4 DEF ServeReady
  <2>5. CASE Accept BY <2>2, <2>5 DEF Accept, Holding
  <2>6. CASE UNCHANGED sock BY <2>1, <2>6
  <2>7. CASE Surroundings
    BY <1>1, <2>1, <2>7, SurroundingsKeep DEF LBInv, HandoffInv
  <2>8. EndBatch \/ Poll \/ ChooseBackend \/ DrainPrefix \/ SendFd
          \/ SendFdFails \/ SendFdBlocking \/ UNCHANGED vars => UNCHANGED sock
    BY DEF EndBatch, Poll, ChooseBackend, DrainPrefix, SendFd, SendFdFails,
           SendFdBlocking, vars, handoffVars
  <2> QED BY <1>1, <2>3, <2>4, <2>5, <2>6, <2>7, <2>8 DEF Next, LBStep
<1> QED BY <1>1, LBInvariant, PTL DEF Spec, DroppedOnlyForDeadBackend
-----------------------------------------------------------------------------
\* What Dispatch sees of each step.

\* No request for another route starts with GET /ready: those the code may
\* answer as a health check.
NoOtherReadyRoute ==
  \A c \in Clients : StartsReady(Request[c]) => HealthCheck(c)

\* With that, what it answers itself are health checks.
THEOREM HealthChecksOnly ==
  ASSUME NoOtherReadyRoute
  PROVE  Spec => []OnlyHealthChecksServed
<1>1. LBInv => OnlyHealthChecksServed
  BY DEF LBInv, LBType, ServedHere, NoOtherReadyRoute, OnlyHealthChecksServed
<1> QED BY <1>1, LBInvariant, PTL

LEMMA OutcomeIs ==
  ASSUME LBInv, NEW c \in Clients
  PROVE  /\ sock[c] = "none" => Outcome(c) = <<"none">>
         /\ \A b \in Backends : Passed(b, c) => Outcome(c) = <<"with", b>>
         /\ c \in served => Outcome(c) = <<"served">>
         /\ sock[c] = "queued" => Outcome(c) = <<"waiting">>
         /\ sock[c] = "open" /\ pc # "close" => Outcome(c) = <<"waiting">>
         /\ (\A b \in Backends : ~Passed(b, c)) /\ c \notin served
              /\ (sock[c] = "released" \/ (sock[c] = "open" /\ pc = "close"))
            => Outcome(c) = <<"dropped">>
<1>1. sock[c] \in {"none", "queued", "open", "released"}
  BY DEF LBInv, HandoffInv, HandoffType
<1>2. sock[c] \in {"none", "queued"} => \A b \in Backends : ~Passed(b, c)
  BY DEF LBInv, HandoffInv, QueueUntouched, Unheard, Passed
<1>3. sock[c] = "open" /\ pc # "close" => \A b \in Backends : ~Passed(b, c)
  BY DEF LBInv, NoDescriptorLeak, Underway, Unheard, Passed
<1>4. c \in served =>
        sock[c] = "released" /\ \A b \in Backends : ~Passed(b, c)
  BY DEF LBInv, ServedHere, Unheard, Passed
<1>5. \A b \in Backends : Passed(b, c) => Holder(c) = <<"with", b>>
  BY HolderIs DEF LBInv, HandoffInv
<1> QED BY <1>1, <1>2, <1>3, <1>4, <1>5 DEF Outcome

LEMMA OutcomeIsNext ==
  ASSUME LBInv', NEW c \in Clients
  PROVE  /\ sock'[c] = "none" => Outcome(c)' = <<"none">>
         /\ \A b \in Backends : Passed(b, c)' => Outcome(c)' = <<"with", b>>
         /\ c \in served' => Outcome(c)' = <<"served">>
         /\ sock'[c] = "queued" => Outcome(c)' = <<"waiting">>
         /\ sock'[c] = "open" /\ pc' # "close" => Outcome(c)' = <<"waiting">>
         /\ (\A b \in Backends : ~Passed(b, c)') /\ c \notin served'
              /\ (sock'[c] = "released" \/ (sock'[c] = "open" /\ pc' = "close"))
            => Outcome(c)' = <<"dropped">>
<1>1. sock'[c] \in {"none", "queued", "open", "released"}
  BY DEF LBInv, HandoffInv, HandoffType
<1>2. sock'[c] \in {"none", "queued"} => \A b \in Backends : ~Passed(b, c)'
  BY DEF LBInv, HandoffInv, QueueUntouched, Unheard, Passed
<1>3. sock'[c] = "open" /\ pc' # "close" => \A b \in Backends : ~Passed(b, c)'
  BY DEF LBInv, NoDescriptorLeak, Underway, Unheard, Passed
<1>4. c \in served' =>
        sock'[c] = "released" /\ \A b \in Backends : ~Passed(b, c)'
  BY DEF LBInv, ServedHere, Unheard, Passed
<1>5. \A b \in Backends : Passed(b, c)' => Holder(c)' = <<"with", b>>
  BY HolderIsNext DEF LBInv, HandoffInv
<1> QED BY <1>1, <1>2, <1>3, <1>4, <1>5 DEF Outcome

\* A client nothing is done to keeps its outcome.
LEMMA OutcomeStays ==
  ASSUME LBInv, LBInv', NEW c \in Clients,
         sock'[c] = sock[c], c \in served' <=> c \in served,
         \A b \in Backends : Passed(b, c)' <=> Passed(b, c),
         sock[c] = "open" => (pc = "close" <=> pc' = "close")
  PROVE  Outcome(c)' = Outcome(c)
<1>1. sock[c] \in {"none", "queued", "open", "released"}
  BY DEF LBInv, HandoffInv, HandoffType
<1>2. CASE \E b \in Backends : Passed(b, c) BY <1>2, OutcomeIs, OutcomeIsNext
<1>3. CASE c \in served BY <1>3, OutcomeIs, OutcomeIsNext
<1>4. CASE (\A b \in Backends : ~Passed(b, c)) /\ c \notin served
  BY <1>1, <1>4, OutcomeIs, OutcomeIsNext
<1> QED BY <1>2, <1>3, <1>4

\* Only the client in hand is open.
LEMMA OthersClosed ==
  ASSUME LBInv, NEW c \in Clients, ~Holding \/ c # cfd
  PROVE  sock[c] # "open"
BY DEF LBInv, NoDescriptorLeak

\* Steps that change no outcome.
LEMMA QuietMaps ==
  ASSUME LBInv, LBInv',
         Accept \/ EndBatch \/ Poll \/ ChooseBackend \/ DrainPrefix
           \/ SendFdFails \/ Close
  PROVE  UNCHANGED <<outcomeBar, goneBar>>
<1>1. UNCHANGED <<workerVars, alive, served>>
  BY DEF Accept, EndBatch, Poll, ChooseBackend, DrainPrefix, SendFdFails,
         Close, handoffVars, workerVars
<1>2. goneBar' = goneBar BY <1>1 DEF goneBar
<1>3. \A b \in Backends, d \in Clients : Passed(b, d)' <=> Passed(b, d)
  BY <1>1, SameHearing
<1>4. sock \in [Clients -> {"none", "queued", "open", "released"}]
  BY DEF LBInv, HandoffInv, HandoffType
<1>5. SUFFICES ASSUME NEW c \in Clients PROVE Outcome(c)' = Outcome(c)
  BY <1>2 DEF outcomeBar
<1>6. CASE Accept
  <2>1. PICK d \in Clients : sock[d] = "queued"
                             /\ sock' = [sock EXCEPT ![d] = "open"]
    BY <1>6 DEF Accept, Queued
  <2>2. CASE c = d
    <3>1. sock'[c] = "open" /\ pc' # "close" BY <1>4, <1>6, <2>1, <2>2 DEF Accept
    <3> QED BY <2>1, <2>2, <3>1, OutcomeIs, OutcomeIsNext
  <2>3. CASE c # d
    <3>1. ~Holding BY <1>6 DEF Accept, Holding
    <3> QED BY <1>1, <1>3, <2>1, <2>3, <3>1, OthersClosed, OutcomeStays
  <2> QED BY <2>2, <2>3
<1>7. CASE EndBatch \/ Poll \/ ChooseBackend \/ DrainPrefix \/ SendFdFails
  <2>1. sock' = sock /\ (pc = "close" <=> pc' = "close")
    BY <1>7 DEF EndBatch, Poll, ChooseBackend, DrainPrefix, SendFdFails,
                AfterFullQueue, handoffVars
  <2> QED BY <1>1, <1>3, <2>1, OutcomeStays
<1>8. CASE Close
  <2>1. /\ Holding /\ pc = "close" /\ sock' = [sock EXCEPT ![cfd] = "released"]
    BY <1>8 DEF Close, CloseCopy, Holding
  <2>2. CASE c = cfd
    <3>1. sock[c] = "open" /\ sock'[c] = "released" /\ c \notin served
          /\ c \notin served'
      BY <1>1, <1>4, <2>1, <2>2, InHand
    <3>2. CASE \E b \in Backends : Passed(b, c)
      BY <1>3, <3>2, OutcomeIs, OutcomeIsNext
    <3>3. CASE \A b \in Backends : ~Passed(b, c)
      BY <1>3, <2>1, <3>1, <3>3, OutcomeIs, OutcomeIsNext
    <3> QED BY <3>2, <3>3
  <2>3. CASE c # cfd
    BY <1>1, <1>3, <2>1, <2>3, OthersClosed, OutcomeStays
  <2> QED BY <2>2, <2>3
<1> QED BY <1>6, <1>7, <1>8

\* The spot answer.
LEMMA ServeMaps ==
  ASSUME NoOtherReadyRoute, LBInv, LBInv', ServeReady
  PROVE  \E c \in Clients : Abstract!Serve(c)
<1>1. /\ pc = "peek" /\ Holding
      /\ served' = served \cup {cfd}
      /\ sock' = [sock EXCEPT ![cfd] = "released"]
      /\ UNCHANGED <<workerVars, alive>>
  BY DEF ServeReady, CloseCopy, Holding, workerVars
<1>2. PICK c \in Clients : c = cfd /\ sock[c] = "open" /\ c \notin served
  BY <1>1, InHand
<1>3. outcomeBar[c] = <<"waiting">> BY <1>1, <1>2, OutcomeIs DEF outcomeBar
<1>4. Outcome(c)' = <<"served">> BY <1>1, <1>2, OutcomeIsNext
<1>5. ASSUME NEW d \in Clients, d # c PROVE Outcome(d)' = Outcome(d)
  <2>1. sock'[d] = sock[d] /\ (d \in served' <=> d \in served)
    BY <1>1, <1>2, <1>5
  <2> QED BY <1>1, <1>2, <1>5, <2>1, SameHearing, OthersClosed, OutcomeStays
<1>6. outcomeBar' = [outcomeBar EXCEPT ![c] = <<"served">>]
  BY <1>4, <1>5 DEF outcomeBar
<1>7. HealthCheck(c)
  BY <1>1, <1>2 DEF LBInv, ServedHere, NoOtherReadyRoute
<1>8. goneBar' = goneBar BY <1>1 DEF goneBar
<1> QED BY <1>3, <1>6, <1>7, <1>8 DEF Abstract!Serve

\* A message that is queued gives the client to one worker.
LEMMA PassMaps ==
  ASSUME LBInv, LBInv', pc \in {"send", "block"}, pc' = "close",
         Room(target), Send(target, cfd, staged),
         UNCHANGED <<sock, sent, rx, taken, alive, cfd, target, rr, accepted,
                     staged, served, assigned>>
  PROVE  \E c \in Clients, b \in Backends : Abstract!Give(c, b)
<1>1. Holding BY DEF Holding
<1>2. PICK c \in Clients, b \in Backends :
        /\ c = cfd /\ sock[c] = "open" /\ b = target /\ b = target' /\ alive[b]
  BY <1>1, InHand DEF LBInv, LBType, Room
<1>3. outcomeBar[c] = <<"waiting">> BY <1>2, OutcomeIs DEF outcomeBar
<1>4. /\ Passed(target, cfd)'
      /\ \A a \in Backends, d \in Clients :
           d # cfd => (Passed(a, d)' <=> Passed(a, d))
  BY PassesSocket
<1>5. Passed(b, c)' BY <1>2, <1>4
<1>6. Outcome(c)' = <<"with", b>> BY <1>5, OutcomeIsNext
<1>7. \A d \in Clients : d # c => Outcome(d)' = Outcome(d)
  BY <1>2, <1>4, OthersClosed, OutcomeStays
<1>8. outcomeBar' = [outcomeBar EXCEPT ![c] = <<"with", b>>]
  BY <1>6, <1>7 DEF outcomeBar
<1>9. b \notin goneBar /\ goneBar' = goneBar BY <1>2 DEF goneBar
<1> QED BY <1>3, <1>8, <1>9 DEF Abstract!Give, Abstract!With

\* The failure of the second attempt drops the client.
LEMMA FailMaps ==
  ASSUME LBInv, LBInv', SendFdBlocking, ~alive[target]
  PROVE  \E c \in Clients : Abstract!Drop(c)
<1>1. /\ Holding /\ pc = "block" /\ pc' = "close"
      /\ UNCHANGED <<sock, workerVars, alive, served>>
  BY DEF Holding, SendFdBlocking, workerVars
<1>2. PICK c \in Clients, b \in Backends :
        c = cfd /\ sock[c] = "open" /\ b = target /\ c \notin served
  BY <1>1, InHand DEF LBInv, LBType
<1>3. outcomeBar[c] = <<"waiting">>
  BY <1>1, <1>2, OutcomeIs DEF outcomeBar
<1>4. \A a \in Backends : ~Passed(a, c) /\ ~Passed(a, c)'
  BY <1>1, <1>2, SameHearing DEF LBInv, Underway, Unheard, Passed
<1>5. Outcome(c)' = <<"dropped">> BY <1>1, <1>2, <1>4, OutcomeIsNext
<1>6. ASSUME NEW d \in Clients, d # c PROVE Outcome(d)' = Outcome(d)
  <2>1. sock[d] # "open" BY <1>2, <1>6, OthersClosed
  <2>2. \A a \in Backends : Passed(a, d)' <=> Passed(a, d)
    BY <1>1, SameHearing
  <2> QED BY <1>1, <2>1, <2>2, OutcomeStays
<1>7. outcomeBar' = [outcomeBar EXCEPT ![c] = <<"dropped">>]
  BY <1>5, <1>6 DEF outcomeBar
<1>8. goneBar # {} /\ goneBar' = goneBar BY <1>1, <1>2 DEF goneBar
<1> QED BY <1>3, <1>7, <1>8 DEF Abstract!Drop
\* A worker's exit takes its clients along, and no others.
LEMMA ExitMaps ==
  ASSUME LBInv, LBInv', NEW b \in Backends, WorkerDie(b), UNCHANGED lbVars
  PROVE  Abstract!Exit(b)
<1>1. /\ alive[b] /\ alive' = [alive EXCEPT ![b] = FALSE]
      /\ UNCHANGED <<sock, pc, served>>
      /\ alive \in [Backends -> BOOLEAN]
  BY DEF WorkerDie, lbVars, LBInv, HandoffInv, HandoffType
<1>2. b \notin goneBar /\ goneBar' = goneBar \cup {b} BY <1>1 DEF goneBar
<1>3. \A a \in Backends, c \in Clients :
        Deliveries(a, c)' = IF a = b THEN {} ELSE Deliveries(a, c)
  BY DieMail DEF LBInv, HandoffInv
<1>4. ASSUME NEW c \in Clients
      PROVE  Outcome(c)' = IF Outcome(c) = <<"with", b>> THEN <<"dropped">>
                           ELSE Outcome(c)
  <2>1. CASE Passed(b, c)
    <3>1. Outcome(c) = <<"with", b>> BY <2>1, OutcomeIs
    <3>2. \A a \in Backends : ~Passed(a, c)'
      BY <1>3, <2>1, HolderIs DEF LBInv, HandoffInv, Passed
    <3>3. c \notin served /\ (sock[c] = "released" \/ (sock[c] = "open" /\ pc = "close"))
      <4>1. ~Unheard(c) BY <2>1 DEF Unheard, Passed
      <4> QED BY <4>1 DEF LBInv, ServedHere, HandoffInv, QueueUntouched,
                          HandoffType, NoDescriptorLeak, Underway
    <3>4. Outcome(c)' = <<"dropped">> BY <1>1, <3>2, <3>3, OutcomeIsNext
    <3> QED BY <3>1, <3>4
  <2>2. CASE ~Passed(b, c)
    <3>1. \A a \in Backends : Passed(a, c)' <=> Passed(a, c)
      BY <1>3, <2>2 DEF Passed
    <3>2. Outcome(c)' = Outcome(c) BY <1>1, <3>1, OutcomeStays
    <3>3. Outcome(c) # <<"with", b>>
      <4>1. sock[c] \in {"none", "queued", "open", "released"}
        BY DEF LBInv, HandoffInv, HandoffType
      <4>2. CASE \E a \in Backends : Passed(a, c)
        <5>1. PICK a \in Backends : Passed(a, c) BY <4>2
        <5>2. Outcome(c) = <<"with", a>> /\ a # b BY <2>2, <5>1, OutcomeIs
        <5> QED BY <5>2
      <4>3. CASE \A a \in Backends : ~Passed(a, c)
        <5>1. Outcome(c) \in {<<"none">>, <<"served">>, <<"waiting">>,
                              <<"dropped">>}
          BY <4>1, <4>3, OutcomeIs
        <5> QED BY <5>1
      <4> QED BY <4>2, <4>3
    <3> QED BY <3>2, <3>3
  <2> QED BY <2>1, <2>2
<1>5. outcomeBar' = [c \in Clients |-> IF outcomeBar[c] = <<"with", b>>
                                      THEN <<"dropped">> ELSE outcomeBar[c]]
  BY <1>4 DEF outcomeBar
<1> QED BY <1>2, <1>5 DEF Abstract!Exit, Abstract!With

\* What clients and workers do is an arrival, an exit or nothing to Dispatch.
LEMMA SurroundingsMap ==
  ASSUME LBInv, LBInv', Surroundings, UNCHANGED lbVars
  PROVE  \/ \E c \in Clients : Abstract!Arrive(c)
         \/ \E b \in Backends : Abstract!Exit(b)
         \/ UNCHANGED <<outcomeBar, goneBar>>
<1>1. UNCHANGED <<pc, served>> BY DEF lbVars
<1>2. CASE \E c \in Clients : Connect(c)
  <2>1. PICK c \in Clients : Connect(c) BY <1>2
  <2>2. /\ sock[c] = "none" /\ sock' = [sock EXCEPT ![c] = "queued"]
        /\ UNCHANGED <<workerVars, alive>>
        /\ sock \in [Clients -> {"none", "queued", "open", "released"}]
    BY <2>1 DEF Connect, workerVars, LBInv, HandoffInv, HandoffType
  <2>3. outcomeBar[c] = <<"none">> BY <2>2, OutcomeIs DEF outcomeBar
  <2>4. Outcome(c)' = <<"waiting">> BY <2>2, OutcomeIsNext
  <2>5. \A d \in Clients : d # c => Outcome(d)' = Outcome(d)
    BY <1>1, <2>2, SameHearing, OutcomeStays
  <2>6. outcomeBar' = [outcomeBar EXCEPT ![c] = <<"waiting">>]
    BY <2>4, <2>5 DEF outcomeBar
  <2>7. goneBar' = goneBar BY <2>2 DEF goneBar
  <2> QED BY <2>3, <2>6, <2>7 DEF Abstract!Arrive
<1>3. CASE (\E c \in Clients : ClientSend(c)) \/ \E b \in Backends : WorkerTake(b)
  <2>1. UNCHANGED <<sock, alive>>
    BY <1>3 DEF ClientSend, WorkerTake, workerVars
  <2>2. \A b \in Backends, c \in Clients : Passed(b, c)' <=> Passed(b, c)
    BY <1>3, TakeMail, SameHearing DEF ClientSend, LBInv, HandoffInv
  <2>3. \A c \in Clients : Outcome(c)' = Outcome(c)
    BY <1>1, <2>1, <2>2, OutcomeStays
  <2> QED BY <2>1, <2>3 DEF outcomeBar, goneBar
<1>4. CASE \E b \in Backends : WorkerDie(b) BY <1>4, ExitMaps
<1> QED BY <1>2, <1>3, <1>4 DEF Surroundings

\* Every connection gets one outcome, once, whatever is retried and whichever
\* worker exits when: the spot answer, one worker, or none because a worker
\* has gone.  (That it gets one in the end is for TLC.)
THEOREM LBImplements ==
  ASSUME NoOtherReadyRoute
  PROVE  Spec => Abstract!Safe
<1>1. ASSUME Init PROVE Abstract!Init
  <2>1. LBInv BY <1>1, InitInv
  <2>2. \A c \in Clients : Outcome(c) = <<"none">>
    BY <1>1, <2>1, OutcomeIs DEF Init, HandoffInit
  <2>3. goneBar = {} BY <1>1 DEF Init, HandoffInit, goneBar
  <2> QED BY <2>2, <2>3 DEF Abstract!Init, outcomeBar
<1>2. ASSUME LBInv, LBInv', [Next]_vars
      PROVE  [Abstract!Next]_(Abstract!vars)
  <2>1. CASE Accept \/ EndBatch \/ Poll \/ ChooseBackend \/ DrainPrefix
               \/ SendFdFails \/ Close
    BY <1>2, <2>1, QuietMaps DEF Abstract!vars
  <2>2. CASE ServeReady
    BY <1>2, <2>2, ServeMaps DEF Abstract!Next, Abstract!Settle
  <2>3. CASE SendFd
    <3>1. \E c \in Clients, b \in Backends : Abstract!Give(c, b)
      BY <1>2, <2>3, PassMaps DEF SendFd, AfterSend
    <3> QED BY <3>1 DEF Abstract!Next, Abstract!Settle
  <2>4. CASE SendFdBlocking /\ alive[target]
    <3>1. \E c \in Clients, b \in Backends : Abstract!Give(c, b)
      BY <1>2, <2>4, PassMaps DEF SendFdBlocking
    <3> QED BY <3>1 DEF Abstract!Next, Abstract!Settle
  <2>5. CASE SendFdBlocking /\ ~alive[target]
    BY <1>2, <2>5, FailMaps DEF Abstract!Next, Abstract!Settle
  <2>6. CASE Surroundings /\ UNCHANGED lbVars
    BY <1>2, <2>6, SurroundingsMap DEF Abstract!Next, Abstract!vars
  <2>7. CASE UNCHANGED vars
    <3>1. UNCHANGED <<sock, workerVars, alive, pc, served>>
      BY <2>7 DEF vars, handoffVars, lbVars, workerVars
    <3>2. \A c \in Clients : Outcome(c)' = Outcome(c)
      BY <1>2, <3>1, SameHearing, OutcomeStays
    <3> QED BY <3>1, <3>2 DEF outcomeBar, goneBar, Abstract!vars
  <2> QED BY <1>2, <2>1, <2>2, <2>3, <2>4, <2>5, <2>6, <2>7 DEF Next, LBStep
<1>3. Abstract!Init /\ [][Abstract!Next]_(Abstract!vars) => Abstract!Safe
  BY DEF Abstract!Safe
<1> QED BY <1>1, <1>2, <1>3, LBInvariant, PTL DEF Spec

=============================================================================
