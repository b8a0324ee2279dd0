---------------------------- MODULE HandoffProofs ----------------------------
(***************************************************************************)
(* What clients and workers can do to the sockets and messages that a load *)
(* balancer handles, and what passing one socket changes.  Both load       *)
(* balancers' proofs rest on these lemmas.                                 *)
(***************************************************************************)
EXTENDS Handoff, FiniteSetTheorems, SequenceTheorems, TLAPS

Message == [client : Clients, prefix : Seq(Chunks)]

HandoffType ==
  /\ sock \in [Clients -> {"none", "queued", "open", "released"}]
  /\ sent \in [Clients -> Nat]
  /\ \A c \in Clients : sent[c] <= Len(Request[c])
  /\ rx \in [Clients -> Seq(Chunks)]
  /\ chan \in [Backends -> Seq(Message)]
  /\ taken \in [Backends -> Seq(Message)]
  /\ alive \in [Backends -> BOOLEAN]

\* No two messages, wherever they are, are about the same client.
OneDelivery ==
  \A c \in Clients, a, b \in Backends :
    \A x \in Deliveries(a, c), y \in Deliveries(b, c) : a = b /\ x = y

\* No worker has heard of a client.
Unheard(c) == \A b \in Backends : Deliveries(b, c) = {}

\* Nobody has touched a connection that is still in the accept queue.
QueueUntouched ==
  \A c \in Clients :
    /\ sock[c] \in {"none", "queued"} => Unheard(c)
    /\ sock[c] = "queued" => rx[c] = Arrived(c)

HandoffInv ==
  /\ HandoffType /\ OneDelivery /\ BytesConserved /\ QueueUntouched

-----------------------------------------------------------------------------
\* Facts about sequences.
LEMMA AppendAfter ==
  ASSUME NEW S, NEW p \in Seq(S), NEW r \in Seq(S), NEW x \in S
  PROVE  p \o Append(r, x) = Append(p \o r, x)
<1>1. <<x>> \in Seq(S) OBVIOUS
<1>2. p \o r \in Seq(S) BY ConcatProperties
<1>3. Append(r, x) = r \o <<x>> BY AppendIsConcat
<1>4. Append(p \o r, x) = (p \o r) \o <<x>> BY <1>2, AppendIsConcat
<1>5. (p \o r) \o <<x>> = p \o (r \o <<x>>) BY <1>1, ConcatAssociative
<1> QED BY <1>3, <1>4, <1>5

LEMMA OneMoreOf ==
  ASSUME NEW S, NEW q \in Seq(S), NEW n \in Nat, n < Len(q)
  PROVE  /\ q[n + 1] \in S /\ SubSeq(q, 1, n) \in Seq(S)
         /\ SubSeq(q, 1, n + 1) = Append(SubSeq(q, 1, n), q[n + 1])
<1>1. Len(q) \in Nat BY LenProperties
<1>2. n + 1 \in 1 .. Len(q) /\ 1 \in 1 .. Len(q) /\ n + 1 \in 1 .. Len(q)
  BY <1>1
<1>3. q[n + 1] \in S BY <1>2, ElementOfSeq
<1>4. SubSeq(q, 1, n) \in Seq(S)
  <2>1. \A i \in 1 .. n : q[i] \in S BY <1>1, ElementOfSeq
  <2> QED BY <2>1, SubSeqProperties
<1>5. SubSeq(q, 1, n + 1) = SubSeq(q, 1, n + 1 - 1) \o <<q[n + 1]>>
  BY <1>2, SubSeqRecursiveSecond
<1>6. n + 1 - 1 = n OBVIOUS
<1> QED BY <1>3, <1>4, <1>5, <1>6, AppendIsConcat

LEMMA Prefix ==
  ASSUME NEW S, NEW q \in Seq(S), NEW n \in 0 .. Len(q)
  PROVE  SubSeq(q, 1, n) \in Seq(S) /\ Len(SubSeq(q, 1, n)) = n
<1>1. Len(q) \in Nat BY LenProperties
<1>2. \A i \in 1 .. n : q[i] \in S BY <1>1, ElementOfSeq
<1> QED BY <1>1, <1>2, SubSeqProperties

\* What is taken from the front and what is left are the whole.
LEMMA CutInTwo ==
  ASSUME NEW S, NEW q \in Seq(S), NEW n \in 0 .. Len(q)
  PROVE  /\ SubSeq(q, n + 1, Len(q)) \in Seq(S)
         /\ SubSeq(q, 1, n) \o SubSeq(q, n + 1, Len(q)) = q
<1>1. Len(q) \in Nat BY LenProperties
<1>2. \A i \in n + 1 .. Len(q) : q[i] \in S BY <1>1, ElementOfSeq
<1>3. SubSeq(q, n + 1, Len(q)) \in Seq(S) BY <1>1, <1>2, SubSeqProperties
<1>4. /\ 1 \in 1 .. Len(q) + 1 /\ n \in 1 - 1 .. Len(q)
      /\ Len(q) \in n .. Len(q)
  BY <1>1
<1>5. SubSeq(q, 1, n) \o SubSeq(q, n + 1, Len(q)) = SubSeq(q, 1, Len(q))
  BY <1>4, ConcatAdjacentSubSeq
<1> QED BY <1>3, <1>5, SubSeqFull

-----------------------------------------------------------------------------
\* Facts about deliveries.
LEMMA DeliveryIs ==
  ASSUME NEW b \in Backends, NEW c \in Clients, NEW x
  PROVE  x \in Deliveries(b, c) <=>
           \/ \E i \in 1 .. Len(chan[b]) :
                x = <<"sent", i>> /\ chan[b][i].client = c
           \/ \E i \in 1 .. Len(taken[b]) :
                x = <<"taken", i>> /\ taken[b][i].client = c
BY DEF Deliveries

LEMMA MessageIs ==
  ASSUME NEW b \in Backends, NEW m
  PROVE  m \in Messages(b) <=>
           \/ \E i \in 1 .. Len(chan[b]) : m = chan[b][i]
           \/ \E i \in 1 .. Len(taken[b]) : m = taken[b][i]
BY DEF Messages

\* Messages are messages; a client with one has a delivery.
LEMMA MessageHeard ==
  ASSUME HandoffType, NEW b \in Backends, NEW m \in Messages(b)
  PROVE  /\ m \in Message /\ m.client \in Clients /\ m.prefix \in Seq(Chunks)
         /\ Deliveries(b, m.client) # {}
<1>1. /\ chan[b] \in Seq(Message) /\ taken[b] \in Seq(Message)
      BY DEF HandoffType
<1>2. CASE \E i \in 1 .. Len(chan[b]) : m = chan[b][i]
  <2>1. PICK i \in 1 .. Len(chan[b]) : m = chan[b][i] BY <1>2
  <2>2. m \in Message BY <1>1, <2>1, ElementOfSeq
  <2>3. m.client \in Clients /\ m.prefix \in Seq(Chunks) BY <2>2 DEF Message
  <2>4. <<"sent", i>> \in Deliveries(b, m.client)
    BY <2>1, <2>3, DeliveryIs
  <2> QED BY <2>2, <2>3, <2>4
<1>3. CASE \E i \in 1 .. Len(taken[b]) : m = taken[b][i]
  <2>1. PICK i \in 1 .. Len(taken[b]) : m = taken[b][i] BY <1>3
  <2>2. m \in Message BY <1>1, <2>1, ElementOfSeq
  <2>3. m.client \in Clients /\ m.prefix \in Seq(Chunks) BY <2>2 DEF Message
  <2>4. <<"taken", i>> \in Deliveries(b, m.client)
    BY <2>1, <2>3, DeliveryIs
  <2> QED BY <2>2, <2>3, <2>4
<1> QED BY <1>2, <1>3, MessageIs

\* A client with a delivery has one message, and one worker holds it.
LEMMA HolderIs ==
  ASSUME OneDelivery, NEW b \in Backends, NEW c \in Clients, Passed(b, c)
  PROVE  /\ Holder(c) = <<"with", b>>
         /\ \A a \in Backends : Passed(a, c) <=> a = b
<1>1. PICK x : x \in Deliveries(b, c) BY DEF Passed
<1>2. \A a \in Backends : Passed(a, c) <=> a = b
  BY <1>1 DEF OneDelivery, Passed
<1>3. Deliveries(b, c) = {x} BY <1>1 DEF OneDelivery
<1>4. Cardinality(Deliveries(b, c)) = 1 BY <1>3, FS_Singleton
<1>5. {a \in Backends : Passed(a, c)} = {b} BY <1>2
<1>6. (CHOOSE a \in {b} : TRUE) = b OBVIOUS
<1> QED BY <1>2, <1>4, <1>5, <1>6 DEF Holder

LEMMA HolderIsNext ==
  ASSUME OneDelivery', NEW b \in Backends, NEW c \in Clients, Passed(b, c)'
  PROVE  /\ Holder(c)' = <<"with", b>>
         /\ \A a \in Backends : Passed(a, c)' <=> a = b
<1>1. PICK x : x \in Deliveries(b, c)' BY DEF Passed
<1>2. \A a \in Backends : Passed(a, c)' <=> a = b
  BY <1>1 DEF OneDelivery, Passed
<1>3. Deliveries(b, c)' = {x} BY <1>1 DEF OneDelivery
<1>4. Cardinality(Deliveries(b, c)') = 1 BY <1>3, FS_Singleton
<1>5. {a \in Backends : Passed(a, c)'} = {b} BY <1>2
<1>6. (CHOOSE a \in {b} : TRUE) = b OBVIOUS
<1> QED BY <1>2, <1>4, <1>5, <1>6 DEF Holder

LEMMA SameMail ==
  ASSUME NEW b \in Backends, chan'[b] = chan[b], taken'[b] = taken[b]
  PROVE  /\ Messages(b)' = Messages(b)
         /\ \A c \in Clients : Deliveries(b, c)' = Deliveries(b, c)
BY DEF Messages, Deliveries
\* A step that changes no message leaves what the workers know.
LEMMA SameHearing ==
  ASSUME UNCHANGED workerVars
  PROVE  /\ \A c \in Clients : Unheard(c)' <=> Unheard(c)
         /\ \A b \in Backends, c \in Clients : Passed(b, c)' <=> Passed(b, c)
<1>1. \A b \in Backends, c \in Clients : Deliveries(b, c)' = Deliveries(b, c)
  BY SameMail DEF workerVars
<1> QED BY <1>1 DEF Unheard, Passed

-----------------------------------------------------------------------------
\* What the surroundings do to messages.

\* A worker that takes a message moves it; nothing is lost and no client's
\* messages become more.
LEMMA TakeMail ==
  ASSUME HandoffType, NEW b \in Backends, WorkerTake(b)
  PROVE  /\ \A a \in Backends : Messages(a)' = Messages(a)
         /\ \A a \in Backends, c \in Clients : Passed(a, c)' <=> Passed(a, c)
         /\ OneDelivery => OneDelivery'
         /\ chan' \in [Backends -> Seq(Message)]
         /\ taken' \in [Backends -> Seq(Message)]
<1>1. PICK q \in Seq(Message), t \in Seq(Message) :
        q = chan[b] /\ t = taken[b] /\ q # <<>>
  BY DEF HandoffType, WorkerTake
<1>2. /\ Tail(q) \in Seq(Message) /\ Head(q) \in Message /\ Head(q) = q[1]
      /\ \A i \in 1 .. Len(Tail(q)) : Tail(q)[i] = q[i + 1]
  BY <1>1, HeadTailProperties
<1>3. PICK n, m \in Nat : n = Len(Tail(q)) /\ m = Len(t) /\ Len(q) = n + 1
  <2>1. Len(q) \in Nat /\ Len(Tail(q)) \in Nat /\ Len(t) \in Nat
        /\ Len(Tail(q)) = Len(q) - 1
    BY <1>1, <1>2, HeadTailProperties, LenProperties
  <2>2. \A i, j \in Nat : j = i - 1 => i = j + 1 OBVIOUS
  <2>3. Len(q) = Len(Tail(q)) + 1 BY ONLY <2>1, <2>2
  <2> QED BY <2>1, <2>3
<1>4. /\ Append(t, q[1]) \in Seq(Message) /\ Len(Append(t, q[1])) = m + 1
      /\ \A i \in 1 .. m : Append(t, q[1])[i] = t[i]
      /\ Append(t, q[1])[m + 1] = q[1]
  BY <1>2, <1>3, AppendProperties
<1>5. /\ chan'[b] = Tail(q) /\ taken'[b] = Append(t, q[1])
      /\ \A a \in Backends : a # b => chan'[a] = chan[a] /\ taken'[a] = taken[a]
      /\ chan' \in [Backends -> Seq(Message)]
      /\ taken' \in [Backends -> Seq(Message)]
  BY <1>1, <1>2, <1>4 DEF HandoffType, WorkerTake
<1> DEFINE q1 == chan'[b]
           t1 == taken'[b]
<1>6. /\ Len(q1) = n /\ Len(t1) = m + 1 /\ Len(q) = n + 1 /\ Len(t) = m
      /\ \A i \in 1 .. n : q1[i] = q[i + 1]
      /\ \A i \in 1 .. m : t1[i] = t[i]
      /\ t1[m + 1] = q[1]
  BY <1>2, <1>3, <1>4, <1>5
<1>7. Messages(b)' = Messages(b)
  <2>1. Messages(b)' = {q1[i] : i \in 1 .. n} \cup {t1[i] : i \in 1 .. m + 1}
    BY <1>6 DEF Messages
  <2>2. Messages(b) = {q[i] : i \in 1 .. n + 1} \cup {t[i] : i \in 1 .. m}
    BY <1>1, <1>6 DEF Messages
  <2>3. ASSUME NEW x \in Messages(b)' PROVE x \in Messages(b)
    <3>1. CASE \E i \in 1 .. n : x = q1[i]
      <4>1. PICK i \in 1 .. n : x = q1[i] BY <3>1
      <4>2. i + 1 \in 1 .. n + 1 /\ x = q[i + 1] BY <1>6, <4>1
      <4> HIDE DEF q1, t1
      <4> QED BY <2>2, <4>2
    <3>2. CASE \E i \in 1 .. m + 1 : x = t1[i]
      <4>1. PICK i \in 1 .. m + 1 : x = t1[i] BY <3>2
      <4>2. 1 \in 1 .. n + 1 /\ (i \in 1 .. m \/ i = m + 1) OBVIOUS
      <4> HIDE DEF q1, t1
      <4> QED BY <1>6, <2>2, <4>1, <4>2
    <3> HIDE DEF q1, t1
    <3> QED BY <2>1, <2>3, <3>1, <3>2
  <2>4. ASSUME NEW x \in Messages(b) PROVE x \in Messages(b)'
    <3> HIDE DEF q1, t1
    <3>1. CASE \E i \in 1 .. n + 1 : x = q[i]
      <4>1. PICK i \in 1 .. n + 1 : x = q[i] BY <3>1
      <4>2. CASE i = 1
        <5>1. m + 1 \in 1 .. m + 1 /\ x = t1[m + 1] BY <1>6, <4>1, <4>2
        <5> QED BY <2>1, <5>1
      <4>3. CASE i # 1
        <5>1. i - 1 \in 1 .. n /\ i - 1 + 1 = i BY <4>1, <4>3
        <5>2. x = q1[i - 1] BY <1>6, <4>1, <5>1
        <5> QED BY <2>1, <5>1, <5>2
      <4> QED BY <4>2, <4>3
    <3>2. CASE \E i \in 1 .. m : x = t[i]
      <4>1. PICK i \in 1 .. m : x = t[i] BY <3>2
      <4>2. i \in 1 .. m + 1 /\ x = t1[i] BY <1>6, <4>1
      <4> QED BY <2>1, <4>2
    <3> QED BY <2>2, <2>4, <3>1, <3>2
  <2> QED BY <2>3, <2>4
<1> DEFINE Was(x) == IF x[1] = "sent" THEN <<"sent", x[2] + 1>>
                     ELSE IF x[2] = m + 1 THEN <<"sent", 1>> ELSE x
<1>8. ASSUME NEW c \in Clients, NEW x \in Deliveries(b, c)'
      PROVE  /\ Was(x) \in Deliveries(b, c)
             /\ \/ \E i \in Nat : x = <<"sent", i>> /\ i >= 1
                \/ \E i \in Nat : x = <<"taken", i>>
  <2>1. \/ \E i \in 1 .. n : x = <<"sent", i>> /\ q1[i].client = c
        \/ \E i \in 1 .. m + 1 : x = <<"taken", i>> /\ t1[i].client = c
    <3> HIDE DEF Was
    <3> QED BY <1>6, <1>8 DEF Deliveries
  <2> HIDE DEF q1, t1
  <2>2. CASE \E i \in 1 .. n : x = <<"sent", i>> /\ q1[i].client = c
    <3>1. PICK i \in 1 .. n : x = <<"sent", i>> /\ q1[i].client = c BY <2>2
    <3>2. i + 1 \in 1 .. Len(chan[b]) /\ chan[b][i + 1].client = c
      BY <1>1, <1>6, <3>1
    <3>3. <<"sent", i + 1>> \in Deliveries(b, c) BY <3>2, DeliveryIs
    <3> QED BY <3>1, <3>3
  <2>3. CASE \E i \in 1 .. m + 1 : x = <<"taken", i>> /\ t1[i].client = c
    <3>1. PICK i \in 1 .. m + 1 : x = <<"taken", i>> /\ t1[i].client = c
      BY <2>3
    <3>2. CASE i = m + 1
      <4>1. 1 \in 1 .. Len(chan[b]) /\ chan[b][1].client = c
        BY <1>1, <1>6, <3>1, <3>2
      <4>2. <<"sent", 1>> \in Deliveries(b, c) BY <4>1, DeliveryIs
      <4> QED BY <3>1, <3>2, <4>2
    <3>3. CASE i # m + 1
      <4>1. i \in 1 .. Len(taken[b]) /\ taken[b][i].client = c
        BY <1>1, <1>6, <3>1, <3>3
      <4>2. x \in Deliveries(b, c) BY <3>1, <4>1, DeliveryIs
      <4> QED BY <3>1, <3>3, <4>2
    <3> QED BY <3>2, <3>3
  <2> QED BY <2>1, <2>2, <2>3
<1>9. ASSUME NEW c \in Clients, Passed(b, c) PROVE Passed(b, c)'
  <2>1. PICK x : x \in Deliveries(b, c) BY <1>9 DEF Passed
  <2>2. CASE \E i \in 1 .. n + 1 : x = <<"sent", i>> /\ q[i].client = c
    <3>1. PICK i \in 1 .. n + 1 : q[i].client = c BY <2>2
    <3>2. CASE i = 1
      <4>1. m + 1 \in 1 .. Len(t1) /\ t1[m + 1].client = c BY <1>6, <3>1, <3>2
      <4> QED BY <4>1 DEF Deliveries, Passed
    <3>3. CASE i # 1
      <4>1. i - 1 \in 1 .. n /\ i - 1 + 1 = i BY <3>1, <3>3
      <4>2. i - 1 \in 1 .. Len(q1) /\ q1[i - 1].client = c
        BY <1>6, <3>1, <4>1
      <4> QED BY <4>2 DEF Deliveries, Passed
    <3> QED BY <3>2, <3>3
  <2>3. CASE \E i \in 1 .. m : x = <<"taken", i>> /\ t[i].client = c
    <3>1. PICK i \in 1 .. m : t[i].client = c BY <2>3
    <3>2. i \in 1 .. Len(t1) /\ t1[i].client = c BY <1>6, <3>1
    <3> QED BY <3>2 DEF Deliveries, Passed
  <2> QED BY <1>1, <1>6, <2>1, <2>2, <2>3, DeliveryIs
<1>10. \A a \in Backends : a # b =>
         /\ Messages(a)' = Messages(a)
         /\ \A c \in Clients : Deliveries(a, c)' = Deliveries(a, c)
  BY <1>5, SameMail
<1>11. \A a \in Backends, c \in Clients : Passed(a, c)' <=> Passed(a, c)
  <2> HIDE DEF Was
  <2> QED BY <1>8, <1>9, <1>10 DEF Passed
<1>12. ASSUME OneDelivery PROVE OneDelivery'
  <2>1. SUFFICES ASSUME NEW c \in Clients, NEW a \in Backends,
                        NEW e \in Backends,
                        NEW x \in Deliveries(a, c)', NEW y \in Deliveries(e, c)'
                 PROVE  a = e /\ x = y
    BY DEF OneDelivery
  <2>2. Passed(a, c) /\ Passed(e, c) BY <1>11, <2>1 DEF Passed
  <2>3. a = e BY <1>12, <2>2, HolderIs
  <2>4. CASE a # b BY <1>10, <1>12, <2>1, <2>3, <2>4 DEF OneDelivery
  <2>5. CASE a = b
    <3>1. Was(x) \in Deliveries(b, c) /\ Was(y) \in Deliveries(b, c)
      <4> HIDE DEF Was
      <4> QED BY <1>8, <2>1, <2>3, <2>5
    <3>2. Was(x) = Was(y)
      <4> HIDE DEF Was
      <4> QED BY <1>12, <3>1 DEF OneDelivery
    <3>3. /\ \/ \E i \in Nat : x = <<"sent", i>> /\ i >= 1
             \/ \E i \in Nat : x = <<"taken", i>>
          /\ \/ \E i \in Nat : y = <<"sent", i>> /\ i >= 1
             \/ \E i \in Nat : y = <<"taken", i>>
      <4> HIDE DEF Was
      <4> QED BY <1>8, <2>1, <2>3, <2>5
    <3>4. x = y BY ONLY <3>2, <3>3, m \in Nat
    <3> QED BY <2>3, <3>4
  <2> QED BY <2>4, <2>5
<1> QED BY <1>5, <1>7, <1>10, <1>11, <1>12
\* A worker that exits loses what it was sent, and nobody else's.
LEMMA DieMail ==
  ASSUME HandoffType, NEW b \in Backends, WorkerDie(b)
  PROVE  /\ \A a \in Backends : Messages(a)' \subseteq Messages(a)
         /\ \A a \in Backends, c \in Clients :
              Deliveries(a, c)' = IF a = b THEN {} ELSE Deliveries(a, c)
         /\ OneDelivery => OneDelivery'
         /\ chan' \in [Backends -> Seq(Message)]
         /\ taken' \in [Backends -> Seq(Message)]
<1>1. <<>> \in Seq(Message) /\ Len(<<>>) = 0 BY EmptySeq
<1>2. /\ chan'[b] = <<>> /\ taken'[b] = <<>>
      /\ \A a \in Backends : a # b => chan'[a] = chan[a] /\ taken'[a] = taken[a]
      /\ chan' \in [Backends -> Seq(Message)]
      /\ taken' \in [Backends -> Seq(Message)]
  BY <1>1 DEF WorkerDie, HandoffType
<1>3. 1 .. Len(chan'[b]) = {} /\ 1 .. Len(taken'[b]) = {} BY <1>1, <1>2
<1>4. Messages(b)' = {} /\ \A c \in Clients : Deliveries(b, c)' = {}
  BY <1>3 DEF Messages, Deliveries
<1>5. \A a \in Backends : a # b =>
        /\ Messages(a)' = Messages(a)
        /\ \A c \in Clients : Deliveries(a, c)' = Deliveries(a, c)
  BY <1>2, SameMail
<1>6. \A a \in Backends, c \in Clients :
        Deliveries(a, c)' = IF a = b THEN {} ELSE Deliveries(a, c)
  BY <1>4, <1>5
<1>7. \A a \in Backends, c \in Clients :
        Deliveries(a, c)' \subseteq Deliveries(a, c)
  BY <1>6
<1>8. OneDelivery => OneDelivery' BY <1>7 DEF OneDelivery
<1> QED BY <1>2, <1>4, <1>5, <1>6, <1>8

\* A client's bytes go through its socket in order: what p has of them and
\* what is left in the socket stay the whole.
LEMMA BytesStay ==
  ASSUME HandoffType, Surroundings, NEW c \in Clients, NEW p \in Seq(Chunks),
         sock[c] # "none", p \o rx[c] = Arrived(c)
  PROVE  p \o rx'[c] = Arrived(c)'
<1>1. CASE \E d \in Clients : ClientSend(d)
  <2>1. PICK d \in Clients : ClientSend(d) BY <1>1
  <2>2. CASE d # c
    BY <2>1, <2>2 DEF ClientSend, HandoffType, Arrived
  <2>3. CASE d = c
    <3>1. PICK q \in Seq(Chunks), r \in Seq(Chunks), n \in Nat :
            q = Request[c] /\ r = rx[c] /\ n = sent[c]
      BY HandoffConstants DEF HandoffType
    <3>2. n < Len(q) /\ rx'[c] = Append(r, q[n + 1]) /\ sent'[c] = n + 1
      BY <2>1, <2>3, <3>1 DEF ClientSend, HandoffType
    <3>3. q[n + 1] \in Chunks
          /\ SubSeq(q, 1, n + 1) = Append(SubSeq(q, 1, n), q[n + 1])
      BY <3>2, OneMoreOf
    <3>4. p \o Append(r, q[n + 1]) = Append(p \o r, q[n + 1])
      BY <3>3, AppendAfter
    <3>5. p \o r = SubSeq(q, 1, n) BY <3>1 DEF Arrived
    <3>6. Arrived(c)' = SubSeq(q, 1, n + 1) BY <3>1, <3>2 DEF Arrived
    <3> QED BY <3>2, <3>3, <3>4, <3>5, <3>6
  <2> QED BY <2>2, <2>3
<1>2. CASE \E d \in Clients : Connect(d)
  BY <1>2 DEF Connect, HandoffType, Arrived
<1>3. CASE \E b \in Backends : WorkerTake(b) \/ WorkerDie(b)
  BY <1>3 DEF WorkerTake, WorkerDie, Arrived
<1> QED BY <1>1, <1>2, <1>3 DEF Surroundings

\* What the surroundings leave of a connection, and of who has heard of it.
LEMMA SurroundingsKeep ==
  ASSUME HandoffType, OneDelivery, Surroundings
  PROVE  /\ HandoffType' /\ OneDelivery'
         /\ \A c \in Clients :
              \/ sock'[c] = sock[c]
              \/ sock[c] = "none" /\ sock'[c] = "queued" /\ rx'[c] = Arrived(c)'
         /\ \A b \in Backends, c \in Clients :
              Passed(b, c)' <=> Passed(b, c) /\ (alive[b] => alive'[b])
         /\ \A b \in Backends : Messages(b)' \subseteq Messages(b)
         /\ \A b \in Backends : alive'[b] => alive[b]
<1>1. CASE \E c \in Clients : Connect(c)
  <2>1. PICK c \in Clients : Connect(c) BY <1>1
  <2>2. PICK q \in Seq(Chunks), n \in MinArrived .. Len(Request[c]) :
          /\ q = Request[c]
          /\ sent' = [sent EXCEPT ![c] = n]
          /\ rx' = [rx EXCEPT ![c] = SubSeq(Request[c], 1, n)]
    BY <2>1, HandoffConstants DEF Connect
  <2>3. Len(q) \in Nat /\ n \in Nat /\ n \in 0 .. Len(q)
    BY <2>2, LenProperties, HandoffConstants
  <2>4. SubSeq(q, 1, n) \in Seq(Chunks) BY <2>3, Prefix
  <2>5. HandoffType' BY <2>1, <2>2, <2>3, <2>4 DEF HandoffType, Connect, workerVars
  <2>6. rx'[c] = Arrived(c)' BY <2>2 DEF Arrived, HandoffType
  <2>7. \A b \in Backends :
          /\ Messages(b)' = Messages(b)
          /\ \A d \in Clients : Deliveries(b, d)' = Deliveries(b, d)
    BY <2>1, SameMail DEF Connect, workerVars
  <2>8. OneDelivery' BY <2>7 DEF OneDelivery
  <2> QED BY <2>1, <2>5, <2>6, <2>7, <2>8
          DEF Connect, workerVars, HandoffType, Passed
<1>2. CASE \E c \in Clients : ClientSend(c)
  <2>1. PICK c \in Clients : ClientSend(c) BY <1>2
  <2>2. PICK q \in Seq(Chunks), n \in Nat : q = Request[c] /\ n = sent[c]
    BY HandoffConstants DEF HandoffType
  <2>3. n < Len(q) /\ Len(q) \in Nat BY <2>1, <2>2, LenProperties DEF ClientSend
  <2>4. q[n + 1] \in Chunks BY <2>3, OneMoreOf
  <2>5. Append(rx[c], q[n + 1]) \in Seq(Chunks)
    BY <2>4, AppendProperties DEF HandoffType
  <2>6. n + 1 \in Nat /\ n + 1 <= Len(q) BY <2>3
  <2>7. HandoffType' BY <2>1, <2>2, <2>5, <2>6
                     DEF HandoffType, ClientSend, workerVars
  <2>8. \A b \in Backends :
          /\ Messages(b)' = Messages(b)
          /\ \A d \in Clients : Deliveries(b, d)' = Deliveries(b, d)
    BY <2>1, SameMail DEF ClientSend, workerVars
  <2>9. OneDelivery' BY <2>8 DEF OneDelivery
  <2> QED BY <2>1, <2>7, <2>8, <2>9 DEF ClientSend, workerVars, Passed
<1>3. CASE \E b \in Backends : WorkerTake(b)
  <2>1. PICK b \in Backends : WorkerTake(b) BY <1>3
  <2>2. /\ \A a \in Backends : Messages(a)' = Messages(a)
        /\ \A a \in Backends, c \in Clients : Passed(a, c)' <=> Passed(a, c)
        /\ OneDelivery'
        /\ chan' \in [Backends -> Seq(Message)]
        /\ taken' \in [Backends -> Seq(Message)]
    BY <2>1, TakeMail
  <2>3. UNCHANGED <<sock, sent, rx, alive>> BY <2>1 DEF WorkerTake
  <2> QED BY <2>2, <2>3 DEF HandoffType
<1>4. CASE \E b \in Backends : WorkerDie(b)
  <2>1. PICK b \in Backends : WorkerDie(b) BY <1>4
  <2>2. /\ \A a \in Backends : Messages(a)' \subseteq Messages(a)
        /\ \A a \in Backends, c \in Clients :
             Deliveries(a, c)' = IF a = b THEN {} ELSE Deliveries(a, c)
        /\ OneDelivery'
        /\ chan' \in [Backends -> Seq(Message)]
        /\ taken' \in [Backends -> Seq(Message)]
    BY <2>1, DieMail
  <2>3. /\ UNCHANGED <<sock, sent, rx>> /\ alive[b] /\ ~alive'[b]
        /\ alive' \in [Backends -> BOOLEAN]
        /\ \A a \in Backends : a # b => alive'[a] = alive[a]
    BY <2>1 DEF WorkerDie, HandoffType
  <2>4. HandoffType' BY <2>2, <2>3 DEF HandoffType
  <2>5. \A a \in Backends, c \in Clients :
          Passed(a, c)' <=> Passed(a, c) /\ (alive[a] => alive'[a])
    BY <2>2, <2>3 DEF Passed, HandoffType
  <2> QED BY <2>2, <2>3, <2>4, <2>5
<1> QED BY <1>1, <1>2, <1>3, <1>4 DEF Surroundings

\* Clients and workers cannot break what the load balancer relies on.
LEMMA SurroundingsInv ==
  ASSUME HandoffInv, Surroundings
  PROVE  HandoffInv'
<1>1. HandoffType' /\ OneDelivery' BY SurroundingsKeep DEF HandoffInv
<1>2. BytesConserved'
  <2>1. SUFFICES ASSUME NEW b \in Backends, NEW m \in Messages(b)
                 PROVE  m.prefix \o rx'[m.client] = Arrived(m.client)'
    BY SurroundingsKeep DEF HandoffInv, BytesConserved
  <2>2. PICK c \in Clients, p \in Seq(Chunks) :
          c = m.client /\ p = m.prefix /\ Deliveries(b, c) # {}
    BY MessageHeard DEF HandoffInv
  <2>3. sock[c] # "none" BY <2>2 DEF HandoffInv, QueueUntouched, Unheard
  <2>4. p \o rx[c] = Arrived(c) BY <2>2 DEF HandoffInv, BytesConserved
  <2>5. p \o rx'[c] = Arrived(c)' BY <2>3, <2>4, BytesStay DEF HandoffInv
  <2> QED BY <2>2, <2>5
<1>3. QueueUntouched'
  <2>1. SUFFICES ASSUME NEW c \in Clients
                 PROVE  /\ sock'[c] \in {"none", "queued"} => Unheard(c)'
                        /\ sock'[c] = "queued" => rx'[c] = Arrived(c)'
    BY DEF QueueUntouched
  <2>2. ASSUME sock'[c] \in {"none", "queued"} PROVE Unheard(c)'
    <3>1. sock[c] \in {"none", "queued"}
      BY <2>2, SurroundingsKeep DEF HandoffInv
    <3>2. \A b \in Backends : ~Passed(b, c)
      BY <3>1 DEF HandoffInv, QueueUntouched, Unheard, Passed
    <3>3. \A b \in Backends : ~Passed(b, c)'
      BY <3>2, SurroundingsKeep DEF HandoffInv
    <3> QED BY <3>3 DEF Unheard, Passed
  <2>3. ASSUME sock'[c] = "queued", sock[c] = "queued"
        PROVE  rx'[c] = Arrived(c)'
    <3>1. <<>> \in Seq(Chunks) /\ rx[c] \in Seq(Chunks) /\ rx'[c] \in Seq(Chunks)
      BY <1>1, EmptySeq DEF HandoffInv, HandoffType
    <3>2. <<>> \o rx[c] = rx[c] /\ <<>> \o rx'[c] = rx'[c]
      BY <3>1, ConcatEmptySeq
    <3>3. <<>> \o rx[c] = Arrived(c)
      BY <2>3, <3>2 DEF HandoffInv, QueueUntouched
    <3>4. <<>> \o rx'[c] = Arrived(c)'
      BY <2>3, <3>1, <3>3, BytesStay DEF HandoffInv
    <3> QED BY <3>2, <3>4
  <2> QED BY <2>2, <2>3, SurroundingsKeep DEF HandoffInv
<1> QED BY <1>1, <1>2, <1>3 DEF HandoffInv
-----------------------------------------------------------------------------
\* What a load balancer does to a connection.

\* Accepting a connection, closing one or leaving all alone disturbs no message.
LEMMA SockInv ==
  ASSUME HandoffInv, UNCHANGED <<sent, rx, workerVars>>,
         sock' \in [Clients -> {"none", "queued", "open", "released"}],
         \A c \in Clients :
           sock'[c] \in {"none", "queued"} => sock'[c] = sock[c]
  PROVE  HandoffInv'
<1>1. HandoffType' BY DEF HandoffInv, HandoffType, workerVars
<1>2. \A b \in Backends :
        /\ Messages(b)' = Messages(b)
        /\ \A c \in Clients : Deliveries(b, c)' = Deliveries(b, c)
  BY SameMail DEF workerVars
<1>3. OneDelivery' BY <1>2 DEF HandoffInv, OneDelivery
<1>4. BytesConserved'
  <2>1. SUFFICES ASSUME NEW b \in Backends, NEW m \in Messages(b)
                 PROVE  m.prefix \o rx'[m.client] = Arrived(m.client)'
    BY <1>2 DEF BytesConserved
  <2> QED BY DEF HandoffInv, BytesConserved, Arrived
<1>5. QueueUntouched'
  BY <1>2 DEF HandoffInv, QueueUntouched, Unheard, Arrived
<1> QED BY <1>1, <1>3, <1>4, <1>5 DEF HandoffInv

\* Reading from an accepted connection: what was read before, what is read now
\* and what is left stay the whole.
LEMMA ReadInv ==
  ASSUME HandoffInv, NEW c \in Clients, NEW n \in Nat, NEW p \in Seq(Chunks),
         Consume(c, n), UNCHANGED <<sock, sent, workerVars>>,
         sock[c] = "open", Unheard(c), p \o rx[c] = Arrived(c)
  PROVE  /\ HandoffInv' /\ Unheard(c)'
         /\ Taken(c, n) \in Seq(Chunks) /\ p \o Taken(c, n) \in Seq(Chunks)
         /\ (p \o Taken(c, n)) \o rx'[c] = Arrived(c)'
<1>1. PICK r \in Seq(Chunks) : r = rx[c] BY DEF HandoffInv, HandoffType
<1>2. PICK k \in 0 .. Len(r) : k = IF Len(r) <= n THEN Len(r) ELSE n
  BY <1>1, LenProperties
<1>3. Taken(c, n) = SubSeq(r, 1, k) BY <1>1, <1>2 DEF Taken
<1>4. SubSeq(r, 1, k) \in Seq(Chunks) /\ Len(SubSeq(r, 1, k)) = k
  BY <1>1, <1>2, Prefix
<1>5. /\ SubSeq(r, k + 1, Len(r)) \in Seq(Chunks)
      /\ SubSeq(r, 1, k) \o SubSeq(r, k + 1, Len(r)) = r
  BY <1>1, <1>2, CutInTwo
<1>6. /\ rx' = [rx EXCEPT ![c] = SubSeq(r, k + 1, Len(r))]
      /\ rx'[c] = SubSeq(r, k + 1, Len(r))
  BY <1>1, <1>3, <1>4 DEF Consume, HandoffInv, HandoffType
<1>7. HandoffType'
  BY <1>5, <1>6 DEF HandoffInv, HandoffType, workerVars
<1>8. \A b \in Backends :
        /\ Messages(b)' = Messages(b)
        /\ \A d \in Clients : Deliveries(b, d)' = Deliveries(b, d)
  BY SameMail DEF workerVars
<1>9. OneDelivery' BY <1>8 DEF HandoffInv, OneDelivery
<1>10. BytesConserved'
  <2>1. SUFFICES ASSUME NEW b \in Backends, NEW m \in Messages(b)
                 PROVE  m.prefix \o rx'[m.client] = Arrived(m.client)'
    BY <1>8 DEF BytesConserved
  <2>2. Deliveries(b, m.client) # {} /\ m.client \in Clients
    BY MessageHeard DEF HandoffInv
  <2>3. m.client # c BY <2>2 DEF Unheard
  <2>4. rx'[m.client] = rx[m.client]
    BY <1>6, <2>2, <2>3 DEF HandoffInv, HandoffType
  <2> QED BY <2>4 DEF HandoffInv, BytesConserved, Arrived
<1>11. QueueUntouched'
  <2>1. \A d \in Clients : sock[d] = "queued" => rx'[d] = rx[d]
    BY <1>6 DEF HandoffInv, HandoffType
  <2> QED BY <1>8, <2>1 DEF HandoffInv, QueueUntouched, Unheard, Arrived
<1>12. (p \o SubSeq(r, 1, k)) \o SubSeq(r, k + 1, Len(r)) = p \o r
  <2>1. PICK x \in Seq(Chunks), y \in Seq(Chunks) :
          x = SubSeq(r, 1, k) /\ y = SubSeq(r, k + 1, Len(r))
    BY <1>4, <1>5
  <2>2. (p \o x) \o y = p \o (x \o y) BY ConcatAssociative
  <2> QED BY <1>5, <2>1, <2>2
<1>13. p \o SubSeq(r, 1, k) \in Seq(Chunks) BY <1>4, ConcatProperties
<1>14. Arrived(c)' = Arrived(c) BY DEF Arrived
<1>15. Unheard(c)' BY <1>8 DEF Unheard
<1> QED BY <1>1, <1>3, <1>4, <1>6, <1>7, <1>9, <1>10, <1>11, <1>12, <1>13,
           <1>14, <1>15 DEF HandoffInv

\* Passing a socket that nobody has heard of, with all that was read from it.
LEMMA SendInv ==
  ASSUME HandoffInv, NEW b \in Backends, NEW c \in Clients,
         NEW p \in Seq(Chunks), Send(b, c, p),
         UNCHANGED <<sock, sent, rx, taken, alive>>,
         sock[c] = "open", Unheard(c), p \o rx[c] = Arrived(c)
  PROVE  /\ HandoffInv'
         /\ \A a \in Backends, d \in Clients :
              Passed(a, d)' <=> Passed(a, d) \/ (a = b /\ d = c)
<1>1. PICK q \in Seq(Message), msg \in Message :
        q = chan[b] /\ msg = [client |-> c, prefix |-> p]
  BY DEF HandoffInv, HandoffType, Message
<1>2. PICK n \in Nat : n = Len(q) BY LenProperties
<1>3. /\ Append(q, msg) \in Seq(Message) /\ Len(Append(q, msg)) = n + 1
      /\ \A i \in 1 .. n : Append(q, msg)[i] = q[i]
      /\ Append(q, msg)[n + 1] = msg
  BY <1>2, AppendProperties
<1>4. /\ chan' = [chan EXCEPT ![b] = Append(q, msg)]
      /\ chan'[b] = Append(q, msg)
      /\ \A a \in Backends : a # b => chan'[a] = chan[a]
  BY <1>1 DEF Send, HandoffInv, HandoffType
<1>5. HandoffType' BY <1>3, <1>4 DEF HandoffInv, HandoffType
<1>6. \A a \in Backends : a # b =>
        /\ Messages(a)' = Messages(a)
        /\ \A d \in Clients : Deliveries(a, d)' = Deliveries(a, d)
  BY <1>4, SameMail
<1>7. msg.client = c /\ msg.prefix = p BY <1>1
<1>8. \A d \in Clients :
        Deliveries(b, d)' = Deliveries(b, d) \cup
                            (IF d = c THEN {<<"sent", n + 1>>} ELSE {})
  <2>1. SUFFICES ASSUME NEW d \in Clients
                 PROVE  {i \in 1 .. n + 1 : chan'[b][i].client = d} =
                          {i \in 1 .. n : chan[b][i].client = d} \cup
                          (IF d = c THEN {n + 1} ELSE {})
    BY <1>1, <1>2, <1>3, <1>4 DEF Deliveries
  <2> QED BY <1>1, <1>2, <1>3, <1>4, <1>7
<1>9. \A m \in Messages(b)' : m \in Messages(b) \/ m = msg
  <2>1. Messages(b)' = {chan'[b][i] : i \in 1 .. n + 1} \cup
                       {taken[b][i] : i \in 1 .. Len(taken[b])}
    BY <1>3, <1>4 DEF Messages
  <2>2. \A i \in 1 .. n + 1 :
          \/ i \in 1 .. Len(chan[b]) /\ chan'[b][i] = chan[b][i]
          \/ chan'[b][i] = msg
    BY <1>1, <1>2, <1>3, <1>4
  <2> QED BY <2>1, <2>2 DEF Messages
<1>10. OneDelivery'
  <2>1. SUFFICES ASSUME NEW d \in Clients, NEW a \in Backends,
                        NEW e \in Backends,
                        NEW x \in Deliveries(a, d)', NEW y \in Deliveries(e, d)'
                 PROVE  a = e /\ x = y
    BY DEF OneDelivery
  <2>2. CASE d # c
    <3>1. x \in Deliveries(a, d) /\ y \in Deliveries(e, d)
      BY <1>6, <1>8, <2>2
    <3> QED BY <3>1 DEF HandoffInv, OneDelivery
  <2>3. CASE d = c
    <3>1. \A f \in Backends : Deliveries(f, c) = {} BY DEF Unheard
    <3>2. a = b /\ x = <<"sent", n + 1>> BY <1>6, <1>8, <2>3, <3>1
    <3>3. e = b /\ y = <<"sent", n + 1>> BY <1>6, <1>8, <2>3, <3>1
    <3> QED BY <3>2, <3>3
  <2> QED BY <2>2, <2>3
<1>11. BytesConserved'
  <2>1. SUFFICES ASSUME NEW a \in Backends, NEW m \in Messages(a)'
                 PROVE  m.prefix \o rx[m.client] = Arrived(m.client)
    BY DEF BytesConserved, Arrived
  <2>2. m \in Messages(a) \/ m = msg BY <1>6, <1>9
  <2> QED BY <1>7, <2>2 DEF HandoffInv, BytesConserved
<1>12. QueueUntouched'
  <2>1. SUFFICES ASSUME NEW d \in Clients
                 PROVE  /\ sock[d] \in {"none", "queued"} => Unheard(d)'
                        /\ sock[d] = "queued" => rx[d] = Arrived(d)
    BY DEF QueueUntouched, Arrived
  <2>2. sock[d] \in {"none", "queued"} => d # c OBVIOUS
  <2> QED BY <1>6, <1>8, <2>2 DEF HandoffInv, QueueUntouched, Unheard
<1>13. \A a \in Backends, d \in Clients :
         Passed(a, d)' <=> Passed(a, d) \/ (a = b /\ d = c)
  BY <1>6, <1>8 DEF Passed
<1> QED BY <1>5, <1>10, <1>11, <1>12, <1>13 DEF HandoffInv

\* At the start nobody is connected and every control connection is empty.
LEMMA HandoffInitInv == ASSUME HandoffInit PROVE HandoffInv
<1>1. /\ <<>> \in Seq(Message) /\ <<>> \in Seq(Chunks) /\ Len(<<>>) = 0
      /\ 0 \in Nat /\ 1 .. 0 = {}
  BY EmptySeq
<1>2. \A c \in Clients : 0 <= Len(Request[c])
  BY HandoffConstants, LenProperties
<1>3. HandoffType BY <1>1, <1>2 DEF HandoffType, HandoffInit
<1>4. \A b \in Backends :
        Messages(b) = {} /\ \A c \in Clients : Deliveries(b, c) = {}
  <2>1. \A b \in Backends : 1 .. Len(chan[b]) = {} /\ 1 .. Len(taken[b]) = {}
    BY <1>1 DEF HandoffInit
  <2> QED BY <2>1 DEF Messages, Deliveries
<1>5. OneDelivery /\ BytesConserved BY <1>4 DEF OneDelivery, BytesConserved
<1>6. QueueUntouched BY <1>4 DEF QueueUntouched, Unheard, HandoffInit
<1> QED BY <1>3, <1>5, <1>6 DEF HandoffInv

=============================================================================
