----------------------- MODULE NetStreamReceiverProofs ------------------------
(***************************************************************************)
(* Proofs about the receiving side of NetStream.                           *)
(*                                                                         *)
(* NetStreamReceiver, for any number of threads and packets:               *)
(* std::terminate is called only after an exception, and without one the   *)
(* connected flag has a client that is served.  A thread can end in other  *)
(* ways, but only the stop of the host, which joins it, and the exception  *)
(* clear m_running while the host may start another.                       *)
(*                                                                         *)
(* NetStreamWire, for any header and packets and any pieces: what is       *)
(* published is what was sent.  The argument is about the bytes on the     *)
(* way, those the receiver has of a packet and then those of the stream:   *)
(* each stands at its place in its packet, the packets are in order and    *)
(* none is missing, and while the connection is up the last byte is the    *)
(* last that the sender has written.                                       *)
(***************************************************************************)
EXTENDS NetStreamReceiver, NetStreamWire, SequenceTheorems, TLAPS

\* A host that may start a thread has joined the last one.
NothingToJoin == host = "idle" /\ ~m_running => thread = "none" \/ threw

\* A thread winds down when it was told to stop.
DownWhenStopped == thread = "down" => ~m_running \/ threw

IInv ==
  /\ NothingToJoin
  /\ DownWhenStopped
  /\ TerminatesOnlyAfterThrow
  /\ ConnectedIsServed

LEMMA InitInv == Init => IInv
BY DEF Init, IInv, NothingToJoin, DownWhenStopped, TerminatesOnlyAfterThrow, ConnectedIsServed

\* The steps of the host.
LEMMA HostStep == IInv /\ Host => IInv'
<1> SUFFICES ASSUME IInv, Host PROVE IInv'
  OBVIOUS
<1> USE DEF IInv, NothingToJoin, DownWhenStopped, TerminatesOnlyAfterThrow, ConnectedIsServed,
            hostVars, sockets
<1>1. CASE Toggle
  BY <1>1 DEF Toggle, Calling
<1>2. CASE StartListening
  BY <1>2 DEF StartListening, Calling
<1>3. CASE StopListening
  BY <1>3 DEF StopListening, Calling
<1>4. CASE ShutListen
  BY <1>4 DEF ShutListen
<1>5. CASE ShutClient
  BY <1>5 DEF ShutClient
<1>6. CASE Join
  BY <1>6 DEF Join
<1>7. CASE Output
  BY <1>7 DEF Output, Calling
<1> QED
  BY <1>1, <1>2, <1>3, <1>4, <1>5, <1>6, <1>7 DEF Host, Tick

\* The steps of the thread, and what its peers and the allocator do to it.
LEMMA ReceiverStep == IInv /\ (Receiver \/ Peer) => IInv'
<1> SUFFICES ASSUME IInv, Receiver \/ Peer PROVE IInv'
  OBVIOUS
<1> USE DEF IInv, NothingToJoin, DownWhenStopped, TerminatesOnlyAfterThrow, ConnectedIsServed,
            hostVars, sockets, Quiet
<1>1. CASE CreateSocket
  BY <1>1 DEF CreateSocket
<1>2. CASE Bind
  BY <1>2 DEF Bind
<1>3. CASE Outer
  BY <1>3 DEF Outer
<1>4. CASE StopAccepting
  BY <1>4 DEF StopAccepting
<1>5. CASE Accept
  BY <1>5 DEF Accept
<1>6. CASE Adopt
  BY <1>6 DEF Adopt
<1>7. CASE Link
  BY <1>7 DEF Link
<1>8. CASE Inner
  BY <1>8 DEF Inner
<1>9. CASE Receive \/ PeerLost \/ ReceiveFailed
  BY <1>9 DEF Receive, PeerLost, ReceiveFailed
<1>10. CASE ReceiveThrows
  BY <1>10 DEF ReceiveThrows
<1>11. CASE CloseClient
  BY <1>11 DEF CloseClient
<1>12. CASE Unlink
  BY <1>12 DEF Unlink
<1>13. CASE Down
  BY <1>13 DEF Down
<1> QED
  BY <1>1, <1>2, <1>3, <1>4, <1>5, <1>6, <1>7, <1>8, <1>9, <1>10, <1>11, <1>12, <1>13
     DEF Receiver, Peer

LEMMA StepInv == IInv /\ [Next]_vars => IInv'
<1>1. IInv /\ UNCHANGED vars => IInv'
  BY DEF IInv, NothingToJoin, DownWhenStopped, TerminatesOnlyAfterThrow, ConnectedIsServed,
         vars, hostVars
<1> QED
  BY <1>1, HostStep, ReceiverStep DEF Next

-----------------------------------------------------------------------------
\* start_listening() assigns over a joinable thread only after an exception.
THEOREM TerminatesAfterThrow == Spec => []TerminatesOnlyAfterThrow
<1>1. IInv => TerminatesOnlyAfterThrow
  BY DEF IInv
<1> QED
  BY <1>1, InitInv, StepInv, PTL DEF Spec

\* m_connected is set only while a thread serves a client, or an exception left it.
THEOREM ConnectedServes == Spec => []ConnectedIsServed
<1>1. IInv => ConnectedIsServed
  BY DEF IInv
<1> QED
  BY <1>1, InitInv, StepInv, PTL DEF Spec

-----------------------------------------------------------------------------
(* The byte stream                                                         *)

ByteSeq == Seq(Nat \X Nat)

\* The bytes that are on the way: what the receiver has of a packet, and the
\* stream.
OnTheWay == incoming \o stream

\* The packet that was published last.
Latest == IF published = <<>> THEN 0 ELSE published[Len(published)][1][1]

\* Where packet u[k][1] begins: its byte i is at Start(u, k) + i.
Start(u, k) == k - u[k][2]

\* A byte of a packet that is sent.
SentByte(b) ==
  /\ b[1] \in 1..Len(Floats) /\ Floats[b[1]] > 0
  /\ b[2] \in 1..Bytes(b[1])

\* Every byte stands at its place in its packet, whose first is not before u.
InPlace(u) ==
  \A k \in DOMAIN u :
    /\ SentByte(u[k])
    /\ Start(u, k) >= 0
    /\ \A i \in 1..Bytes(u[k][1]) :
         Start(u, k) + i <= Len(u) => u[Start(u, k) + i] = <<u[k][1], i>>

\* A byte and a later one are of packets in this order, or of one.
InOrder(u) ==
  \A j, k \in DOMAIN u : j < k =>
    \/ u[j][1] < u[k][1]
    \/ u[j][1] = u[k][1] /\ Start(u, j) = Start(u, k)

\* The first byte of packet q is in u.
Begins(u, q) == \E j \in DOMAIN u : u[j] = <<q, 1>>

\* The packets after n are there, up to the last one.
NoGap(u, n) ==
  \A k \in DOMAIN u :
    /\ n < u[k][1]
    /\ \A q \in SentBefore(u[k][1]) : q <= n \/ Begins(u, q)

Chained(u, n) == InPlace(u) /\ InOrder(u) /\ NoGap(u, n)

\* u ends with the packets before p and s bytes of packet p.
EndsWith(u, n, p, s) ==
  /\ s > 0 => p <= Len(Floats) /\ Floats[p] > 0 /\ s <= Bytes(p)
  /\ n = p => s > 0 /\ s = Bytes(p)
  /\ s > 0 /\ n # p =>
       s <= Len(u) /\ \A i \in 1..s : u[Len(u) - s + i] = <<p, i>>
  /\ \A k \in DOMAIN u :
       \/ u[k][1] < p /\ Start(u, k) + Bytes(u[k][1]) <= Len(u)
       \/ u[k][1] = p /\ Start(u, k) = Len(u) - s
  /\ \A q \in SentBefore(p) : q <= n \/ Begins(u, q)

WireTypes ==
  /\ up \in BOOLEAN
  /\ incoming \in ByteSeq /\ stream \in ByteSeq
  /\ published \in Seq(ByteSeq)
  /\ packet \in Nat \ {0} /\ sent \in Nat

WireInv ==
  /\ WireTypes
  /\ receiving = "payload" => Len(incoming) >= Header
  /\ Latest \in 0..Len(Floats)
  /\ Chained(OnTheWay, Latest)
  /\ up => Latest <= packet /\ EndsWith(OnTheWay, Latest, packet, sent)
  /\ PublishedIsSent

LEMMA BytesPositive ==
  ASSUME NEW p \in 1..Len(Floats)
  PROVE  /\ Floats[p] \in Nat
         /\ Bytes(p) \in Nat /\ Bytes(p) >= Header
         /\ Bytes(p) > 0
<1>1. Floats[p] \in Nat
  BY WireAssumption, ElementOfSeq
<1>2. FloatBytes * Floats[p] \in Nat
  BY <1>1, WireAssumption, SMT
<1> DEFINE f == FloatBytes * Floats[p]
<1>3. Bytes(p) = Header + f
  BY DEF Bytes
<1> HIDE DEF f
<1> QED
  BY <1>1, <1>2, <1>3, WireAssumption DEF f

\* What is lost is a tail.
LEMMA PrefixChained ==
  ASSUME NEW u \in ByteSeq, NEW v \in ByteSeq, NEW n \in Nat,
         Len(v) <= Len(u), \A k \in DOMAIN v : v[k] = u[k],
         Chained(u, n)
  PROVE  Chained(v, n)
<1>1. /\ DOMAIN u = 1..Len(u) /\ DOMAIN v = 1..Len(v)
      /\ Len(u) \in Nat /\ Len(v) \in Nat
  BY LenProperties DEF ByteSeq
<1>2. \A k \in DOMAIN u : u[k] \in Nat \X Nat
  BY <1>1, ElementOfSeq DEF ByteSeq
<1>3. \A k \in DOMAIN v : k \in DOMAIN u /\ Start(v, k) = Start(u, k)
  BY <1>1 DEF Start
<1>4. InPlace(v)
  <2> SUFFICES ASSUME NEW k \in DOMAIN v
               PROVE  /\ SentByte(v[k])
                      /\ Start(v, k) >= 0
                      /\ \A i \in 1..Bytes(v[k][1]) :
                           Start(v, k) + i <= Len(v) => v[Start(v, k) + i] = <<v[k][1], i>>
    BY DEF InPlace
  <2>1. /\ SentByte(u[k]) /\ Start(u, k) >= 0
        /\ \A i \in 1..Bytes(u[k][1]) :
             Start(u, k) + i <= Len(u) => u[Start(u, k) + i] = <<u[k][1], i>>
    BY <1>3 DEF Chained, InPlace
  <2>2. Bytes(u[k][1]) \in Nat /\ Start(u, k) \in Int
    BY <1>1, <1>2, <1>3, <2>1, BytesPositive DEF SentByte, Start
  <2>3. ASSUME NEW i \in 1..Bytes(u[k][1]), Start(u, k) + i <= Len(v)
        PROVE  v[Start(u, k) + i] = <<u[k][1], i>>
    <3>1. Start(u, k) + i \in 1..Len(v)
      BY <2>1, <2>2, <2>3
    <3> QED
      BY <1>1, <2>1, <2>3, <3>1
  <2> QED
    BY <1>3, <2>1, <2>3
<1>5. InOrder(v)
  BY <1>1, <1>3 DEF Chained, InOrder
<1>6. NoGap(v, n)
  <2> SUFFICES ASSUME NEW k \in DOMAIN v
               PROVE  /\ n < v[k][1]
                      /\ \A q \in SentBefore(v[k][1]) : q <= n \/ Begins(v, q)
    BY DEF NoGap
  <2>1. /\ n < u[k][1]
        /\ \A q \in SentBefore(u[k][1]) : q <= n \/ Begins(u, q)
    BY <1>3 DEF Chained, NoGap
  <2>2. u[k][1] \in Nat
    BY <1>2, <1>3
  <2>3. ASSUME NEW q \in SentBefore(u[k][1]), ~ (q <= n) PROVE Begins(v, q)
    <3>1. q \in Nat /\ q < u[k][1]
      BY <2>2 DEF SentBefore
    <3>2. PICK j \in DOMAIN u : u[j] = <<q, 1>>
      BY <2>1, <2>3 DEF Begins
    <3>3. u[j][1] = q /\ j # k
      BY <3>1, <3>2
    <3>4. j < k
      <4> SUFFICES ASSUME k < j PROVE FALSE
        BY <1>1, <1>3, <3>3
      <4>1. u[k][1] < u[j][1] \/ u[k][1] = u[j][1]
        BY <1>3 DEF Chained, InOrder
      <4> QED
        BY <3>1, <3>3, <4>1, <2>2
    <3>5. j \in DOMAIN v
      BY <1>1, <3>4
    <3> QED
      BY <3>2, <3>5 DEF Begins
  <2> QED
    BY <2>1, <2>3
<1> QED
  BY <1>4, <1>5, <1>6 DEF Chained

\* v is u and m more bytes of packet p, from byte s + 1.
Extended(u, v, p, s, m) ==
  /\ Len(v) = Len(u) + m
  /\ \A k \in 1..Len(u) : v[k] = u[k]
  /\ \A k \in 1..m : v[Len(u) + k] = <<p, s + k>>

LEMMA WriteChained ==
  ASSUME NEW u \in ByteSeq, NEW v \in ByteSeq, NEW n \in Nat,
         NEW p \in 1..Len(Floats), Floats[p] > 0, n <= p,
         NEW s \in Nat, NEW m \in Nat, m > 0, s + m <= Bytes(p),
         Chained(u, n), EndsWith(u, n, p, s), Extended(u, v, p, s, m)
  PROVE  Chained(v, n) /\ EndsWith(v, n, p, s + m)
<1>1. /\ DOMAIN u = 1..Len(u) /\ DOMAIN v = 1..Len(v)
      /\ Len(u) \in Nat /\ Len(v) \in Nat
      /\ Len(v) = Len(u) + m
  BY LenProperties DEF ByteSeq, Extended
<1>2. \A k \in DOMAIN u : u[k] \in Nat \X Nat
  BY <1>1, ElementOfSeq DEF ByteSeq
<1>3. Bytes(p) \in Nat
  BY BytesPositive
<1>4. n # p
  BY <1>3 DEF EndsWith
<1>5. n < p
  BY <1>4
<1>6. \A k \in 1..Len(u) : v[k] = u[k] /\ Start(v, k) = Start(u, k)
  BY DEF Extended, Start
<1>7. \A k \in (Len(u) + 1)..Len(v) : v[k] = <<p, s + (k - Len(u))>>
  <2> SUFFICES ASSUME NEW k \in (Len(u) + 1)..Len(v) PROVE v[k] = <<p, s + (k - Len(u))>>
    OBVIOUS
  <2>1. k - Len(u) \in 1..m /\ Len(u) + (k - Len(u)) = k
    BY <1>1
  <2> QED
    BY <2>1 DEF Extended
<1>8. \A k \in (Len(u) + 1)..Len(v) : Start(v, k) = Len(u) - s
  <2> SUFFICES ASSUME NEW k \in (Len(u) + 1)..Len(v) PROVE Start(v, k) = Len(u) - s
    OBVIOUS
  <2>1. v[k][2] = s + (k - Len(u))
    BY <1>7
  <2> QED
    BY <2>1, <1>1 DEF Start
<1>9. Len(u) - s >= 0
  BY <1>1, <1>4 DEF EndsWith
\* What packet p has in v.
<1>10. \A i \in 1..(s + m) : v[Len(u) - s + i] = <<p, i>>
  <2> SUFFICES ASSUME NEW i \in 1..(s + m) PROVE v[Len(u) - s + i] = <<p, i>>
    OBVIOUS
  <2>1. CASE i <= s
    <3>1. i \in 1..s /\ Len(u) - s + i \in 1..Len(u)
      BY <2>1, <1>9, <1>1
    <3>2. u[Len(u) - s + i] = <<p, i>>
      BY <3>1, <1>4, <1>1 DEF EndsWith
    <3> QED
      BY <3>1, <3>2, <1>6
  <2>2. CASE i > s
    <3>1. Len(u) - s + i \in (Len(u) + 1)..Len(v) /\ s + ((Len(u) - s + i) - Len(u)) = i
      BY <2>2, <1>1
    <3> QED
      BY <3>1, <1>7
  <2> QED
    BY <2>1, <2>2
<1>11. \A k \in 1..Len(u) :
         \/ u[k][1] < p /\ Start(u, k) + Bytes(u[k][1]) <= Len(u)
         \/ u[k][1] = p /\ Start(u, k) = Len(u) - s
  BY <1>1 DEF EndsWith
<1>12. InPlace(v)
  <2> SUFFICES ASSUME NEW k \in 1..Len(v)
               PROVE  /\ SentByte(v[k])
                      /\ Start(v, k) >= 0
                      /\ \A i \in 1..Bytes(v[k][1]) :
                           Start(v, k) + i <= Len(v) => v[Start(v, k) + i] = <<v[k][1], i>>
    BY <1>1 DEF InPlace
  <2>1. ASSUME v[k][1] = p, Start(v, k) = Len(u) - s,
               NEW i \in 1..Bytes(v[k][1]), Start(v, k) + i <= Len(v)
        PROVE  v[Start(v, k) + i] = <<v[k][1], i>>
    <3>1. i \in 1..(s + m)
      BY <2>1, <1>1, <1>3
    <3> QED
      BY <2>1, <3>1, <1>10
  <2>2. CASE k \in 1..Len(u)
    <3>1. /\ SentByte(u[k]) /\ Start(u, k) >= 0
          /\ \A i \in 1..Bytes(u[k][1]) :
               Start(u, k) + i <= Len(u) => u[Start(u, k) + i] = <<u[k][1], i>>
      BY <1>1, <2>2 DEF Chained, InPlace
    <3>2. Bytes(u[k][1]) \in Nat /\ Start(u, k) \in Int
      <4>1. k \in Int /\ u[k][2] \in Int
        BY <1>1, <1>2, <2>2
      <4>2. Start(u, k) \in Int
        BY <4>1 DEF Start
      <4>3. Bytes(u[k][1]) \in Nat
        BY <3>1, BytesPositive DEF SentByte
      <4> QED
        BY <4>2, <4>3
    <3>3. v[k] = u[k] /\ Start(v, k) = Start(u, k)
      BY <1>6, <2>2
    <3>4. CASE u[k][1] < p /\ Start(u, k) + Bytes(u[k][1]) <= Len(u)
      <4>1. ASSUME NEW i \in 1..Bytes(u[k][1])
            PROVE  v[Start(u, k) + i] = <<u[k][1], i>>
        <5>1. Start(u, k) + i \in 1..Len(u)
          <6>1. Start(u, k) \in Int /\ Start(u, k) >= 0 /\ Bytes(u[k][1]) \in Nat
            BY <3>1, <3>2
          <6>2. i \in Nat /\ 1 <= i /\ i <= Bytes(u[k][1])
            BY <6>1
          <6> QED
            BY <6>1, <6>2, <3>4, <1>1
        <5>2. v[Start(u, k) + i] = u[Start(u, k) + i]
          BY <5>1, <1>6
        <5>3. Start(u, k) + i <= Len(u)
          BY <5>1
        <5> QED
          BY <3>1, <5>2, <5>3
      <4> QED
        BY <3>1, <3>3, <4>1
    <3>5. CASE u[k][1] = p /\ Start(u, k) = Len(u) - s
      BY <3>1, <3>3, <3>5, <2>1
    <3> QED
      BY <1>11, <2>2, <3>4, <3>5
  <2>3. CASE k \in (Len(u) + 1)..Len(v)
    <3>1. v[k] = <<p, s + (k - Len(u))>> /\ Start(v, k) = Len(u) - s
      BY <1>7, <1>8, <2>3
    <3>2. v[k][1] = p /\ v[k][2] = s + (k - Len(u))
      BY <3>1
    <3>3. s + (k - Len(u)) \in 1..Bytes(p)
      BY <2>3, <1>1, <1>3
    <3>4. SentByte(v[k])
      BY <3>2, <3>3 DEF SentByte
    <3> QED
      BY <3>1, <3>2, <3>4, <1>9, <2>1
  <2> QED
    BY <2>2, <2>3, <1>1
<1>13. InOrder(v)
  <2> SUFFICES ASSUME NEW j \in 1..Len(v), NEW k \in 1..Len(v), j < k
               PROVE  \/ v[j][1] < v[k][1]
                      \/ v[j][1] = v[k][1] /\ Start(v, j) = Start(v, k)
    BY <1>1 DEF InOrder
  <2>1. CASE k \in 1..Len(u)
    <3>1. j \in 1..Len(u)
      BY <2>1, <1>1
    <3>2. \/ u[j][1] < u[k][1]
          \/ u[j][1] = u[k][1] /\ Start(u, j) = Start(u, k)
      BY <1>1, <2>1, <3>1 DEF Chained, InOrder
    <3> QED
      BY <3>1, <3>2, <1>6, <2>1
  <2>2. CASE k \in (Len(u) + 1)..Len(v)
    <3>1. v[k][1] = p /\ Start(v, k) = Len(u) - s
      BY <1>7, <1>8, <2>2
    <3>2. CASE j \in 1..Len(u)
      BY <3>1, <3>2, <1>6, <1>11
    <3>3. CASE j \in (Len(u) + 1)..Len(v)
      <4>1. v[j][1] = p /\ Start(v, j) = Len(u) - s
        BY <1>7, <1>8, <3>3
      <4> QED
        BY <3>1, <4>1
    <3> QED
      BY <3>2, <3>3, <1>1
  <2> QED
    BY <2>1, <2>2, <1>1
<1>14. \A q : Begins(u, q) => Begins(v, q)
  BY <1>1, <1>6 DEF Begins
<1>15. \A q \in SentBefore(p) : q <= n \/ Begins(v, q)
  BY <1>14 DEF EndsWith
<1>16. NoGap(v, n)
  <2> SUFFICES ASSUME NEW k \in 1..Len(v)
               PROVE  /\ n < v[k][1]
                      /\ \A q \in SentBefore(v[k][1]) : q <= n \/ Begins(v, q)
    BY <1>1 DEF NoGap
  <2>1. CASE k \in 1..Len(u)
    BY <1>1, <1>6, <1>14, <2>1 DEF Chained, NoGap
  <2>2. CASE k \in (Len(u) + 1)..Len(v)
    <3>1. v[k][1] = p
      BY <1>7, <2>2
    <3> QED
      BY <3>1, <1>5, <1>15
  <2> QED
    BY <2>1, <2>2, <1>1
<1>17. \A k \in DOMAIN v :
         \/ v[k][1] < p /\ Start(v, k) + Bytes(v[k][1]) <= Len(v)
         \/ v[k][1] = p /\ Start(v, k) = Len(v) - (s + m)
  <2> SUFFICES ASSUME NEW k \in 1..Len(v)
               PROVE  \/ v[k][1] < p /\ Start(v, k) + Bytes(v[k][1]) <= Len(v)
                      \/ v[k][1] = p /\ Start(v, k) = Len(v) - (s + m)
    BY <1>1
  <2>1. Len(u) - s = Len(v) - (s + m)
    BY <1>1
  <2>2. CASE k \in 1..Len(u)
    <3>1. CASE u[k][1] < p /\ Start(u, k) + Bytes(u[k][1]) <= Len(u)
      <4>1. SentByte(u[k])
        BY <1>1, <2>2 DEF Chained, InPlace
      <4>2. Bytes(u[k][1]) \in Nat /\ Start(u, k) \in Int
        BY <1>1, <1>2, <4>1, <2>2, BytesPositive DEF SentByte, Start
      <4>3. Start(u, k) + Bytes(u[k][1]) <= Len(v)
        BY <3>1, <4>2, <1>1
      <4> QED
        BY <4>3, <3>1, <1>6, <2>2
    <3>2. CASE u[k][1] = p /\ Start(u, k) = Len(u) - s
      BY <3>2, <2>1, <1>6, <2>2
    <3> QED
      BY <3>1, <3>2, <1>11, <2>2
  <2>3. CASE k \in (Len(u) + 1)..Len(v)
    <3>1. v[k][1] = p /\ Start(v, k) = Len(u) - s
      BY <1>7, <1>8, <2>3
    <3> QED
      BY <3>1, <2>1
  <2> QED
    BY <2>2, <2>3, <1>1
<1>18. \A i \in 1..(s + m) : v[Len(v) - (s + m) + i] = <<p, i>>
  <2> SUFFICES ASSUME NEW i \in 1..(s + m) PROVE v[Len(v) - (s + m) + i] = <<p, i>>
    OBVIOUS
  <2>1. Len(v) - (s + m) + i = Len(u) - s + i
    BY <1>1
  <2> QED
    BY <2>1, <1>10
<1>19. EndsWith(v, n, p, s + m)
  <2> DEFINE t == s + m
  <2>1. t \in Nat /\ t > 0 /\ t <= Len(v) /\ t <= Bytes(p)
    BY <1>1, <1>9
  <2>2. p <= Len(Floats)
    BY LenProperties, WireAssumption
  <2>3. /\ \A i \in 1..t : v[Len(v) - t + i] = <<p, i>>
        /\ \A k \in DOMAIN v :
             \/ v[k][1] < p /\ Start(v, k) + Bytes(v[k][1]) <= Len(v)
             \/ v[k][1] = p /\ Start(v, k) = Len(v) - t
    BY <1>17, <1>18
  <2> HIDE DEF t
  <2>4. EndsWith(v, n, p, t)
    BY <2>1, <2>2, <2>3, <1>4, <1>15 DEF EndsWith
  <2> QED
    BY <2>4 DEF t
<1> QED
  BY <1>12, <1>13, <1>16, <1>19 DEF Chained

\* u is packet p and then v.
After(u, v, p) ==
  /\ Len(u) = Bytes(p) + Len(v)
  /\ u[1] = <<p, 1>>
  /\ \A k \in 1..Len(v) : v[k] = u[Bytes(p) + k]

LEMMA FirstPacket ==
  ASSUME NEW u \in ByteSeq, NEW v \in ByteSeq, NEW n \in Nat,
         NEW p \in 1..Len(Floats), After(u, v, p), Chained(u, n)
  PROVE  /\ Bytes(p) \in Nat /\ Bytes(p) > 0
         /\ DOMAIN u = 1..Len(u) /\ DOMAIN v = 1..Len(v)
         /\ Len(u) \in Nat /\ Len(v) \in Nat
         /\ n < p
         /\ Start(u, 1) = 0
         /\ \A i \in 1..Bytes(p) : u[i] = <<p, i>>
         /\ \A k \in (Bytes(p) + 1)..Len(u) : u[k][1] > p
         /\ \A k \in 1..Len(v) :
              /\ Bytes(p) + k \in (Bytes(p) + 1)..Len(u) /\ Bytes(p) + k \in DOMAIN u
              /\ v[k] = u[Bytes(p) + k] /\ Start(v, k) = Start(u, Bytes(p) + k) - Bytes(p)
         /\ \A q \in Nat : q > p /\ Begins(u, q) => Begins(v, q)
<1> DEFINE b == Bytes(p)
<1>1. b \in Nat /\ b > 0
  BY BytesPositive
<1> HIDE DEF b
<1>2. /\ DOMAIN u = 1..Len(u) /\ DOMAIN v = 1..Len(v)
      /\ Len(u) \in Nat /\ Len(v) \in Nat
      /\ Len(u) = b + Len(v)
      /\ u[1] = <<p, 1>> /\ 1 \in DOMAIN u
  BY LenProperties, <1>1 DEF ByteSeq, After, b
<1>3. \A k \in DOMAIN u : u[k] \in Nat \X Nat
  BY <1>2, ElementOfSeq DEF ByteSeq
<1>4. Start(u, 1) = 0
  BY <1>2 DEF Start
\* The first b bytes are those of p, the others are of later packets.
<1>5. \A i \in 1..b : u[i] = <<p, i>>
  <2> SUFFICES ASSUME NEW i \in 1..b PROVE u[i] = <<p, i>>
    OBVIOUS
  <2>1. \A j \in 1..Bytes(u[1][1]) :
          Start(u, 1) + j <= Len(u) => u[Start(u, 1) + j] = <<u[1][1], j>>
    BY <1>2 DEF Chained, InPlace
  <2>2. u[1][1] = p /\ i \in 1..Bytes(u[1][1]) /\ Start(u, 1) + i = i /\ i <= Len(u)
    BY <1>1, <1>2, <1>4 DEF b
  <2> QED
    BY <2>1, <2>2
<1>6. \A k \in (b + 1)..Len(u) : u[k][1] > p
  <2> SUFFICES ASSUME NEW k \in (b + 1)..Len(u), ~ (u[k][1] > p) PROVE FALSE
    OBVIOUS
  <2>1. k \in DOMAIN u /\ 1 < k
    BY <1>1, <1>2
  <2>2. u[1][1] < u[k][1] \/ (u[1][1] = u[k][1] /\ Start(u, 1) = Start(u, k))
    BY <1>2, <2>1 DEF Chained, InOrder
  <2>3. u[1][1] = p /\ u[k] \in Nat \X Nat
    BY <1>2, <1>3, <2>1
  <2>4. u[k][1] = p /\ Start(u, k) = 0
    BY <2>2, <2>3, <1>4
  <2>5. u[k][2] = k
    BY <2>3, <2>4 DEF Start
  <2>6. u[k][2] <= b
    BY <2>1, <2>4, <1>1 DEF Chained, InPlace, SentByte, b
  <2> QED
    BY <2>5, <2>6, <1>1
<1>7. \A k \in 1..Len(v) : /\ b + k \in (b + 1)..Len(u) /\ b + k \in DOMAIN u
                           /\ v[k] = u[b + k] /\ Start(v, k) = Start(u, b + k) - b
  <2> SUFFICES ASSUME NEW k \in 1..Len(v)
               PROVE  /\ b + k \in (b + 1)..Len(u) /\ b + k \in DOMAIN u
                      /\ v[k] = u[b + k] /\ Start(v, k) = Start(u, b + k) - b
    OBVIOUS
  <2>1. b + k \in (b + 1)..Len(u) /\ b + k \in DOMAIN u
    BY <1>1, <1>2
  <2>2. v[k] = u[b + k]
    BY DEF After, b
  <2>3. u[b + k][2] \in Nat
    BY <2>1, <1>3
  <2>4. Start(v, k) = Start(u, b + k) - b
    BY <2>2, <2>3, <1>1 DEF Start
  <2> QED
    BY <2>1, <2>2, <2>4
<1>8. ASSUME NEW q \in Nat, q > p, Begins(u, q) PROVE Begins(v, q)
  <2>1. PICK j \in DOMAIN u : u[j] = <<q, 1>>
    BY <1>8 DEF Begins
  <2>2. j \in Nat /\ j >= 1 /\ j <= Len(u)
    BY <1>2
  <2>3. j > b
    <3> SUFFICES ASSUME j \in 1..b PROVE FALSE
      BY <1>1, <2>2
    <3>1. u[j] = <<p, j>>
      BY <1>5
    <3> QED
      BY <3>1, <2>1, <1>8
  <2>4. j - b \in 1..Len(v) /\ b + (j - b) = j
    BY <1>1, <1>2, <2>2, <2>3
  <2>5. v[j - b] = u[j]
    BY <2>4, <1>7
  <2> QED
    BY <2>1, <2>4, <2>5, <1>2 DEF Begins
<1>9. n < p
  BY <1>2 DEF Chained, NoGap
<1> QED
  BY <1>1, <1>2, <1>4, <1>5, <1>6, <1>7, <1>8, <1>9 DEF b

LEMMA DropChained ==
  ASSUME NEW u \in ByteSeq, NEW v \in ByteSeq, NEW n \in Nat,
         NEW p \in 1..Len(Floats), After(u, v, p), Chained(u, n)
  PROVE  Chained(v, p)
<1> DEFINE b == Bytes(p)
<1>1. b \in Nat /\ b > 0 /\ n < p
  BY FirstPacket
<1>2. /\ DOMAIN u = 1..Len(u) /\ DOMAIN v = 1..Len(v)
      /\ Len(u) \in Nat /\ Len(v) \in Nat
      /\ Len(u) = b + Len(v)
  BY FirstPacket DEF After
<1>3. \A k \in DOMAIN u : u[k] \in Nat \X Nat
  BY <1>2, ElementOfSeq DEF ByteSeq
<1>4. Start(u, 1) = 0
  BY FirstPacket
<1>5. \A i \in 1..b : u[i] = <<p, i>>
  BY FirstPacket
<1>6. \A k \in (b + 1)..Len(u) : u[k][1] > p
  BY FirstPacket
<1>7. \A k \in 1..Len(v) : /\ b + k \in (b + 1)..Len(u) /\ b + k \in DOMAIN u
                           /\ v[k] = u[b + k] /\ Start(v, k) = Start(u, b + k) - b
  BY FirstPacket
<1>8. \A q \in Nat : q > p /\ Begins(u, q) => Begins(v, q)
  BY FirstPacket
<1>9. InPlace(v)
  <2> SUFFICES ASSUME NEW k \in 1..Len(v)
               PROVE  /\ SentByte(v[k])
                      /\ Start(v, k) >= 0
                      /\ \A i \in 1..Bytes(v[k][1]) :
                           Start(v, k) + i <= Len(v) => v[Start(v, k) + i] = <<v[k][1], i>>
    BY <1>2 DEF InPlace
  <2> DEFINE c == b + k
  <2>1. c \in DOMAIN u /\ c \in (b + 1)..Len(u) /\ v[k] = u[c] /\ Start(v, k) = Start(u, c) - b
    BY <1>7
  <2> HIDE DEF c
  <2>2. /\ SentByte(u[c]) /\ Start(u, c) >= 0
        /\ \A i \in 1..Bytes(u[c][1]) :
             Start(u, c) + i <= Len(u) => u[Start(u, c) + i] = <<u[c][1], i>>
    BY <2>1 DEF Chained, InPlace
  <2>3. Bytes(u[c][1]) \in Nat /\ Bytes(u[c][1]) >= 1 /\ u[c] \in Nat \X Nat
    BY <1>3, <2>1, <2>2, BytesPositive DEF SentByte
  <2>4. Start(u, c) \in Nat /\ Start(u, c) + 1 <= c /\ c \in Nat
    <3>1. c \in Nat
      BY <2>1, <1>2
    <3>2. u[c][2] \in Nat /\ u[c][2] >= 1
      BY <2>2, <2>3 DEF SentByte
    <3>3. Start(u, c) = c - u[c][2] /\ Start(u, c) >= 0
      BY <2>2 DEF Start
    <3> HIDE DEF Start
    <3> QED
      BY <3>1, <3>2, <3>3
  <2>5. u[Start(u, c) + 1] = <<u[c][1], 1>>
    BY <2>1, <2>2, <2>3, <2>4, <1>1, <1>2
  <2>6. Start(u, c) >= b
    <3> SUFFICES ASSUME Start(u, c) + 1 \in 1..b PROVE FALSE
      BY <2>4, <1>1
    <3>1. u[Start(u, c) + 1] = <<p, Start(u, c) + 1>>
      BY <1>5
    <3>2. u[c][1] = p
      BY <3>1, <2>5
    <3> QED
      BY <3>2, <2>1, <1>6
  <2>7. ASSUME NEW i \in 1..Bytes(u[c][1]), (Start(u, c) - b) + i <= Len(v)
        PROVE  v[(Start(u, c) - b) + i] = <<u[c][1], i>>
    <3> DEFINE d == (Start(u, c) - b) + i
    <3>1. d \in 1..Len(v) /\ b + d = Start(u, c) + i /\ Start(u, c) + i <= Len(u)
      BY <2>3, <2>4, <2>6, <2>7, <1>1, <1>2
    <3>2. v[d] = u[Start(u, c) + i]
      <4> HIDE DEF d
      <4> QED
        BY <3>1, <1>7
    <3> QED
      BY <3>1, <3>2, <2>2
  <2>8. Start(v, k) >= 0
    BY <2>1, <2>4, <2>6, <1>1
  <2> QED
    BY <2>1, <2>2, <2>7, <2>8
<1>10. InOrder(v)
  <2> SUFFICES ASSUME NEW j \in 1..Len(v), NEW k \in 1..Len(v), j < k
               PROVE  \/ v[j][1] < v[k][1]
                      \/ v[j][1] = v[k][1] /\ Start(v, j) = Start(v, k)
    BY <1>2 DEF InOrder
  <2>1. b + j \in DOMAIN u /\ b + k \in DOMAIN u /\ b + j < b + k
    BY <1>7, <1>1
  <2>2. \/ u[b + j][1] < u[b + k][1]
        \/ u[b + j][1] = u[b + k][1] /\ Start(u, b + j) = Start(u, b + k)
    BY <2>1 DEF Chained, InOrder
  <2>3. /\ v[j] = u[b + j] /\ Start(v, j) = Start(u, b + j) - b
        /\ v[k] = u[b + k] /\ Start(v, k) = Start(u, b + k) - b
    BY <1>7
  <2> QED
    BY <2>2, <2>3
<1>11. NoGap(v, p)
  <2> SUFFICES ASSUME NEW k \in 1..Len(v)
               PROVE  /\ p < v[k][1]
                      /\ \A q \in SentBefore(v[k][1]) : q <= p \/ Begins(v, q)
    BY <1>2 DEF NoGap
  <2> DEFINE c == b + k
  <2>1. c \in DOMAIN u /\ c \in (b + 1)..Len(u) /\ v[k] = u[c]
    BY <1>7
  <2> HIDE DEF c
  <2>2. u[c][1] > p /\ u[c][1] \in Nat
    BY <2>1, <1>3, <1>6
  <2>3. ASSUME NEW q \in SentBefore(u[c][1]), ~ (q <= p) PROVE Begins(v, q)
    <3>1. q \in Nat /\ q > p
      BY <2>2, <2>3 DEF SentBefore
    <3>3. q <= n \/ Begins(u, q)
      BY <2>1 DEF Chained, NoGap
    <3> QED
      BY <3>1, <3>3, <1>1, <1>8
  <2> QED
    BY <2>1, <2>2, <2>3
<1> QED
  BY <1>9, <1>10, <1>11 DEF Chained

LEMMA DropEnds ==
  ASSUME NEW u \in ByteSeq, NEW v \in ByteSeq, NEW n \in Nat,
         NEW p \in 1..Len(Floats), After(u, v, p), Chained(u, n),
         NEW r \in Nat, NEW s \in Nat, EndsWith(u, n, r, s)
  PROVE  p <= r /\ EndsWith(v, p, r, s)
<1> DEFINE b == Bytes(p)
<1>1. b \in Nat /\ b > 0 /\ n < p
  BY FirstPacket
<1>2. /\ DOMAIN u = 1..Len(u) /\ DOMAIN v = 1..Len(v)
      /\ Len(u) \in Nat /\ Len(v) \in Nat
      /\ Len(u) = b + Len(v)
  BY FirstPacket DEF After
<1>3. \A k \in DOMAIN u : u[k] \in Nat \X Nat
  BY <1>2, ElementOfSeq DEF ByteSeq
<1>4. Start(u, 1) = 0
  BY FirstPacket
<1>5. \A i \in 1..b : u[i] = <<p, i>>
  BY FirstPacket
<1>6. \A k \in (b + 1)..Len(u) : u[k][1] > p
  BY FirstPacket
<1>7. \A k \in 1..Len(v) : /\ b + k \in (b + 1)..Len(u) /\ b + k \in DOMAIN u
                           /\ v[k] = u[b + k] /\ Start(v, k) = Start(u, b + k) - b
  BY FirstPacket
<1>8. \A q \in Nat : q > p /\ Begins(u, q) => Begins(v, q)
  BY FirstPacket
<1>9. u[1] = <<p, 1>> /\ u[1][1] = p /\ 1 \in DOMAIN u
  BY <1>1, <1>2 DEF After
<1>10. \/ p < r /\ Start(u, 1) + Bytes(u[1][1]) <= Len(u)
       \/ p = r /\ Start(u, 1) = Len(u) - s
  BY <1>9 DEF EndsWith
<1>11. s > 0 => r <= Len(Floats) /\ Floats[r] > 0 /\ s <= Bytes(r)
  BY DEF EndsWith
<1>12. p <= r
  BY <1>10
<1>13. p = r => s > 0 /\ s = Bytes(r)
  BY <1>1, <1>2, <1>4, <1>10, <1>11 DEF b
<1>14. ASSUME s > 0, p # r
       PROVE  s <= Len(v) /\ \A i \in 1..s : v[Len(v) - s + i] = <<r, i>>
  <2>1. n # r
    BY <1>1, <1>12
  <2>2. s <= Len(u) /\ \A i \in 1..s : u[Len(u) - s + i] = <<r, i>>
    BY <2>1, <1>14 DEF EndsWith
  <2>3. Len(u) - s >= b
    <3> SUFFICES ASSUME Len(u) - s + 1 \in 1..b PROVE FALSE
      BY <2>2, <1>1, <1>2
    <3>1. u[Len(u) - s + 1] = <<p, Len(u) - s + 1>>
      BY <1>5
    <3>2. u[Len(u) - s + 1] = <<r, 1>>
      BY <2>2, <1>14
    <3> QED
      BY <3>1, <3>2, <1>14
  <2>4. ASSUME NEW i \in 1..s PROVE v[Len(v) - s + i] = <<r, i>>
    <3> DEFINE d == Len(v) - s + i
    <3>1. d \in 1..Len(v) /\ b + d = Len(u) - s + i
      BY <2>3, <1>1, <1>2
    <3>2. v[d] = u[Len(u) - s + i]
      <4> HIDE DEF d
      <4> QED
        BY <3>1, <1>7
    <3> QED
      BY <3>2, <2>2
  <2>5. s <= Len(v)
    BY <2>2, <2>3, <1>1, <1>2
  <2> QED
    BY <2>4, <2>5
<1>15. \A k \in DOMAIN v :
         \/ v[k][1] < r /\ Start(v, k) + Bytes(v[k][1]) <= Len(v)
         \/ v[k][1] = r /\ Start(v, k) = Len(v) - s
  <2> SUFFICES ASSUME NEW k \in 1..Len(v)
               PROVE  \/ v[k][1] < r /\ Start(v, k) + Bytes(v[k][1]) <= Len(v)
                      \/ v[k][1] = r /\ Start(v, k) = Len(v) - s
    BY <1>2
  <2> DEFINE c == b + k
  <2>1. c \in DOMAIN u /\ c \in Nat /\ v[k] = u[c] /\ Start(v, k) = Start(u, c) - b
    BY <1>1, <1>7
  <2> HIDE DEF c
  <2>2. SentByte(u[c]) /\ u[c] \in Nat \X Nat
    BY <2>1, <1>3 DEF Chained, InPlace
  <2>3. Bytes(u[c][1]) \in Nat /\ Start(u, c) \in Int
    BY <2>1, <2>2, BytesPositive DEF SentByte, Start
  <2>4. CASE u[c][1] < r /\ Start(u, c) + Bytes(u[c][1]) <= Len(u)
    BY <2>1, <2>3, <2>4, <1>1, <1>2
  <2>5. CASE u[c][1] = r /\ Start(u, c) = Len(u) - s
    BY <2>1, <2>3, <2>5, <1>1, <1>2
  <2> QED
    BY <2>1, <2>4, <2>5 DEF EndsWith
<1>16. \A q \in SentBefore(r) : q <= p \/ Begins(v, q)
  <2> SUFFICES ASSUME NEW q \in SentBefore(r), ~ (q <= p) PROVE Begins(v, q)
    OBVIOUS
  <2>1. q \in Nat /\ q > p
    BY DEF SentBefore
  <2>2. q <= n \/ Begins(u, q)
    BY DEF EndsWith
  <2> QED
    BY <2>1, <2>2, <1>1, <1>8
<1> QED
  BY <1>11, <1>12, <1>13, <1>14, <1>15, <1>16 DEF EndsWith

-----------------------------------------------------------------------------
(* The steps                                                               *)

LEMMA Joined ==
  ASSUME NEW x \in ByteSeq, NEW y \in ByteSeq
  PROVE  /\ x \o y \in ByteSeq
         /\ Len(x) \in Nat /\ Len(y) \in Nat
         /\ Len(x \o y) = Len(x) + Len(y)
         /\ \A k \in 1..Len(x) : (x \o y)[k] = x[k]
         /\ \A k \in 1..Len(y) : (x \o y)[Len(x) + k] = y[k]
<1>1. Len(x) \in Nat /\ Len(y) \in Nat
  BY LenProperties DEF ByteSeq
<1>2. x \o y \in ByteSeq /\ Len(x \o y) = Len(x) + Len(y)
  BY ConcatProperties DEF ByteSeq
<1>3. \A k \in 1..(Len(x) + Len(y)) :
        (x \o y)[k] = IF k <= Len(x) THEN x[k] ELSE y[k - Len(x)]
  BY ConcatProperties DEF ByteSeq
<1>4. \A k \in 1..Len(y) : (x \o y)[Len(x) + k] = y[k]
  <2> SUFFICES ASSUME NEW k \in 1..Len(y) PROVE (x \o y)[Len(x) + k] = y[k]
    OBVIOUS
  <2>1. /\ Len(x) + k \in 1..(Len(x) + Len(y)) /\ ~ (Len(x) + k <= Len(x))
        /\ (Len(x) + k) - Len(x) = k
    BY <1>1
  <2> QED
    BY <2>1, <1>3
<1> QED
  BY <1>1, <1>2, <1>3, <1>4

LEMMA JoinedTwice ==
  ASSUME NEW x \in ByteSeq, NEW y \in ByteSeq, NEW z \in ByteSeq
  PROVE  (x \o y) \o z = x \o (y \o z)
<1> DEFINE S == Nat \X Nat
<1>1. x \in Seq(S) /\ y \in Seq(S) /\ z \in Seq(S)
  BY DEF ByteSeq
<1> HIDE DEF S
<1> QED
  BY <1>1, ConcatAssociative

LEMMA WireTypesConcat ==
  ASSUME WireTypes
  PROVE  /\ OnTheWay \in ByteSeq
         /\ Len(incoming) \in Nat /\ Len(stream) \in Nat
         /\ Len(OnTheWay) = Len(incoming) + Len(stream)
         /\ \A k \in 1..Len(incoming) : OnTheWay[k] = incoming[k]
         /\ \A k \in 1..Len(stream) : OnTheWay[Len(incoming) + k] = stream[k]
<1>1. incoming \in ByteSeq /\ stream \in ByteSeq
  BY DEF WireTypes
<1> QED
  BY <1>1, Joined DEF OnTheWay

LEMMA WholeIs ==
  ASSUME NEW p \in 1..Len(Floats)
  PROVE  /\ Whole(p) \in ByteSeq /\ Len(Whole(p)) = Bytes(p)
         /\ \A i \in 1..Bytes(p) : Whole(p)[i] = <<p, i>>
<1>1. Bytes(p) \in Nat /\ Bytes(p) > 0
  BY BytesPositive
<1>2. p \in Nat
  OBVIOUS
<1>3. \A i \in 1..Bytes(p) : <<p, i>> \in Nat \X Nat
  BY <1>1, <1>2
<1>4. Whole(p) \in ByteSeq
  BY <1>1, <1>3, SeqDef DEF Whole, ByteSeq
<1>5. DOMAIN Whole(p) = 1..Bytes(p)
  BY DEF Whole
<1>6. Len(Whole(p)) = Bytes(p)
  BY <1>1, <1>4, <1>5, LenProperties DEF ByteSeq
<1> QED
  BY <1>4, <1>6 DEF Whole

LEMMA FloatsLen == Len(Floats) \in Nat
  BY WireAssumption, LenProperties

\* The next packet is published whole.
LEMMA PublishedNext ==
  ASSUME published \in Seq(ByteSeq), PublishedIsSent,
         NEW u \in ByteSeq, NEW p \in 1..Len(Floats), Floats[p] > 0,
         Chained(u, Latest), 1 \in DOMAIN u, u[1] = <<p, 1>>,
         Latest < p, published' = Append(published, Whole(p))
  PROVE  PublishedIsSent' /\ Latest' = p /\ published' \in Seq(ByteSeq)
<1> DEFINE old == published
           new == published'
<1>1. old \in Seq(ByteSeq) /\ Whole(p) \in ByteSeq
  BY WholeIs
<1>2. /\ new \in Seq(ByteSeq)
      /\ Len(old) \in Nat /\ DOMAIN old = 1..Len(old)
      /\ Len(new) = Len(old) + 1 /\ DOMAIN new = 1..(Len(old) + 1)
      /\ \A n \in 1..Len(old) : new[n] = old[n]
      /\ new[Len(old) + 1] = Whole(p)
  BY <1>1, AppendProperties, LenProperties
<1>3. Latest' = p
  <2>1. published' # <<>>
    BY <1>2
  <2>2. published'[Len(published')] = Whole(p)
    BY <1>2
  <2>3. Whole(p)[1] = <<p, 1>>
    BY WholeIs, BytesPositive
  <2> QED
    BY <2>1, <2>2, <2>3 DEF Latest
<1>4. \A q \in SentBefore(p) : q <= Latest
  <2> SUFFICES ASSUME NEW q \in SentBefore(p), ~ (q <= Latest) PROVE FALSE
    OBVIOUS
  <2>1. u[1][1] = p
    OBVIOUS
  <2>2. Begins(u, q)
    BY <2>1 DEF Chained, NoGap
  <2>3. PICK j \in DOMAIN u : u[j] = <<q, 1>>
    BY <2>2 DEF Begins
  <2>4. q \in Nat /\ q < p
    BY DEF SentBefore
  <2>5. j \in Nat /\ j > 1
    <3>1. j \in 1..Len(u)
      BY LenProperties DEF ByteSeq
    <3>2. j # 1
      BY <2>3, <2>4
    <3> QED
      BY <3>1, <3>2
  <2>6. u[1][1] < u[j][1] \/ u[1][1] = u[j][1]
    BY <2>5 DEF Chained, InOrder
  <2> QED
    BY <2>1, <2>3, <2>4, <2>6
<1>5. {new[m] : m \in 1..Len(old)} = {Whole(q) : q \in SentBefore(p)}
  <2>1. {new[m] : m \in 1..Len(old)} = {old[m] : m \in 1..Len(old)}
    BY <1>2
  <2>2. CASE old = <<>>
    <3>1. Len(old) = 0 /\ Latest = 0
      BY <2>2 DEF Latest
    <3>2. 1..Len(old) = {}
      BY <3>1
    <3>3. SentBefore(p) = {}
      BY <3>1, <1>4 DEF SentBefore
    <3> QED
      BY <3>2, <3>3
  <2>3. CASE old # <<>>
    <3>1. Len(old) \in DOMAIN old /\ Len(old) >= 1
      BY <2>3, <1>1, <1>2, EmptySeq
    <3>2. PICK p0 \in 1..Len(Floats) :
            /\ Floats[p0] > 0
            /\ old[Len(old)] = Whole(p0)
            /\ {old[m] : m \in 1..(Len(old) - 1)} = {Whole(q) : q \in SentBefore(p0)}
      BY <3>1 DEF PublishedIsSent
    <3>3. Latest = p0
      <4>1. Whole(p0)[1] = <<p0, 1>>
        BY WholeIs, BytesPositive
      <4> QED
        BY <4>1, <2>3, <3>2 DEF Latest
    <3>4. SentBefore(p) = SentBefore(p0) \cup {p0}
      <4>1. SentBefore(p) \subseteq SentBefore(p0) \cup {p0}
        BY <1>4, <3>3 DEF SentBefore
      <4>2. SentBefore(p0) \cup {p0} \subseteq SentBefore(p)
        BY <3>2, <3>3 DEF SentBefore
      <4> QED
        BY <4>1, <4>2
    <3>5. 1..Len(old) = (1..(Len(old) - 1)) \cup {Len(old)}
      BY <1>2, <3>1
    <3>6. {old[m] : m \in 1..Len(old)}
            = {old[m] : m \in 1..(Len(old) - 1)} \cup {old[Len(old)]}
      BY <3>5
    <3>7. {Whole(q) : q \in SentBefore(p)} = {Whole(q) : q \in SentBefore(p0)} \cup {Whole(p0)}
      BY <3>4
    <3> QED
      BY <2>1, <3>2, <3>6, <3>7
  <2> QED
    BY <2>2, <2>3
<1>6. ASSUME NEW n \in DOMAIN new
      PROVE  \E r \in 1..Len(Floats) :
               /\ Floats[r] > 0
               /\ new[n] = Whole(r)
               /\ {new[m] : m \in 1..(n - 1)} = {Whole(q) : q \in SentBefore(r)}
  <2>1. CASE n \in 1..Len(old)
    <3>1. PICK r \in 1..Len(Floats) :
            /\ Floats[r] > 0
            /\ old[n] = Whole(r)
            /\ {old[m] : m \in 1..(n - 1)} = {Whole(q) : q \in SentBefore(r)}
      BY <2>1, <1>2 DEF PublishedIsSent
    <3>2. \A m \in 1..(n - 1) : m \in 1..Len(old)
      BY <2>1, <1>2
    <3>3. {new[m] : m \in 1..(n - 1)} = {old[m] : m \in 1..(n - 1)}
      BY <3>2, <1>2
    <3> QED
      BY <3>1, <3>3, <2>1, <1>2
  <2>2. CASE n = Len(old) + 1
    <3>1. n - 1 = Len(old)
      BY <2>2, <1>2
    <3> QED
      BY <3>1, <2>2, <1>2, <1>5
  <2>3. n \in 1..Len(old) \/ n = Len(old) + 1
    <3>1. n \in 1..(Len(old) + 1)
      BY <1>2
    <3> QED
      BY <3>1, <1>2
  <2> QED
    BY <2>1, <2>2, <2>3
<1>7. PublishedIsSent'
  BY <1>6 DEF PublishedIsSent, Whole, Bytes, SentBefore
<1> QED
  BY <1>2, <1>3, <1>7

LEMMA WireInitInv == WireInit => WireInv
<1> SUFFICES ASSUME WireInit PROVE WireInv
  OBVIOUS
<1>1. /\ up = TRUE /\ packet = 1 /\ sent = 0 /\ receiving = "header"
      /\ incoming = <<>> /\ stream = <<>> /\ published = <<>>
  BY DEF WireInit
<1>2. WireTypes
  BY <1>1 DEF WireTypes, ByteSeq
<1>3. Latest = 0
  BY <1>1 DEF Latest
<1>4. Len(OnTheWay) = 0 /\ DOMAIN OnTheWay = {}
  BY <1>1, <1>2, WireTypesConcat, LenProperties DEF ByteSeq
<1>5. Chained(OnTheWay, Latest)
  BY <1>4 DEF Chained, InPlace, InOrder, NoGap
<1>6. EndsWith(OnTheWay, Latest, packet, sent)
  BY <1>1, <1>3, <1>4 DEF EndsWith, SentBefore
<1>7. PublishedIsSent
  BY <1>1 DEF PublishedIsSent
<1> QED
  BY <1>1, <1>2, <1>3, <1>5, <1>6, <1>7, FloatsLen DEF WireInv

LEMMA SamePublished ==
  ASSUME PublishedIsSent, UNCHANGED published
  PROVE  Latest' = Latest /\ PublishedIsSent'
<1>1. Latest' = Latest
  BY DEF Latest
<1> DEFINE AllSent(w) ==
      \A n \in DOMAIN w : \E p \in 1..Len(Floats) :
        /\ Floats[p] > 0
        /\ w[n] = Whole(p)
        /\ {w[m] : m \in 1..(n - 1)} = {Whole(q) : q \in SentBefore(p)}
<1>2. PublishedIsSent <=> AllSent(published)
  BY Zenon DEF PublishedIsSent
<1>3. PublishedIsSent' <=> AllSent(published')
  BY Zenon DEF PublishedIsSent
<1> HIDE DEF AllSent
<1>4. published' = published
  OBVIOUS
<1> QED
  BY <1>1, <1>2, <1>3, <1>4

LEMMA Piece ==
  ASSUME NEW x \in ByteSeq, NEW a \in Nat, NEW b \in Nat, a <= b, b <= Len(x)
  PROVE  /\ SubSeq(x, a + 1, b) \in ByteSeq
         /\ Len(SubSeq(x, a + 1, b)) = b - a
         /\ \A i \in 1..(b - a) : SubSeq(x, a + 1, b)[i] = x[a + i]
<1> DEFINE m == a + 1
           y == SubSeq(x, m, b)
<1>1. m \in Int /\ b \in Int /\ Len(x) \in Nat /\ b - m + 1 = b - a
  BY LenProperties DEF ByteSeq
<1>2. \A i \in m..b : x[i] \in Nat \X Nat
  <2>1. \A i \in m..b : i \in 1..Len(x)
    BY <1>1
  <2> QED
    BY <2>1, ElementOfSeq DEF ByteSeq
<1>3. m <= b \/ b - a = 0
  OBVIOUS
<1>4. \A i \in 1..(b - a) : m + i - 1 = a + i
  OBVIOUS
<1> HIDE DEF m
<1>5. /\ y \in Seq(Nat \X Nat)
      /\ Len(y) = IF m <= b THEN b - m + 1 ELSE 0
      /\ \A i \in 1..(b - m + 1) : y[i] = x[m + i - 1]
  BY <1>1, <1>2, SubSeqProperties
<1> HIDE DEF y
<1>6. Len(y) = b - a
  BY <1>1, <1>3, <1>5 DEF m
<1>7. \A i \in 1..(b - a) : y[i] = x[a + i]
  BY <1>1, <1>4, <1>5
<1> QED
  BY <1>5, <1>6, <1>7 DEF y, m, ByteSeq

\* What is on the way does not change.
LEMMA SameWire ==
  ASSUME WireInv, WireTypes', OnTheWay' = OnTheWay, UNCHANGED <<up, packet, sent, published>>,
         (receiving = "payload" => Len(incoming) >= Header)'
  PROVE  WireInv'
<1>1. Latest' = Latest /\ PublishedIsSent'
  BY SamePublished DEF WireInv
<1>2. Chained(OnTheWay', Latest')
  BY <1>1 DEF WireInv
<1>3. up' => Latest' <= packet' /\ EndsWith(OnTheWay', Latest', packet', sent')
  BY <1>1 DEF WireInv
<1> QED
  BY <1>1, <1>2, <1>3 DEF WireInv, Chained, EndsWith, InPlace, InOrder, NoGap, SentByte, Begins, Start, SentBefore, Bytes

\* A tail of the stream is lost, and with it the connection.
LEMMA DownWire ==
  ASSUME WireInv, WireTypes', ~ up', UNCHANGED <<incoming, receiving, published>>,
         Len(OnTheWay') <= Len(OnTheWay),
         \A k \in DOMAIN OnTheWay' : OnTheWay'[k] = OnTheWay[k], OnTheWay' \in ByteSeq
  PROVE  WireInv'
<1>1. Latest' = Latest /\ PublishedIsSent' /\ Latest \in Nat
  BY SamePublished, FloatsLen DEF WireInv
<1>2. Chained(OnTheWay', Latest)
  <2> DEFINE u == OnTheWay
             v == OnTheWay'
             n == Latest
  <2>1. /\ u \in ByteSeq /\ v \in ByteSeq /\ n \in Nat /\ Len(v) <= Len(u)
        /\ \A k \in DOMAIN v : v[k] = u[k]
        /\ Chained(u, n)
    BY <1>1, WireTypesConcat DEF WireInv
  <2> HIDE DEF u, v, n
  <2>2. Chained(v, n)
    BY <2>1, PrefixChained
  <2> QED
    BY <2>2 DEF u, v, n
<1>3. Chained(OnTheWay', Latest')
  BY <1>1, <1>2
<1> QED
  BY <1>1, <1>3 DEF WireInv, Chained, EndsWith, InPlace, InOrder, NoGap, SentByte, Begins, Start, SentBefore, Bytes

LEMMA WriteStep == WireInv /\ Write => WireInv'
<1> SUFFICES ASSUME WireInv, Write PROVE WireInv'
  OBVIOUS
<1>1. /\ up /\ Pending
      /\ UNCHANGED <<up, packet, incoming, receiving, published>>
  BY DEF Write, receiver
<1>2. PICK m \in 1..Bytes(packet) - sent :
        /\ stream' = stream \o SubSeq(Whole(packet), sent + 1, sent + m)
        /\ sent' = sent + m
  BY DEF Write
<1>3. WireTypes /\ packet \in 1..Len(Floats) /\ Floats[packet] > 0 /\ sent \in Nat
  BY <1>1, FloatsLen DEF WireInv, WireTypes, Pending
<1>4. Bytes(packet) \in Nat
  BY <1>3, BytesPositive
<1>5. m \in Nat /\ m > 0 /\ sent + m <= Bytes(packet) /\ sent + m \in Nat
  BY <1>2, <1>3, <1>4
<1> DEFINE piece == SubSeq(Whole(packet), sent + 1, sent + m)
<1>6. /\ piece \in ByteSeq /\ Len(piece) = m
      /\ \A k \in 1..m : piece[k] = <<packet, sent + k>>
  <2>1. /\ Whole(packet) \in ByteSeq /\ Len(Whole(packet)) = Bytes(packet)
        /\ \A i \in 1..Bytes(packet) : Whole(packet)[i] = <<packet, i>>
    BY <1>3, WholeIs
  <2>2. sent + m \in Nat /\ sent <= sent + m /\ sent + m <= Len(Whole(packet))
        /\ (sent + m) - sent = m
    BY <2>1, <1>3, <1>5
  <2>3. /\ piece \in ByteSeq /\ Len(piece) = (sent + m) - sent
        /\ \A i \in 1..((sent + m) - sent) : piece[i] = Whole(packet)[sent + i]
    BY <2>1, <2>2, <1>3, Piece
  <2>6. ASSUME NEW k \in 1..m PROVE piece[k] = <<packet, sent + k>>
    <3>1. sent + k \in 1..Bytes(packet)
      BY <1>3, <1>4, <1>5
    <3> HIDE DEF piece
    <3> QED
      BY <3>1, <2>1, <2>2, <2>3
  <2> QED
    BY <2>2, <2>3, <2>6
<1> HIDE DEF piece
<1>7. stream' = stream \o piece
  BY <1>2 DEF piece
<1>8. /\ stream' \in ByteSeq
      /\ OnTheWay \in ByteSeq
      /\ OnTheWay' = OnTheWay \o piece
  <2>1. stream \in ByteSeq /\ incoming \in ByteSeq
    BY <1>3 DEF WireTypes
  <2>2. (incoming \o stream) \o piece = incoming \o (stream \o piece)
    BY <2>1, <1>6, JoinedTwice
  <2>3. stream' \in ByteSeq
    BY <2>1, <1>6, <1>7, ConcatProperties DEF ByteSeq
  <2>4. OnTheWay \in ByteSeq
    BY <1>3, WireTypesConcat
  <2>5. OnTheWay' = incoming \o (stream \o piece)
    BY <1>1, <1>7 DEF OnTheWay
  <2> QED
    BY <2>2, <2>3, <2>4, <2>5 DEF OnTheWay
<1>9. OnTheWay' \in ByteSeq /\ Extended(OnTheWay, OnTheWay', packet, sent, m)
  <2> DEFINE u == OnTheWay
  <2>1. /\ u \o piece \in ByteSeq /\ Len(u \o piece) = Len(u) + m
        /\ \A k \in 1..(Len(u) + m) :
             (u \o piece)[k] = IF k <= Len(u) THEN u[k] ELSE piece[k - Len(u)]
    BY <1>6, <1>8, ConcatProperties DEF ByteSeq
  <2>2. Len(u) \in Nat
    BY <1>8, LenProperties DEF ByteSeq
  <2> HIDE DEF u
  <2>3. \A k \in 1..Len(u) : (u \o piece)[k] = u[k]
    BY <2>1, <2>2, <1>5
  <2>4. ASSUME NEW k \in 1..m PROVE (u \o piece)[Len(u) + k] = <<packet, sent + k>>
    <3>1. /\ Len(u) + k \in 1..(Len(u) + m) /\ ~ (Len(u) + k <= Len(u))
          /\ (Len(u) + k) - Len(u) = k
      BY <2>2, <1>5
    <3> QED
      BY <3>1, <2>1, <1>6
  <2>5. Extended(u, u \o piece, packet, sent, m)
    BY <2>1, <2>3, <2>4 DEF Extended
  <2> QED
    BY <1>8, <2>1, <2>5 DEF u
<1>10. /\ Latest \in Nat /\ Latest <= packet
       /\ Chained(OnTheWay, Latest) /\ EndsWith(OnTheWay, Latest, packet, sent)
  BY <1>1, FloatsLen DEF WireInv
<1>11. Chained(OnTheWay', Latest) /\ EndsWith(OnTheWay', Latest, packet, sent + m)
  <2> DEFINE u == OnTheWay
             v == OnTheWay'
             n == Latest
             p == packet
             s == sent
  <2>1. /\ u \in ByteSeq /\ v \in ByteSeq /\ n \in Nat /\ p \in 1..Len(Floats)
        /\ Floats[p] > 0 /\ n <= p /\ s \in Nat /\ m \in Nat /\ m > 0 /\ s + m <= Bytes(p)
        /\ Chained(u, n) /\ EndsWith(u, n, p, s) /\ Extended(u, v, p, s, m)
    BY <1>3, <1>5, <1>8, <1>9, <1>10
  <2> HIDE DEF u, v, n, p, s
  <2>2. Chained(v, n) /\ EndsWith(v, n, p, s + m)
    BY <2>1, WriteChained
  <2> QED
    BY <2>2 DEF u, v, n, p, s
<1>12. Latest' = Latest /\ PublishedIsSent'
  BY <1>1, SamePublished DEF WireInv
<1>13. WireTypes'
  BY <1>1, <1>2, <1>3, <1>5, <1>8 DEF WireTypes
<1>14. (receiving = "payload" => Len(incoming) >= Header)'
  BY <1>1 DEF WireInv
<1>15. Latest' \in 0..Len(Floats) /\ Latest' <= packet'
  BY <1>1, <1>12 DEF WireInv
<1>16. Chained(OnTheWay', Latest')
  BY <1>11, <1>12
<1>17. EndsWith(OnTheWay', Latest', packet', sent')
  BY <1>11, <1>12, <1>1, <1>2
<1> QED
  BY <1>12, <1>13, <1>14, <1>15, <1>16, <1>17 DEF WireInv, Chained, EndsWith, InPlace, InOrder, NoGap, SentByte, Begins, Start, SentBefore, Bytes

LEMMA SendNextStep == WireInv /\ SendNext => WireInv'
<1> SUFFICES ASSUME WireInv, SendNext PROVE WireInv'
  OBVIOUS
<1> DEFINE u == OnTheWay
           n == Latest
           p == packet
           s == sent
<1>1. /\ packet \in Nat \ {0} /\ packet <= Len(Floats)
      /\ sent = Bytes(packet) \/ Floats[packet] = 0
      /\ packet' = packet + 1 /\ sent' = 0
      /\ UNCHANGED <<up, stream, incoming, receiving, published>>
  BY DEF SendNext, receiver, WireInv, WireTypes
<1>2. /\ p \in 1..Len(Floats)
      /\ s = Bytes(p) \/ Floats[p] = 0
      /\ packet' = p + 1 /\ sent' = 0
  BY <1>1, FloatsLen
<1>3. OnTheWay' = u /\ WireTypes'
  BY <1>1 DEF OnTheWay, WireInv, WireTypes
<1>4. Latest' = n /\ PublishedIsSent' /\ n \in Nat
  BY <1>1, SamePublished, FloatsLen DEF WireInv
<1>5. Chained(u, n)
  BY DEF WireInv
<1>6. u \in ByteSeq /\ s \in Nat
  BY WireTypesConcat DEF WireInv, WireTypes
<1>7. up => n <= p /\ EndsWith(u, n, p, s)
  BY DEF WireInv
<1> HIDE DEF u, n, p, s
<1>8. ASSUME n <= p, EndsWith(u, n, p, s)
      PROVE  n <= p + 1 /\ EndsWith(u, n, p + 1, 0)
  <2>1. /\ DOMAIN u = 1..Len(u) /\ Len(u) \in Nat
        /\ \A k \in DOMAIN u : u[k] \in Nat \X Nat
    BY <1>6, LenProperties, ElementOfSeq DEF ByteSeq
  <2>2. p \in Nat /\ Bytes(p) \in Nat /\ Bytes(p) > 0
    BY <1>2, FloatsLen, BytesPositive
  <2>3. ASSUME NEW k \in DOMAIN u
        PROVE  u[k][1] < p + 1 /\ Start(u, k) + Bytes(u[k][1]) <= Len(u)
    <3>1. SentByte(u[k]) /\ u[k] \in Nat \X Nat
      BY <1>5, <2>1 DEF Chained, InPlace
    <3>2. u[k][1] \in Nat
      BY <3>1
    <3>3. \/ u[k][1] < p /\ Start(u, k) + Bytes(u[k][1]) <= Len(u)
          \/ u[k][1] = p /\ Start(u, k) = Len(u) - s
      BY <1>8 DEF EndsWith
    <3>4. CASE u[k][1] < p /\ Start(u, k) + Bytes(u[k][1]) <= Len(u)
      BY <3>2, <3>4, <2>2
    <3>5. CASE u[k][1] = p /\ Start(u, k) = Len(u) - s
      <4>1. s = Bytes(p)
        BY <3>1, <3>5, <1>2 DEF SentByte
      <4> QED
        BY <4>1, <3>5, <2>1, <2>2
    <3> QED
      BY <3>3, <3>4, <3>5
  <2>4. ASSUME NEW q \in SentBefore(p + 1), ~ (q <= n) PROVE Begins(u, q)
    <3>1. q \in Nat /\ q >= 1 /\ q <= p /\ Floats[q] > 0
      BY <2>2 DEF SentBefore
    <3>2. CASE q = p
      <4>1. s = Bytes(p) /\ n # p
        BY <3>1, <3>2, <1>2, <1>4, <2>4
      <4>2. s <= Len(u) /\ \A i \in 1..s : u[Len(u) - s + i] = <<p, i>>
        BY <4>1, <2>2, <1>8 DEF EndsWith
      <4>3. Len(u) - s + 1 \in DOMAIN u /\ u[Len(u) - s + 1] = <<p, 1>>
        BY <4>1, <4>2, <2>1, <2>2
      <4> QED
        BY <3>2, <4>3 DEF Begins
    <3>3. CASE q # p
      <4>1. q \in SentBefore(p)
        BY <3>1, <3>3, <2>2 DEF SentBefore
      <4> QED
        BY <4>1, <2>4, <1>8 DEF EndsWith
    <3> QED
      BY <3>2, <3>3
  <2>5. n <= p + 1 /\ n # p + 1
    BY <1>4, <1>8, <2>2
  <2>6. ~ (0 > 0)
    OBVIOUS
  <2> QED
    BY <2>3, <2>4, <2>5, <2>6 DEF EndsWith
<1>9. up' => Latest' <= packet' /\ EndsWith(OnTheWay', Latest', packet', sent')
  BY <1>1, <1>2, <1>3, <1>4, <1>7, <1>8
<1>10. Chained(OnTheWay', Latest')
  BY <1>3, <1>4, <1>5
<1>11. /\ Latest' \in 0..Len(Floats)
       /\ (receiving = "payload" => Len(incoming) >= Header)'
  BY <1>1, <1>4 DEF WireInv, n
<1> QED
  BY <1>3, <1>4, <1>9, <1>10, <1>11 DEF WireInv, Chained, EndsWith, InPlace, InOrder, NoGap, SentByte, Begins, Start, SentBefore, Bytes

\* With Transient FALSE, a write fails only on a connection that is down.
LEMMA FailStep ==
  ASSUME Transient = FALSE
  PROVE  WireInv /\ (Fallback \/ GiveUp) => WireInv'
<1> SUFFICES ASSUME WireInv, Fallback \/ GiveUp PROVE WireInv'
  OBVIOUS
<1>1. /\ ~ up' /\ up' \in BOOLEAN
      /\ UNCHANGED <<stream, packet, incoming, receiving, published>>
      /\ sent' = 0 \/ sent' = sent
  <2>1. ~ up /\ up \in BOOLEAN
    BY DEF Fallback, GiveUp, Failing, WireInv, WireTypes
  <2>2. CASE Fallback
    BY <2>1, <2>2 DEF Fallback, receiver
  <2>3. CASE GiveUp
    BY <2>1, <2>3 DEF GiveUp, receiver
  <2> QED
    BY <2>2, <2>3
<1>2. WireTypes' /\ OnTheWay' = OnTheWay /\ OnTheWay \in ByteSeq
  BY <1>1, WireTypesConcat DEF WireInv, WireTypes, OnTheWay
<1>3. Len(OnTheWay) <= Len(OnTheWay)
  BY <1>2, LenProperties DEF ByteSeq
<1> QED
  BY <1>1, <1>2, <1>3, DownWire

LEMMA BreakStep == WireInv /\ Break => WireInv'
<1> SUFFICES ASSUME WireInv, Break PROVE WireInv'
  OBVIOUS
<1>1. ~ up' /\ up' = FALSE /\ UNCHANGED <<packet, sent, incoming, receiving, published>>
  BY DEF Break, receiver
<1>2. PICK n \in 0..Len(stream) : stream' = SubSeq(stream, 1, n)
  BY DEF Break
<1>3. WireTypes /\ stream \in ByteSeq
  BY DEF WireInv, WireTypes
<1>4. n \in Nat /\ n <= Len(stream) /\ 0 + 1 = 1 /\ n - 0 = n /\ \A i \in 1..n : 0 + i = i
  BY <1>2, <1>3, LenProperties DEF ByteSeq
<1>5. /\ stream' \in ByteSeq /\ Len(stream') = n
      /\ \A i \in 1..n : stream'[i] = stream[i]
  <2>1. /\ SubSeq(stream, 0 + 1, n) \in ByteSeq
        /\ Len(SubSeq(stream, 0 + 1, n)) = n - 0
        /\ \A i \in 1..(n - 0) : SubSeq(stream, 0 + 1, n)[i] = stream[0 + i]
    BY <1>3, <1>4, Piece
  <2> QED
    BY <2>1, <1>2, <1>4
<1>6. WireTypes'
  BY <1>1, <1>3, <1>5 DEF WireTypes
<1>7. /\ OnTheWay \in ByteSeq
      /\ Len(incoming) \in Nat /\ Len(stream) \in Nat
      /\ Len(OnTheWay) = Len(incoming) + Len(stream)
      /\ \A k \in 1..Len(incoming) : OnTheWay[k] = incoming[k]
      /\ \A k \in 1..Len(stream) : OnTheWay[Len(incoming) + k] = stream[k]
  BY <1>3, WireTypesConcat
<1>8. /\ OnTheWay' \in ByteSeq
      /\ Len(OnTheWay') = Len(incoming) + n
      /\ \A k \in 1..Len(incoming) : OnTheWay'[k] = incoming[k]
      /\ \A k \in 1..n : OnTheWay'[Len(incoming) + k] = stream'[k]
  <2> DEFINE y == stream'
  <2>1. incoming \in ByteSeq /\ y \in ByteSeq /\ Len(y) = n
    BY <1>3, <1>5 DEF WireTypes
  <2>2. OnTheWay' = incoming \o y
    BY <1>1 DEF OnTheWay
  <2> HIDE DEF y
  <2>3. /\ incoming \o y \in ByteSeq /\ Len(incoming \o y) = Len(incoming) + n
        /\ \A k \in 1..Len(incoming) : (incoming \o y)[k] = incoming[k]
        /\ \A k \in 1..n : (incoming \o y)[Len(incoming) + k] = y[k]
    BY <2>1, Joined
  <2> QED
    BY <2>2, <2>3 DEF y
<1>9. ASSUME NEW k \in DOMAIN OnTheWay' PROVE OnTheWay'[k] = OnTheWay[k]
  <2>1. k \in 1..(Len(incoming) + n)
    BY <1>8, LenProperties DEF ByteSeq
  <2>2. CASE k <= Len(incoming)
    <3>1. k \in 1..Len(incoming)
      BY <2>1, <2>2, <1>7
    <3> QED
      BY <3>1, <1>7, <1>8
  <2>3. CASE k > Len(incoming)
    <3> DEFINE i == k - Len(incoming)
    <3>1. i \in 1..n /\ i \in 1..Len(stream) /\ Len(incoming) + i = k
      BY <2>1, <2>3, <1>4, <1>7
    <3> HIDE DEF i
    <3> QED
      BY <3>1, <1>5, <1>7, <1>8
  <2> QED
    BY <2>1, <2>2, <2>3, <1>4, <1>7
<1>10. Len(OnTheWay') <= Len(OnTheWay)
  BY <1>4, <1>7, <1>8
<1> QED
  BY <1>1, <1>6, <1>8, <1>9, <1>10, DownWire

LEMMA RecvAllStep == WireInv /\ RecvAll => WireInv'
<1> SUFFICES ASSUME WireInv, RecvAll PROVE WireInv'
  OBVIOUS
<1>1. UNCHANGED <<up, packet, sent, receiving, published>>
  BY DEF RecvAll
<1>2. PICK k \in 1..Len(stream) :
        /\ incoming' = incoming \o SubSeq(stream, 1, k)
        /\ stream' = SubSeq(stream, k + 1, Len(stream))
  BY DEF RecvAll
<1>3. WireTypes /\ stream \in ByteSeq /\ incoming \in ByteSeq
  BY DEF WireInv, WireTypes
<1>4. k \in Nat /\ k <= Len(stream) /\ Len(stream) \in Nat /\ Len(incoming) \in Nat
  BY <1>2, <1>3, LenProperties DEF ByteSeq
<1> DEFINE x == SubSeq(stream, 1, k)
           y == SubSeq(stream, k + 1, Len(stream))
<1>5. /\ x \in ByteSeq /\ Len(x) = k
      /\ \A i \in 1..k : x[i] = stream[i]
  <2>1. 0 + 1 = 1 /\ k - 0 = k /\ 0 <= k /\ \A i \in 1..k : 0 + i = i
    BY <1>4
  <2>2. /\ SubSeq(stream, 0 + 1, k) \in ByteSeq
        /\ Len(SubSeq(stream, 0 + 1, k)) = k - 0
        /\ \A i \in 1..(k - 0) : SubSeq(stream, 0 + 1, k)[i] = stream[0 + i]
    BY <1>3, <1>4, <2>1, Piece
  <2> QED
    BY <2>1, <2>2
<1>6. /\ y \in ByteSeq /\ Len(y) = Len(stream) - k
      /\ \A i \in 1..(Len(stream) - k) : y[i] = stream[k + i]
  <2>1. Len(stream) <= Len(stream)
    BY <1>4
  <2> QED
    BY <1>3, <1>4, <2>1, Piece
<1>7. incoming' = incoming \o x /\ stream' = y
  BY <1>2
<1> HIDE DEF x, y
<1>8. x \o y = stream
  <2>1. /\ x \o y \in ByteSeq /\ Len(x \o y) = Len(x) + Len(y)
        /\ \A i \in 1..Len(x) : (x \o y)[i] = x[i]
        /\ \A i \in 1..Len(y) : (x \o y)[Len(x) + i] = y[i]
    BY <1>5, <1>6, Joined
  <2>2. Len(x \o y) = Len(stream)
    BY <2>1, <1>4, <1>5, <1>6
  <2>3. ASSUME NEW i \in 1..Len(stream) PROVE (x \o y)[i] = stream[i]
    <3>1. CASE i <= k
      <4>1. i \in 1..k
        BY <3>1, <1>4
      <4> QED
        BY <4>1, <2>1, <1>5
    <3>2. CASE i > k
      <4> DEFINE j == i - k
      <4>1. j \in 1..(Len(stream) - k) /\ k + j = i
        BY <3>2, <1>4
      <4> HIDE DEF j
      <4> QED
        BY <4>1, <2>1, <1>5, <1>6
    <3>3. i <= k \/ i > k
      BY <1>4
    <3> QED
      BY <3>1, <3>2, <3>3
  <2> QED
    BY <2>1, <2>2, <2>3, <1>3, SeqEqual DEF ByteSeq
<1>9. incoming \o x \in ByteSeq /\ Len(incoming \o x) = Len(incoming) + k
  BY <1>3, <1>5, Joined
<1>10. OnTheWay' = OnTheWay
  <2>1. incoming \in ByteSeq /\ x \in ByteSeq /\ y \in ByteSeq
    BY <1>3, <1>5, <1>6
  <2>2. (incoming \o x) \o y = incoming \o (x \o y)
    BY <2>1, JoinedTwice
  <2> QED
    BY <2>2, <1>7, <1>8 DEF OnTheWay
<1>11. WireTypes'
  BY <1>1, <1>3, <1>6, <1>7, <1>9 DEF WireTypes
<1>12. (receiving = "payload" => Len(incoming) >= Header)'
  BY <1>1, <1>4, <1>7, <1>9, WireAssumption DEF WireInv
<1> QED
  BY <1>1, <1>10, <1>11, <1>12, SameWire

LEMMA HeaderReceivedStep == WireInv /\ HeaderReceived => WireInv'
<1> SUFFICES ASSUME WireInv, HeaderReceived PROVE WireInv'
  OBVIOUS
<1>1. /\ UNCHANGED <<up, stream, packet, sent, incoming, published>>
      /\ Len(incoming) = Header
  BY DEF HeaderReceived
<1>2. WireTypes' /\ OnTheWay' = OnTheWay
  BY <1>1 DEF WireInv, WireTypes, OnTheWay
<1>3. (receiving = "payload" => Len(incoming) >= Header)'
  BY <1>1, WireAssumption
<1> QED
  BY <1>1, <1>2, <1>3, SameWire

LEMMA PayloadReceivedStep == WireInv /\ PayloadReceived => WireInv'
<1> SUFFICES ASSUME WireInv, PayloadReceived PROVE WireInv'
  OBVIOUS
<1> DEFINE u == OnTheWay
           v == stream
           n == Latest
           p == incoming[1][1]
<1>1. /\ receiving = "payload" /\ Len(incoming) = Bytes(p)
      /\ published' = Append(published, incoming)
      /\ incoming' = <<>> /\ receiving' = "header"
      /\ UNCHANGED <<up, stream, packet, sent>>
  BY DEF PayloadReceived, Wanted
<1>2. /\ WireTypes /\ incoming \in ByteSeq /\ v \in ByteSeq /\ published \in Seq(ByteSeq)
      /\ packet \in Nat /\ sent \in Nat
  BY DEF WireInv, WireTypes
<1>3. /\ u \in ByteSeq /\ DOMAIN u = 1..Len(u)
      /\ Len(incoming) \in Nat /\ Len(v) \in Nat
      /\ Len(u) = Len(incoming) + Len(v)
      /\ \A k \in 1..Len(incoming) : u[k] = incoming[k]
      /\ \A k \in 1..Len(v) : u[Len(incoming) + k] = v[k]
  BY <1>2, WireTypesConcat, LenProperties DEF ByteSeq
<1>4. 1 \in 1..Len(incoming) /\ 1 \in DOMAIN u
  BY <1>1, <1>3, WireAssumption DEF WireInv
<1>5. Chained(u, n) /\ n \in Nat /\ PublishedIsSent
  BY FloatsLen DEF WireInv
<1>6. up => n <= packet /\ EndsWith(u, n, packet, sent)
  BY DEF WireInv
<1>7. u[1] = incoming[1] /\ u[1] \in Nat \X Nat
  BY <1>3, <1>4, ElementOfSeq DEF ByteSeq
<1>8. /\ SentByte(u[1]) /\ Start(u, 1) >= 0
      /\ \A i \in 1..Bytes(u[1][1]) :
           Start(u, 1) + i <= Len(u) => u[Start(u, 1) + i] = <<u[1][1], i>>
  BY <1>4, <1>5 DEF Chained, InPlace
<1>9. p \in 1..Len(Floats) /\ Floats[p] > 0 /\ Bytes(p) \in Nat
  BY <1>7, <1>8, BytesPositive DEF SentByte
<1> HIDE DEF u, v, n, p
<1>10. u[1][1] = p
  BY <1>7 DEF p
<1>11. u[1][2] = 1 /\ Start(u, 1) = 0
  BY <1>7, <1>8, <1>9, <1>10 DEF SentByte, Start
<1>12. u[1] = <<p, 1>>
  BY <1>7, <1>10, <1>11
<1>13. incoming = Whole(p)
  <2>1. /\ Whole(p) \in ByteSeq /\ Len(Whole(p)) = Bytes(p)
        /\ \A i \in 1..Bytes(p) : Whole(p)[i] = <<p, i>>
    BY <1>9, WholeIs
  <2>2. ASSUME NEW i \in 1..Len(incoming) PROVE incoming[i] = Whole(p)[i]
    <3>1. i \in 1..Bytes(u[1][1]) /\ Start(u, 1) + i = i /\ i <= Len(u)
      BY <1>1, <1>3, <1>9, <1>10, <1>11
    <3>2. u[i] = <<p, i>>
      BY <3>1, <1>8, <1>10
    <3>3. i \in 1..Bytes(p)
      BY <3>1, <1>10
    <3> QED
      BY <3>2, <3>3, <2>1, <1>3
  <2> QED
    BY <2>1, <2>2, <1>1, <1>2, SeqEqual DEF ByteSeq
<1>14. After(u, v, p)
  <2>1. \A k \in 1..Len(v) : v[k] = u[Bytes(p) + k]
    BY <1>1, <1>3
  <2>2. Len(u) = Bytes(p) + Len(v)
    BY <1>1, <1>3
  <2> QED
    BY <2>1, <2>2, <1>12 DEF After
<1>15. n < p
  BY <1>4, <1>5, <1>10 DEF Chained, NoGap
<1>16. PublishedIsSent' /\ Latest' = p /\ published' \in Seq(ByteSeq)
  <2>1. /\ Chained(u, Latest) /\ Latest < p /\ published' = Append(published, Whole(p))
        /\ Floats[p] > 0 /\ u[1] = <<p, 1>> /\ 1 \in DOMAIN u /\ PublishedIsSent
        /\ p \in 1..Len(Floats) /\ u \in ByteSeq /\ published \in Seq(ByteSeq)
    BY <1>1, <1>2, <1>3, <1>4, <1>5, <1>9, <1>12, <1>13, <1>15 DEF n
  <2> QED
    BY <2>1, PublishedNext
<1>17. Chained(v, p)
  BY <1>2, <1>3, <1>5, <1>9, <1>14, DropChained DEF v
<1>18. up => p <= packet /\ EndsWith(v, p, packet, sent)
  <2> SUFFICES ASSUME up PROVE p <= packet /\ EndsWith(v, p, packet, sent)
    OBVIOUS
  <2> DEFINE r == packet
             s == sent
  <2>1. r \in Nat /\ s \in Nat /\ EndsWith(u, n, r, s) /\ v \in ByteSeq
    BY <1>2, <1>6 DEF v
  <2> HIDE DEF r, s
  <2>2. p <= r /\ EndsWith(v, p, r, s)
    BY <2>1, <1>3, <1>5, <1>9, <1>14, DropEnds
  <2> QED
    BY <2>2 DEF r, s
<1>19. OnTheWay' = v
  <2>1. <<>> \o stream = stream
    BY <1>2, ConcatEmptySeq DEF ByteSeq, v
  <2> QED
    BY <2>1, <1>1 DEF OnTheWay, v
<1>20. WireTypes'
  <2>1. incoming' \in ByteSeq
    BY <1>1, EmptySeq DEF ByteSeq
  <2> QED
    BY <2>1, <1>1, <1>2, <1>16 DEF WireTypes
<1>21. Chained(OnTheWay', Latest')
  BY <1>16, <1>17, <1>19
<1>22. up' => Latest' <= packet' /\ EndsWith(OnTheWay', Latest', packet', sent')
  BY <1>1, <1>16, <1>18, <1>19
<1>23. Latest' \in 0..Len(Floats) /\ receiving' # "payload"
  BY <1>1, <1>9, <1>16, FloatsLen
<1> QED
  BY <1>16, <1>20, <1>21, <1>22, <1>23 DEF WireInv, Chained, EndsWith, InPlace, InOrder, NoGap, SentByte, Begins, Start, SentBefore, Bytes

LEMMA QuietWireStep == WireInv /\ (EndOfStream \/ Upload \/ UNCHANGED wireVars) => WireInv'
<1> SUFFICES ASSUME WireInv, EndOfStream \/ Upload \/ UNCHANGED wireVars PROVE WireInv'
  OBVIOUS
<1>1. /\ UNCHANGED <<up, stream, packet, sent, incoming, published>>
      /\ receiving' = receiving \/ receiving' = "closed"
  BY DEF EndOfStream, Upload, wireVars
<1>2. WireTypes' /\ OnTheWay' = OnTheWay
  BY <1>1 DEF WireInv, WireTypes, OnTheWay
<1>3. (receiving = "payload" => Len(incoming) >= Header)'
  BY <1>1 DEF WireInv
<1> QED
  BY <1>1, <1>2, <1>3, SameWire

\* As long as a write fails only on a connection that is down, the receiver
\* publishes the packets of the sender and nothing else, whatever their
\* sizes, however writes and reads cut them, and wherever the connection
\* breaks.
THEOREM StreamKeepsPackets ==
  ASSUME Transient = FALSE
  PROVE  WireSpec => []PublishedIsSent
<1>1. WireInv /\ [WireNext]_wireVars => WireInv'
  BY WriteStep, SendNextStep, FailStep, BreakStep, RecvAllStep, HeaderReceivedStep,
     PayloadReceivedStep, QuietWireStep DEF WireNext, Send, Take
<1>2. WireInv => PublishedIsSent
  BY DEF WireInv
<1> QED
  BY <1>1, <1>2, WireInitInv, PTL DEF WireSpec
=============================================================================
