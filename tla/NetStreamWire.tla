---------------------------- MODULE NetStreamWire ----------------------------
(***************************************************************************)
(* Packets on the byte stream between the NetStream sender and receiver:   *)
(* send_scatter() with its partial writes, the fallback send_linear(), and *)
(* recv_all() for a header and then for the payload it announces.          *)
(*                                                                         *)
(* A packet is its number, and a byte <<p, i>> the i-th of packet p: its   *)
(* Header bytes first, then its payload.  The stream keeps the bytes in    *)
(* order and loses only a tail.                                            *)
(***************************************************************************)
EXTENDS Naturals, Sequences

CONSTANTS Header,      \* bytes of a header
          Floats,      \* the floats of each packet, a sequence
          FloatBytes,  \* bytes of a float
          InFlight,    \* bound: bytes the stream holds before a write blocks
          Transient,   \* whether a write can fail on a connection that stays up
          Gpu          \* the variant of the receiver: a GPU buffer or a value

ASSUME WireAssumption ==
  /\ Header \in Nat \ {0} /\ FloatBytes \in Nat \ {0} /\ InFlight \in Nat \ {0}
  /\ Floats \in Seq(Nat)
  /\ Transient \in BOOLEAN /\ Gpu \in BOOLEAN

VARIABLES
  up,         \* the connection
  stream,     \* bytes written and not received
  packet,     \* the packet being sent
  sent,       \* how many of its bytes this attempt has written
  sending,    \* scatter, linear, or closed when the sender gave up
  incoming,   \* bytes of the packet the receiver is in
  receiving,  \* header, payload, or closed when the receiver gave up
  published,  \* history: what the receiver published, in order
  uploaded    \* the receiver's output: its floats and the bytes handed over

wireVars == <<up, stream, packet, sent, sending, incoming, receiving, published, uploaded>>

Bytes(p) == Header + FloatBytes * Floats[p]
Whole(p) == [i \in 1..Bytes(p) |-> <<p, i>>]

WireInit ==
  /\ up = TRUE
  /\ stream = <<>>
  /\ packet = 1
  /\ sent = 0
  /\ sending = "scatter"
  /\ incoming = <<>>
  /\ receiving = "header"
  /\ published = <<>>
  /\ uploaded = [floats |-> 0, bytes |-> 0]

receiver == <<incoming, receiving, published, uploaded>>

-----------------------------------------------------------------------------
(* The sender                                                              *)

\* A packet with a payload; an empty one returns true at once.
Pending == packet <= Len(Floats) /\ Floats[packet] > 0

\* One writev() or send(): any number of the remaining bytes.
Write ==
  /\ up /\ sending # "closed"
  /\ Pending
  /\ \E k \in 1..Bytes(packet) - sent :
       /\ Len(stream) + k <= InFlight
       /\ stream' = stream \o SubSeq(Whole(packet), sent + 1, sent + k)
       /\ sent' = sent + k
  /\ UNCHANGED <<up, packet, sending, receiver>>

\* The packet is out, or there was nothing to send.
SendNext ==
  /\ sending # "closed"
  /\ packet <= Len(Floats)
  /\ \/ sent = Bytes(packet)
     \/ Floats[packet] = 0
  /\ packet' = packet + 1
  /\ sent' = 0
  /\ sending' = "scatter"
  /\ UNCHANGED <<up, stream, receiver>>

Failing == Pending /\ sent < Bytes(packet) /\ (Transient \/ ~up)

\* send_scatter() fails: header and payload are sent again from one buffer.
Fallback ==
  /\ sending = "scatter"
  /\ Failing
  /\ sending' = "linear"
  /\ sent' = 0
  /\ UNCHANGED <<up, stream, packet, receiver>>

\* send_linear() fails too: the sender's thread closes its socket.
GiveUp ==
  /\ sending = "linear"
  /\ Failing
  /\ sending' = "closed"
  /\ up' = FALSE
  /\ UNCHANGED <<stream, packet, sent, receiver>>

-----------------------------------------------------------------------------
(* The stream                                                              *)

\* The connection breaks and what was in flight may be lost, from any byte on.
Break ==
  /\ up
  /\ up' = FALSE
  /\ \E n \in 0..Len(stream) : stream' = SubSeq(stream, 1, n)
  /\ UNCHANGED <<packet, sent, sending, receiver>>

-----------------------------------------------------------------------------
(* The receiver                                                            *)

Wanted == IF receiving = "header" THEN Header ELSE Bytes(incoming[1][1])

\* One recv() of recv_all(): any number of the bytes still wanted.
RecvAll ==
  /\ receiving # "closed"
  /\ \E k \in 1..Len(stream) :
       /\ Len(incoming) + k <= Wanted
       /\ incoming' = incoming \o SubSeq(stream, 1, k)
       /\ stream' = SubSeq(stream, k + 1, Len(stream))
  /\ UNCHANGED <<up, packet, sent, sending, receiving, published, uploaded>>

\* A mutant: the elements of a small packet are rounded down to none.
IsValidRounded(header) ==
  \E p \in 1..Len(Floats) : Floats[p] > 1 /\ header = SubSeq(Whole(p), 1, Header)

\* The header is there: magic and version must be, and the sizes not zero.
IsValid(header) ==
  \E p \in 1..Len(Floats) : Floats[p] > 0 /\ header = SubSeq(Whole(p), 1, Header)

HeaderReceived ==
  /\ receiving = "header"
  /\ Len(incoming) = Header
  /\ receiving' = IF IsValid(incoming) THEN "payload" ELSE "closed"
  /\ UNCHANGED <<up, stream, packet, sent, sending, incoming, published, uploaded>>

\* A mutant: a payload that came in pieces is published with its first piece.
PublishPartial ==
  /\ receiving = "payload"
  /\ Len(incoming) > Header
  /\ published' = Append(published, incoming)
  /\ incoming' = <<>>
  /\ receiving' = "header"
  /\ UNCHANGED <<up, stream, packet, sent, sending, uploaded>>

\* The payload is there and published, whatever it is.
PayloadReceived ==
  /\ receiving = "payload"
  /\ Len(incoming) = Wanted
  /\ published' = Append(published, incoming)
  /\ incoming' = <<>>
  /\ receiving' = "header"
  /\ UNCHANGED <<up, stream, packet, sent, sending, uploaded>>

\* End of stream: what was received of a packet is dropped.
EndOfStream ==
  /\ receiving # "closed"
  /\ ~up /\ stream = <<>>
  /\ Len(incoming) < Wanted
  /\ receiving' = "closed"
  /\ UNCHANGED <<up, stream, packet, sent, sending, incoming, published, uploaded>>

\* operator() with the last packet in its read buffer: the value is assigned,
\* a GPU buffer is uploaded with the number of floats as its size.
Upload ==
  /\ published # <<>>
  /\ LET floats == (Len(published[Len(published)]) - Header) \div FloatBytes
     IN uploaded' = [floats |-> floats, bytes |-> IF Gpu THEN floats ELSE floats * FloatBytes]
  /\ UNCHANGED <<up, stream, packet, sent, sending, incoming, receiving, published>>

-----------------------------------------------------------------------------
Send == Write \/ SendNext \/ Fallback \/ GiveUp
Take == RecvAll \/ HeaderReceived \/ PayloadReceived \/ EndOfStream \/ Upload

WireNext == Send \/ Break \/ Take

WireSpec == WireInit /\ [][WireNext]_wireVars
FairWireSpec == WireSpec /\ WF_wireVars(Send) /\ WF_wireVars(Take)

-----------------------------------------------------------------------------
(* Properties                                                              *)

\* The packets before p that are sent at all.
SentBefore(p) == {q \in 1..(p - 1) : Floats[q] > 0}

\* What the receiver publishes are the packets of the sender, each one whole
\* and intact, in order, none twice and none left out: the fallback does not
\* desynchronise the stream.  Refuted when Transient is TRUE.
PublishedIsSent ==
  \A n \in DOMAIN published : \E p \in 1..Len(Floats) :
    /\ Floats[p] > 0
    /\ published[n] = Whole(p)
    /\ {published[m] : m \in 1..(n - 1)} = {Whole(q) : q \in SentBefore(p)}

\* While the connection stays up every packet arrives.
AllArrive ==
  <>(~up \/ \A p \in SentBefore(Len(Floats) + 1) :
              \E n \in DOMAIN published : published[n] = Whole(p))

\* void upload(const char* data, int64_t offset, int64_t bytesize)
\* (halp/buffer.hpp:29): the output is handed all the bytes of the floats it
\* reports.  Refuted when Gpu is TRUE.
OutputWhole == uploaded.bytes = uploaded.floats * FloatBytes
=============================================================================
