-------------------------- MODULE NetStreamReceiver --------------------------
(***************************************************************************)
(* The receiving side of examples/Advanced/NetStream: operator() starts    *)
(* and stops a thread that listens, accepts one client at a time, and puts *)
(* every packet it receives whole into the triple buffer, from which the   *)
(* next operator() copies it to the output.  The triple buffer appears as  *)
(* the mailbox that TripleBuffer implements.                               *)
(*                                                                         *)
(* A packet is its number.  Loads and stores of the atomics, and the calls *)
(* on a socket that the other thread may touch, are steps of their own.    *)
(***************************************************************************)
EXTENDS Naturals

CONSTANTS MaxThreads,  \* bound: how many threads are started
          MaxPackets,  \* bound: how many packets the peers send
          Throws       \* whether the resize for a payload may fail to allocate

ASSUME BoundsAssumption ==
  MaxThreads \in Nat /\ MaxPackets \in Nat /\ Throws \in BOOLEAN

VARIABLES
  listen,                 \* inputs.listen, the toggle
  m_running, m_connected, \* the atomics
  m_listen_socket, m_client_socket,   \* none, open or shut
  client,                 \* the Socket the accept loop holds: none or open
  host,                   \* where the host thread is in stop_listening()
  gone,                   \* the destructor has begun
  thread,                 \* where m_thread is; "none" when it is not joinable
  started,                \* how many threads were started
  threw,                  \* history: an exception ended a thread
  terminated,             \* std::terminate was called
  packets,                \* packets received whole
  unread,                 \* the mailbox: 0, or the packet nobody consumed yet
  output                  \* outputs.data: 0, or the packet it shows

hostVars == <<listen, host, gone, started, output>>
sockets == <<m_listen_socket, m_client_socket, client>>
vars == <<hostVars, m_running, m_connected, sockets, thread, threw, terminated, packets, unread>>

Init ==
  /\ listen = FALSE
  /\ m_running = FALSE /\ m_connected = FALSE
  /\ m_listen_socket = "none" /\ m_client_socket = "none" /\ client = "none"
  /\ host = "idle"
  /\ gone = FALSE
  /\ thread = "none"
  /\ started = 0
  /\ threw = FALSE /\ terminated = FALSE
  /\ packets = 0
  /\ unread = 0
  /\ output = 0

Alive == ~terminated
Calling == Alive /\ host = "idle" /\ ~gone     \* the host may make a call

-----------------------------------------------------------------------------
(* The host thread                                                         *)

Toggle ==
  /\ Calling
  /\ listen' = ~listen
  /\ UNCHANGED <<m_running, m_connected, sockets, host, gone, thread, started,
                 threw, terminated, packets, unread, output>>

\* start_listening(): assigning to a joinable std::thread is std::terminate.
StartListening ==
  /\ Calling
  /\ listen /\ ~m_running
  /\ started < MaxThreads
  /\ m_running' = TRUE
  /\ IF thread = "none"
     THEN thread' = "create" /\ UNCHANGED terminated
     ELSE terminated' = TRUE /\ UNCHANGED thread
  /\ started' = started + 1
  /\ UNCHANGED <<listen, host, gone, output, m_connected, sockets, threw, packets, unread>>

\* operator() calls stop_listening(), or the destructor does.
StopListening ==
  /\ Calling
  /\ \/ ~listen /\ m_running /\ UNCHANGED gone
     \/ gone' = TRUE
  /\ m_running' = FALSE
  /\ host' = IF thread = "none" THEN "idle" ELSE "shut_listen"
  /\ UNCHANGED <<listen, started, output, m_connected, sockets, thread, threw, terminated,
                 packets, unread>>

Shut(socket) == IF socket = "open" THEN "shut" ELSE socket

ShutListen ==
  /\ Alive /\ host = "shut_listen"
  /\ m_listen_socket' = Shut(m_listen_socket)
  /\ host' = "shut_client"
  /\ UNCHANGED <<listen, gone, started, output, m_running, m_connected,
                 m_client_socket, client, thread, threw, terminated, packets, unread>>

\* A mutant: stop_listening() forgets the client.
ShutNoClient ==
  /\ Alive /\ host = "shut_client"
  /\ host' = "join"
  /\ UNCHANGED <<listen, gone, started, output, m_running, m_connected, sockets,
                 thread, threw, terminated, packets, unread>>

ShutClient ==
  /\ Alive /\ host = "shut_client"
  /\ m_client_socket' = Shut(m_client_socket)
  /\ host' = "join"
  /\ UNCHANGED <<listen, gone, started, output, m_running, m_connected,
                 m_listen_socket, client, thread, threw, terminated, packets, unread>>

Join ==
  /\ Alive /\ host = "join"
  /\ thread = "exited"
  /\ thread' = "none"
  /\ m_listen_socket' = "none"
  /\ m_client_socket' = "none"
  /\ host' = "idle"
  /\ UNCHANGED <<listen, gone, started, output, m_running, m_connected, client,
                 threw, terminated, packets, unread>>

\* The consume() of operator(), when it returns true, and the copy out.
Output ==
  /\ Calling
  /\ unread # 0
  /\ output' = unread
  /\ unread' = 0
  /\ UNCHANGED <<listen, host, gone, started, m_running, m_connected, sockets,
                 thread, threw, terminated, packets>>

-----------------------------------------------------------------------------
(* The receiver thread                                                     *)

Quiet == UNCHANGED <<hostVars, threw, terminated>>

\* create_tcp_socket(), then bind_and_listen(): a failure returns and leaves
\* m_running set, so that only the toggle starts another thread.
CreateSocket ==
  /\ Alive /\ thread = "create"
  /\ \/ m_listen_socket' = "open" /\ thread' = "bind"
     \/ m_listen_socket' = "none" /\ thread' = "exited"
  /\ Quiet /\ UNCHANGED <<m_running, m_connected, m_client_socket, client, packets, unread>>

\* A mutant: a failure clears m_running, so that the next tick starts again.
BindStops ==
  /\ Alive /\ thread = "bind"
  /\ thread' \in {"outer", "down"}
  /\ Quiet /\ UNCHANGED <<m_running, m_connected, sockets, packets, unread>>

Bind ==
  /\ Alive /\ thread = "bind"
  /\ thread' \in {"outer", "exited"}
  /\ Quiet /\ UNCHANGED <<m_running, m_connected, sockets, packets, unread>>

\* The outer loop: while running, wait for a client.
Outer ==
  /\ Alive /\ thread = "outer"
  /\ thread' = IF m_running THEN "accept" ELSE "down"
  /\ client' = "none"
  /\ Quiet /\ UNCHANGED <<m_running, m_connected, m_listen_socket, m_client_socket,
                          packets, unread>>

\* The accept loop gives up when m_running is clear.
StopAccepting ==
  /\ Alive /\ thread = "accept"
  /\ ~m_running
  /\ thread' = "down"
  /\ Quiet /\ UNCHANGED <<m_running, m_connected, sockets, packets, unread>>

\* The loop saw m_running set, and a client came.  Without one it sleeps and
\* looks again (a stuttering step).
Accept ==
  /\ Alive /\ thread = "accept"
  /\ m_running /\ m_listen_socket = "open"
  /\ client' = "open"
  /\ thread' = "adopt"
  /\ Quiet /\ UNCHANGED <<m_running, m_connected, m_listen_socket, m_client_socket,
                          packets, unread>>

Adopt ==
  /\ Alive /\ thread = "adopt"
  /\ m_client_socket' = client
  /\ client' = "none"
  /\ thread' = "link"
  /\ Quiet /\ UNCHANGED <<m_running, m_connected, m_listen_socket, packets, unread>>

Link ==
  /\ Alive /\ thread = "link"
  /\ m_connected' = TRUE
  /\ thread' = "inner"
  /\ Quiet /\ UNCHANGED <<m_running, sockets, packets, unread>>

Inner ==
  /\ Alive /\ thread = "inner"
  /\ thread' = IF m_running /\ m_client_socket # "none" THEN "receive" ELSE "close"
  /\ Quiet /\ UNCHANGED <<m_running, m_connected, sockets, packets, unread>>

\* A mutant: one of the two protocols does not publish.
ReceiveUnpublished ==
  /\ Alive /\ thread = "receive"
  /\ m_client_socket = "open"
  /\ packets < MaxPackets
  /\ packets' = packets + 1
  /\ thread' = "inner"
  /\ Quiet /\ UNCHANGED <<m_running, m_connected, sockets, unread>>

\* receive_packet_*(): the peer sent a whole packet, which is published.  It
\* may also never do so: recv() blocks.
Receive ==
  /\ Alive /\ thread = "receive"
  /\ m_client_socket = "open"
  /\ packets < MaxPackets
  /\ packets' = packets + 1
  /\ unread' = packets + 1
  /\ thread' = "inner"
  /\ Quiet /\ UNCHANGED <<m_running, m_connected, sockets>>

\* The peer closed the connection or sent an invalid header.
PeerLost ==
  /\ Alive /\ thread = "receive"
  /\ m_client_socket = "open"
  /\ thread' = "close"
  /\ Quiet /\ UNCHANGED <<m_running, m_connected, sockets, packets, unread>>

\* shutdown() wakes a blocked recv and makes a later one fail.
ReceiveFailed ==
  /\ Alive /\ thread = "receive"
  /\ m_client_socket = "shut"
  /\ thread' = "close"
  /\ Quiet /\ UNCHANGED <<m_running, m_connected, sockets, packets, unread>>

\* The buffer for the payload cannot be allocated: the catch block writes the
\* status and nothing else.
ReceiveThrows ==
  /\ Throws
  /\ Alive /\ thread = "receive"
  /\ m_client_socket = "open"
  /\ thread' = "down"
  /\ threw' = TRUE
  /\ UNCHANGED <<hostVars, terminated>>
  /\ UNCHANGED <<m_running, m_connected, sockets, packets, unread>>

CloseClient ==
  /\ Alive /\ thread = "close"
  /\ m_client_socket' = "none"
  /\ thread' = "unlink"
  /\ Quiet /\ UNCHANGED <<m_running, m_connected, m_listen_socket, client, packets, unread>>

\* A mutant: m_connected is left set.
UnlinkForgotten ==
  /\ Alive /\ thread = "unlink"
  /\ thread' = "outer"
  /\ Quiet /\ UNCHANGED <<m_running, m_connected, sockets, packets, unread>>

Unlink ==
  /\ Alive /\ thread = "unlink"
  /\ m_connected' = FALSE
  /\ thread' = "outer"
  /\ Quiet /\ UNCHANGED <<m_running, sockets, packets, unread>>

Down ==
  /\ Alive /\ thread = "down"
  /\ m_running' = FALSE
  /\ thread' = "exited"
  /\ Quiet /\ UNCHANGED <<m_connected, sockets, packets, unread>>

-----------------------------------------------------------------------------
Tick == StartListening \/ ShutListen \/ ShutClient \/ Join \/ Output
        \/ (StopListening /\ ~listen)
Host == Tick \/ Toggle \/ StopListening

Receiver == CreateSocket \/ Bind \/ Outer \/ StopAccepting \/ Adopt \/ Link \/ Inner
            \/ ReceiveFailed \/ CloseClient \/ Unlink \/ Down
Peer == Accept \/ Receive \/ PeerLost \/ ReceiveThrows

Next == Host \/ Receiver \/ Peer

\* Both threads are scheduled.  Peers and the user promise nothing; Output is
\* fair on its own because operator() polls the triple buffer on every tick,
\* whatever else it does.
Spec == Init /\ [][Next]_vars
FairSpec == Spec /\ WF_vars(Tick) /\ WF_vars(Output) /\ WF_vars(Receiver)

-----------------------------------------------------------------------------
(* Properties                                                              *)

TypeOK ==
  /\ listen \in BOOLEAN /\ gone \in BOOLEAN
  /\ threw \in BOOLEAN /\ terminated \in BOOLEAN
  /\ m_running \in BOOLEAN /\ m_connected \in BOOLEAN
  /\ m_listen_socket \in {"none", "open", "shut"}
  /\ m_client_socket \in {"none", "open", "shut"}
  /\ client \in {"none", "open"}
  /\ host \in {"idle", "shut_listen", "shut_client", "join"}
  /\ thread \in {"none", "create", "bind", "outer", "accept", "adopt", "link", "inner",
                 "receive", "close", "unlink", "down", "exited"}
  /\ started \in 0..MaxThreads
  /\ packets \in 0..MaxPackets /\ unread \in 0..MaxPackets /\ output \in 0..MaxPackets

\* start_listening() never assigns to a joinable std::thread, which would call
\* std::terminate, unless an exception ended the last thread: it clears
\* m_running, nobody joins, and the next tick starts over.
TerminatesOnlyAfterThrow == terminated => threw

\* The Connected output, which update_status() copies from m_connected, is
\* true only while a thread serves a client.  An exception leaves it set.
ConnectedIsServed == m_connected /\ ~threw => thread \in {"inner", "receive", "close", "unlink"}

\* stop_listening() returns: wherever the thread is, in accept(), between
\* accept() and the assignment of m_client_socket, or in recv().
StopCompletes == host # "idle" ~> host = "idle"

\* A received packet, or a newer one, reaches the output.
Delivered ==
  \A n \in 1..MaxPackets : packets = n ~> (output >= n \/ gone \/ terminated)
=============================================================================
