--------------------------- MODULE NetStreamSender ---------------------------
(***************************************************************************)
(* The life of a connection in examples/Advanced/NetStream: the host       *)
(* thread calls operator() on every tick, the Data message whenever it     *)
(* likes and the destructor once; a background thread connects a socket    *)
(* and sends what the triple buffer holds.  They share three flags, the    *)
(* socket and the triple buffer, which appears here as the mailbox that    *)
(* TripleBuffer implements: `unread' is the value nobody consumed yet.     *)
(*                                                                         *)
(* A value is the number of the connection it was published for.  Loads    *)
(* and stores of the atomics are steps of their own; what a thread does to *)
(* its own state is part of the step before.                               *)
(***************************************************************************)
EXTENDS Naturals

CONSTANTS MaxConn,   \* bound: how many threads are started
          Throws     \* whether an allocation in the thread may fail

ASSUME MaxConnAssumption == MaxConn \in Nat /\ Throws \in BOOLEAN

VARIABLES
  connect,             \* inputs.connect, the toggle
  m_running, m_connected, m_thread_finished,   \* the atomics
  m_socket,            \* none, open, up (connected) or shut
  host,                \* where the host thread is in operator() or disconnect()
  gone,                \* the destructor has begun
  thread,              \* where m_thread is; "none" when it is not joinable
  conn,                \* which thread this is, counting from 1
  unread,              \* the mailbox: 0, or the connection a value was published for
  sending              \* the value consume() handed to the thread

hostVars == <<connect, host, gone>>
flags == <<m_running, m_connected, m_thread_finished>>
vars == <<hostVars, flags, m_socket, thread, conn, unread, sending>>

Init ==
  /\ connect = FALSE
  /\ m_running = FALSE /\ m_connected = FALSE /\ m_thread_finished = FALSE
  /\ m_socket = "none"
  /\ host = "idle"
  /\ gone = FALSE
  /\ thread = "none"
  /\ conn = 0
  /\ unread = 0
  /\ sending = 0

-----------------------------------------------------------------------------
(* The host thread                                                         *)

Toggle ==
  /\ host = "idle" /\ ~gone
  /\ connect' = ~connect
  /\ UNCHANGED <<flags, host, gone, m_socket, thread, conn, unread, sending>>

\* start_connection(): operator() found the toggle on and nothing running.
StartConnection ==
  /\ host = "idle" /\ ~gone
  /\ connect /\ ~m_running
  /\ conn < MaxConn
  /\ m_running' = TRUE
  /\ thread' = "create"
  /\ conn' = conn + 1
  /\ UNCHANGED <<hostVars, m_connected, m_thread_finished, m_socket, unread, sending>>

\* A mutant of operator(): a finished thread is never torn down.
TearDownOnToggleOnly ==
  /\ host = "idle" /\ ~gone
  /\ ~connect /\ m_running
  /\ m_running' = FALSE
  /\ host' = "clearing"
  /\ UNCHANGED <<connect, gone, m_connected, m_thread_finished, m_socket, thread, conn, unread, sending>>

\* operator() calls disconnect(): the toggle went off, or the thread says it
\* has finished.  The first store of disconnect() is m_running.
TearDown ==
  /\ host = "idle" /\ ~gone
  /\ \/ ~connect /\ m_running
     \/ ~(connect /\ ~m_running) /\ m_thread_finished
  /\ m_running' = FALSE
  /\ host' = "clearing"
  /\ UNCHANGED <<connect, gone, m_connected, m_thread_finished, m_socket, thread, conn, unread, sending>>

\* The destructor calls disconnect() too.
Destroy ==
  /\ host = "idle" /\ ~gone
  /\ gone' = TRUE
  /\ m_running' = FALSE
  /\ host' = "clearing"
  /\ UNCHANGED <<connect, m_connected, m_thread_finished, m_socket, thread, conn, unread, sending>>

\* A mutant of disconnect(): without shutdown().
ClearWithoutShutdown ==
  /\ host = "clearing"
  /\ m_thread_finished' = FALSE
  /\ host' = IF thread = "none" THEN "reset" ELSE "join"
  /\ UNCHANGED <<connect, gone, m_running, m_connected, m_socket, thread, conn, unread, sending>>

\* The second store, then joinable(), then is_valid() of the socket: a handle
\* that was valid is shut down in the next step.
ClearFinished ==
  /\ host = "clearing"
  /\ m_thread_finished' = FALSE
  /\ host' = CASE thread = "none" -> "reset"
               [] thread # "none" /\ m_socket = "none" -> "join"
               [] OTHER -> "shutdown"
  /\ UNCHANGED <<connect, gone, m_running, m_connected, m_socket, thread, conn, unread, sending>>

\* shutdown(fd): only a connected socket notices; the thread may have closed it.
Shutdown ==
  /\ host = "shutdown"
  /\ m_socket' = IF m_socket = "up" THEN "shut" ELSE m_socket
  /\ host' = "join"
  /\ UNCHANGED <<connect, gone, flags, thread, conn, unread, sending>>

\* join(), and the close of the socket that is safe after it.
Join ==
  /\ host = "join"
  /\ thread = "exited"
  /\ thread' = "none"
  /\ m_socket' = "none"
  /\ host' = "reset"
  /\ UNCHANGED <<connect, gone, flags, conn, unread, sending>>

ResetConnected ==
  /\ host = "reset"
  /\ m_connected' = FALSE
  /\ host' = "idle"
  /\ UNCHANGED <<connect, gone, m_running, m_thread_finished, m_socket, thread, conn, unread, sending>>

\* The Data message, and the end of the GPU variant's operator(): publish.
Data ==
  /\ host = "idle" /\ ~gone
  /\ m_connected
  /\ unread' = conn
  /\ UNCHANGED <<hostVars, flags, m_socket, thread, conn, sending>>

-----------------------------------------------------------------------------
(* The sender thread                                                       *)

\* create_tcp_socket(); a failure returns without touching any flag.
CreateSocket ==
  /\ thread = "create"
  /\ \/ m_socket' = "open" /\ thread' = "connect"
     \/ m_socket' = "none" /\ thread' = "exited"
  /\ UNCHANGED <<hostVars, flags, conn, unread, sending>>

\* connect_socket(); a failure closes the socket and returns like that too.
Connect ==
  /\ thread = "connect"
  /\ \/ m_socket' = "up" /\ thread' = "linked"
     \/ m_socket' = "none" /\ thread' = "exited"
  /\ UNCHANGED <<hostVars, flags, conn, unread, sending>>

Linked ==
  /\ thread = "linked"
  /\ m_connected' = TRUE
  /\ thread' = "loop"
  /\ UNCHANGED <<hostVars, m_running, m_thread_finished, m_socket, conn, unread, sending>>

Loop ==
  /\ thread = "loop"
  /\ thread' = IF m_running THEN "consume" ELSE "close"
  /\ UNCHANGED <<hostVars, flags, m_socket, conn, unread, sending>>

\* consume(): take the value and send it, or yield.
Consume ==
  /\ thread = "consume"
  /\ \/ /\ unread # 0
        /\ sending' = unread
        /\ unread' = 0
        /\ thread' = "send"
     \/ /\ unread = 0
        /\ thread' = "loop"
        /\ UNCHANGED <<unread, sending>>
  /\ UNCHANGED <<hostVars, flags, m_socket, conn>>

\* The peer takes the packet.  It may also never do so: send() blocks.
SendDone ==
  /\ thread = "send"
  /\ m_socket = "up"
  /\ thread' = "loop"
  /\ sending' = 0
  /\ UNCHANGED <<hostVars, flags, m_socket, conn, unread>>

\* The peer closed the connection.
PeerLost ==
  /\ thread = "send"
  /\ m_socket = "up"
  /\ thread' = "close"
  /\ sending' = 0
  /\ UNCHANGED <<hostVars, flags, m_socket, conn, unread>>

\* shutdown() wakes a blocked send and makes a later one fail.
SendFailed ==
  /\ thread = "send"
  /\ m_socket = "shut"
  /\ thread' = "close"
  /\ sending' = 0
  /\ UNCHANGED <<hostVars, flags, m_socket, conn, unread>>

\* The linear buffer of the fallback cannot be allocated: the catch block
\* leaves the socket open.
SendThrows ==
  /\ Throws
  /\ thread = "send"
  /\ thread' = "unlink"
  /\ sending' = 0
  /\ UNCHANGED <<hostVars, flags, m_socket, conn, unread>>

CloseSocket ==
  /\ thread = "close"
  /\ m_socket' = "none"
  /\ thread' = "unlink"
  /\ UNCHANGED <<hostVars, flags, conn, unread, sending>>

\* A mutant: m_connected is not cleared on the way out.
UnlinkForgotten ==
  /\ thread = "unlink"
  /\ thread' = "finish"
  /\ UNCHANGED <<hostVars, flags, m_socket, conn, unread, sending>>

Unlink ==
  /\ thread = "unlink"
  /\ m_connected' = FALSE
  /\ thread' = "finish"
  /\ UNCHANGED <<hostVars, m_running, m_thread_finished, m_socket, conn, unread, sending>>

\* A mutant: the thread clears m_running itself, as the receiver's does.
FinishStops ==
  /\ thread = "finish"
  /\ m_running' = FALSE
  /\ m_thread_finished' = TRUE
  /\ thread' = "exited"
  /\ UNCHANGED <<hostVars, m_connected, m_socket, conn, unread, sending>>

Finish ==
  /\ thread = "finish"
  /\ m_thread_finished' = TRUE
  /\ thread' = "exited"
  /\ UNCHANGED <<hostVars, m_running, m_connected, m_socket, conn, unread, sending>>

-----------------------------------------------------------------------------
Disconnect == ClearFinished \/ Shutdown \/ Join \/ ResetConnected
Tick == StartConnection \/ TearDown \/ Disconnect
Host == Tick \/ Toggle \/ Destroy \/ Data

\* The thread alone decides when these happen; send() also needs the peer.
Sender == CreateSocket \/ Connect \/ Linked \/ Loop \/ Consume \/ SendFailed
          \/ CloseSocket \/ Unlink \/ Finish
Peer == SendDone \/ PeerLost \/ SendThrows

Next == Host \/ Sender \/ Peer

\* The host calls operator() on every tick and both threads are scheduled; a
\* connect() that nobody answers times out.  No fairness for the peer, the
\* user or the destructor: a send may block for ever.
Spec == Init /\ [][Next]_vars
FairSpec == Spec /\ WF_vars(Tick) /\ WF_vars(Sender)

-----------------------------------------------------------------------------
(* Properties                                                              *)

TypeOK ==
  /\ connect \in BOOLEAN /\ gone \in BOOLEAN
  /\ m_running \in BOOLEAN /\ m_connected \in BOOLEAN /\ m_thread_finished \in BOOLEAN
  /\ m_socket \in {"none", "open", "up", "shut"}
  /\ host \in {"idle", "clearing", "shutdown", "join", "reset"}
  /\ thread \in {"none", "create", "connect", "linked", "loop", "consume", "send",
                 "close", "unlink", "finish", "exited"}
  /\ conn \in 0..MaxConn /\ unread \in 0..MaxConn /\ sending \in 0..MaxConn

\* start_connection() never assigns to a joinable std::thread, which would
\* call std::terminate, and the destructor never leaves one behind.
NeverJoinable ==
  host = "idle" /\ (~m_running \/ gone) => thread = "none"

\* m_connected, on which Data relies, is true only while the thread that set it has
\* its connected socket, which disconnect() may have shut down before it joins the
\* thread; and in one window, the thread's step before it clears the flag, when the
\* socket is closed (NetStreamSender.hpp:110) or left to disconnect() by an exception.
SocketLive == m_socket = "up" \/ (m_socket = "shut" /\ host = "join")

ConnectedIsLive ==
  m_connected => \/ thread \in {"loop", "consume", "send", "close"} /\ SocketLive
                 \/ thread = "unlink"

\* disconnect() returns: the thread is woken from send(), or it sees that
\* m_running is clear, wherever it was when the host decided to stop.
StopCompletes == host # "idle" ~> host = "idle"

\* A thread that ended after a connection was up is joined and its socket
\* closed by a later tick.
FinishedIsReaped == (thread = "exited" /\ m_thread_finished) ~> thread = "none"

\* "Check if we need to connect/disconnect" (NetStreamSender.hpp:345): operator()
\* tears a connection down only when the toggle is off or its thread has ended.
\* Refuted: the thread sets m_thread_finished on its way out (120), after
\* disconnect() has cleared it (252), and the next thread is taken for finished.
TornDownOnlyWhenNeeded ==
  [][TearDown /\ connect => thread = "exited"]_vars

\* "Unblock threads blocked in recv/send, but keep the fd valid so close() can
\* still clean up after thread join." (NetIO.hpp:130-131): what disconnect() shuts
\* down is still the thread's open socket.  Refuted.
HandleStillOpen == host = "shutdown" => m_socket # "none"
=============================================================================
