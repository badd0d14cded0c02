---------------------------- MODULE StreamTransport ----------------------------
(***************************************************************************)
(* What the live tools' two ends share: WebSockets.  The browser's and the *)
(* ASGI server's sides of a socket are outside the repository and are      *)
(* modelled from how the code uses them.  Messages on one socket arrive in *)
(* order; a side that closed sees nothing more of the other.               *)
(***************************************************************************)
EXTENDS Naturals, Sequences

CONSTANTS
    Sockets,    \* the WebSocket objects this instance can create (its bound)
    Sessions,   \* session tokens
    None

VARIABLES
    ready,      \* the browser's readyState; "aborted": close() while connecting
    cookie,     \* the session token the handshake carries
    accepted,   \* sockets the server accepted and has not closed
    up,         \* messages to the server, "disconnect" being what receive raises
    down        \* messages and events to the browser

transport == <<ready, cookie, accepted, up, down>>

ReadyStates == {"unused", "connecting", "open", "closing", "aborted", "closed"}
UpMessages == {"start", "cancel", "disconnect"}
DownMessages == {"accepted", "refused", "result", "completed", "stopped", "error", "closed"}

TransportTypeOK ==
    /\ ready \in [Sockets -> ReadyStates]
    /\ cookie \in [Sockets -> Sessions \cup {None}]
    /\ accepted \subseteq Sockets
    /\ up \in [Sockets -> Seq(UpMessages)]
    /\ down \in [Sockets -> Seq(DownMessages)]

TransportInit ==
    /\ ready = [s \in Sockets |-> "unused"]
    /\ cookie = [s \in Sockets |-> None]
    /\ accepted = {}
    /\ up = [s \in Sockets |-> <<>>]
    /\ down = [s \in Sockets |-> <<>>]

\* The next message on a channel is m.
HeadIs(channel, m) == channel # <<>> /\ Head(channel) = m

\* m is on its way on a channel.
Has(channel, m) == \E i \in 1..Len(channel) : channel[i] = m

\* The browser side has gone, or is going.
Left(s) == ready[s] \in {"closing", "aborted", "closed"}

\* send_json raises on a socket this server closed, and may raise on one whose
\* peer has left; it may as well succeed and be lost.
SendRaises(s) == s \notin accepted \/ Left(s)
SendPasses(s) == s \in accepted

\* What a send puts on the way: nothing once the peer has left.
Sent(s, m) == IF Left(s) THEN down ELSE [down EXCEPT ![s] = Append(@, m)]

\* WebSocket.close() called by the page.
Closing(state) ==
    CASE state = "connecting" -> "aborted"
      [] state = "open"       -> "closing"
      [] OTHER                -> state
=============================================================================
