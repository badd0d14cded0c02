---------------------------- MODULE WebSocketClient ----------------------------
(***************************************************************************)
(* The browser's end of a live tool: the hook useWebSocket as PingPage and *)
(* TraceroutePage use it, one mounted page per tab.  An event handler runs *)
(* to its end before the next one, and reads the refs as they are then;    *)
(* the "status" its closures see is the first render's.                    *)
(***************************************************************************)
EXTENDS StreamTransport

CONSTANTS
    Tabs,
    SessionOf   \* the session token a tab's cookie holds

VARIABLES
    status,         \* what the page shows
    wsRef,          \* wsRef.current
    cancelledRef,   \* cancelledRef.current
    shown,          \* the sockets whose results are in "results"
    pageOf          \* the tab whose mounted page a socket's handlers belong to

client == <<status, wsRef, cancelledRef, shown, pageOf>>

ClientTypeOK ==
    /\ status \in [Tabs -> {"idle", "running", "completed", "stopped", "error"}]
    /\ wsRef \in [Tabs -> Sockets \cup {None}]
    /\ cancelledRef \in [Tabs -> BOOLEAN]
    /\ shown \in [Tabs -> SUBSET Sockets]
    /\ pageOf \in [Sockets -> Tabs \cup {None}]

ClientInit ==
    /\ status = [t \in Tabs |-> "idle"]
    /\ wsRef = [t \in Tabs |-> None]
    /\ cancelledRef = [t \in Tabs |-> FALSE]
    /\ shown = [t \in Tabs |-> {}]
    /\ pageOf = [s \in Sockets |-> None]

-----------------------------------------------------------------------------
(* What the user does *)

\* Mutated form: reset forgets the socket without closing it.
Forgotten(t) == ready

\* reset() closes the tab's socket, whatever its state.
ClosedByReset(t) ==
    [s \in Sockets |-> IF s = wsRef[t] THEN Closing(ready[s]) ELSE ready[s]]

\* Nothing is delivered any more on a socket the page closed.
Undelivered(t) ==
    [s \in Sockets |-> IF s = wsRef[t] /\ Closing(ready[s]) # ready[s] THEN <<>> ELSE down[s]]

\* The server learns of a socket the page closed.
HungUp(t) ==
    [s \in Sockets |->
        IF s = wsRef[t] /\ ready[s] \in {"connecting", "open"}
        THEN Append(up[s], "disconnect") ELSE up[s]]

\* handleStart, from the button or from Enter in the form, in any status:
\* reset(), then connect(), whose guard finds wsRef cleared by reset.
StartRun(t, s) ==
    /\ ready[s] = "unused"
    /\ ready' = [ClosedByReset(t) EXCEPT ![s] = "connecting"]
    /\ up' = HungUp(t)
    /\ cookie' = [cookie EXCEPT ![s] = SessionOf[t]]
    /\ pageOf' = [pageOf EXCEPT ![s] = t]
    /\ wsRef' = [wsRef EXCEPT ![t] = s]
    /\ cancelledRef' = [cancelledRef EXCEPT ![t] = FALSE]
    /\ status' = [status EXCEPT ![t] = "running"]
    /\ shown' = [shown EXCEPT ![t] = {}]
    /\ down' = Undelivered(t)
    /\ UNCHANGED accepted

\* handleReset: the button is disabled while a run is shown as running.
ResetPage(t) ==
    /\ status[t] # "running"
    /\ ready' = ClosedByReset(t)
    /\ up' = HungUp(t)
    /\ wsRef' = [wsRef EXCEPT ![t] = None]
    /\ cancelledRef' = [cancelledRef EXCEPT ![t] = TRUE]
    /\ status' = [status EXCEPT ![t] = "idle"]
    /\ shown' = [shown EXCEPT ![t] = {}]
    /\ down' = Undelivered(t)
    /\ UNCHANGED <<cookie, accepted, pageOf>>

\* cancel(): nothing is sent on a socket that is not open.  A click while a
\* cancel is still unread is left out (a bound: it would be unread too).
StopRun(t) ==
    LET s == wsRef[t]
    IN  /\ status[t] = "running"
        /\ ~Has(up[s], "cancel")
        /\ cancelledRef' = [cancelledRef EXCEPT ![t] = TRUE]
        /\ up' = IF ready[s] = "open" /\ s \in accepted
                 THEN [up EXCEPT ![s] = Append(@, "cancel")] ELSE up
        /\ UNCHANGED <<ready, cookie, accepted, down, status, wsRef, shown, pageOf>>

\* The user goes to another page and back: the hook has no clean-up, so its
\* sockets stay open, with handlers of a page that is no longer mounted.
Navigate(t) ==
    /\ wsRef[t] # None
    /\ pageOf' = [s \in Sockets |-> IF pageOf[s] = t THEN None ELSE pageOf[s]]
    /\ status' = [status EXCEPT ![t] = "idle"]
    /\ wsRef' = [wsRef EXCEPT ![t] = None]
    /\ cancelledRef' = [cancelledRef EXCEPT ![t] = FALSE]
    /\ shown' = [shown EXCEPT ![t] = {}]
    /\ UNCHANGED transport

-----------------------------------------------------------------------------
(* The hook's handlers *)

Take(s) == [down EXCEPT ![s] = Tail(@)]

\* The status of the page s belongs to, after f; nothing for an unmounted one.
StatusAfter(s, new) ==
    IF pageOf[s] = None THEN status ELSE [status EXCEPT ![pageOf[s]] = new]

\* onerror, unless the page cancelled; onclose does nothing more, because the
\* "status" it compares with "running" is the first render's "idle".
StatusAfterError(s) ==
    IF pageOf[s] # None /\ cancelledRef[pageOf[s]] THEN status ELSE StatusAfter(s, "error")

OnOpen(s) ==
    /\ ready[s] = "connecting" /\ HeadIs(down[s], "accepted")
    /\ ready' = [ready EXCEPT ![s] = "open"]
    /\ up' = [up EXCEPT ![s] = Append(@, "start")]
    /\ down' = Take(s)
    /\ UNCHANGED <<cookie, accepted, client>>

OnResult(s) ==
    /\ ready[s] = "open" /\ HeadIs(down[s], "result")
    /\ down' = Take(s)
    /\ shown' = IF pageOf[s] = None \/ cancelledRef[pageOf[s]] THEN shown
                ELSE [shown EXCEPT ![pageOf[s]] = @ \cup {s}]
    /\ UNCHANGED <<ready, cookie, accepted, up, status, wsRef, cancelledRef, pageOf>>

OnEnd(s) ==
    /\ ready[s] = "open"
    /\ \E m \in {"completed", "stopped", "error"} :
          HeadIs(down[s], m) /\ status' = StatusAfter(s, m)
    /\ down' = Take(s)
    /\ UNCHANGED <<ready, cookie, accepted, up, wsRef, cancelledRef, shown, pageOf>>

\* The socket is closed; whatever was still on its way is not delivered.
Shut(s) ==
    /\ ready' = [ready EXCEPT ![s] = "closed"]
    /\ down' = [down EXCEPT ![s] = <<>>]
    /\ UNCHANGED <<cookie, accepted, wsRef, cancelledRef, shown, pageOf>>

\* close event, after the server's close() or the page's.
OnClose(s) ==
    /\ ready[s] = "closing" \/ (ready[s] = "open" /\ HeadIs(down[s], "closed"))
    /\ Shut(s)
    /\ UNCHANGED <<up, status>>

\* error event and close event: the handshake is refused, or was aborted.
OnHandshakeFailure(s) ==
    /\ ready[s] = "aborted" \/ (ready[s] = "connecting" /\ HeadIs(down[s], "refused"))
    /\ Shut(s)
    /\ status' = StatusAfterError(s)
    /\ UNCHANGED up

\* The connection is lost: error event and close event.
LoseConnection(s) ==
    /\ ready[s] \in {"connecting", "open"}
    /\ Shut(s)
    /\ status' = StatusAfterError(s)
    /\ up' = [up EXCEPT ![s] = Append(@, "disconnect")]

-----------------------------------------------------------------------------

UserStep(t) ==
    \/ \E s \in Sockets : StartRun(t, s)
    \/ ResetPage(t) \/ StopRun(t) \/ Navigate(t)

BrowserStep(s) ==
    OnOpen(s) \/ OnResult(s) \/ OnEnd(s) \/ OnClose(s) \/ OnHandshakeFailure(s)
=============================================================================
