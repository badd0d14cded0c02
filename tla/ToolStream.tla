------------------------------- MODULE ToolStream -------------------------------
(***************************************************************************)
(* Live tools from end to end: the tabs of WebSocketClient drive the tasks *)
(* of ConnectionManager over the sockets of StreamTransport.               *)
(***************************************************************************)
EXTENDS ConnectionManager, WebSocketClient

CONSTANT Lossy      \* whether connections may be lost

ASSUME StreamAssumption ==
    /\ None \notin Sockets \cup Sessions \cup Tabs
    /\ SessionOf \in [Tabs -> Sessions]
    /\ MaxResults \in Nat
    /\ Lossy \in BOOLEAN

vars == <<transport, server, client>>

TypeOK == TransportTypeOK /\ ServerTypeOK /\ ClientTypeOK

Init == TransportInit /\ ServerInit /\ ClientInit

Next ==
    \/ \E s \in Sockets : ServerStep(s) /\ UNCHANGED client
    \/ \E s \in Sockets : BrowserStep(s) /\ UNCHANGED server
    \/ \E t \in Tabs : UserStep(t) /\ UNCHANGED server
    \/ \E s \in Sockets : Lossy /\ LoseConnection(s) /\ UNCHANGED server

Spec == Init /\ [][Next]_vars

\* The event loop serves every task, every process ends (at the latest by
\* SIGKILL at its time limit), and the browser delivers events.  What the user
\* does and when a connection is lost is left open.
FairSpec ==
    /\ Spec
    /\ \A s \in Sockets :
          /\ WF_vars(ServerStep(s) /\ UNCHANGED client)
          /\ WF_vars(BrowserStep(s) /\ UNCHANGED server)

-----------------------------------------------------------------------------
(* Properties *)

\* An entry of the registry names a socket whose task has not called
\* disconnect() yet: connect() and disconnect() of different sockets of one
\* session overwrite and pop each other's entries, and none is left behind.
EntryHasHandler ==
    \A k \in Sessions : registry[k] # None =>
        /\ cookie[registry[k]] = k
        /\ task[registry[k]].pc \in {"receive", "running", "finish"}

\* A page that shows its run as completed or stopped tells the truth: the
\* process of that run is gone, and "stopped" was asked for on this page, for
\* this run.  No message of an earlier run decides it.
EndShownIsReal ==
    \A t \in Tabs : status[t] \in {"completed", "stopped"} =>
        /\ wsRef[t] # None
        /\ task[wsRef[t]].process = "exited"
        /\ status[t] = "stopped" => cancelledRef[t]

\* Results of one run are never shown among another's, although the reset
\* between the two runs only starts to close the first one's socket.
ResultsOfThisRun ==
    \A t \in Tabs : shown[t] \subseteq {wsRef[t]}

\* Every handshake the server sees comes to an end, entry removed: a handler
\* whose page has gone, or whose socket another task closed, does not stay.
HandlersFinish ==
    \A s \in Sockets : ready[s] # "unused" ~> At(s, "done")

-----------------------------------------------------------------------------
(* What the documentation says and the code does not do *)

\* docs/specs/technical/spec-tools-live.md: "Multiple tool executions per user
\* allowed. Each is an independent asyncio task."  The server closes a socket
\* only when the task that serves it is done.
ExecutionsIndependent ==
    \A s \in Sockets : ~At(s, "none") /\ s \notin accepted => At(s, "done")
=============================================================================
