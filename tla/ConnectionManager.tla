--------------------------- MODULE ConnectionManager ---------------------------
(***************************************************************************)
(* The server's end of a live tool: the endpoint tool_stream, the registry *)
(* ConnectionManager (one entry per session token), and the part of the    *)
(* stream handlers that ping and traceroute share: start, cancel, process, *)
(* complete.  Each step is the code between two awaits of one task.        *)
(***************************************************************************)
EXTENDS StreamTransport

CONSTANT MaxResults     \* results one execution streams (a bound)

VARIABLES
    registry,   \* ConnectionManager._connections
    task        \* the tool_stream task of a socket, with its handler

server == <<registry, task>>

(***************************************************************************)
(* pc: "none", "register" (accepted, connect() not finished), "receive"    *)
(* (waiting for start), "running", "finish" (before disconnect()), "close" *)
(* (entry popped, close() not called yet), "done".  victim is the socket   *)
(* disconnect() popped; listening whether listen_cancel runs; broken       *)
(* whether read_stdout died of a send that raised.                         *)
(***************************************************************************)
Pcs == {"none", "register", "receive", "running", "finish", "close", "done"}

NoTask == [pc |-> "none", victim |-> None, listening |-> FALSE, cancelled |-> FALSE,
           process |-> "none", sent |-> 0, broken |-> FALSE]

Task == [pc : Pcs, victim : Sockets \cup {None}, listening : BOOLEAN, cancelled : BOOLEAN,
         process : {"none", "running", "terminated", "exited"}, sent : 0..MaxResults,
         broken : BOOLEAN]

ServerTypeOK ==
    /\ registry \in [Sessions -> Sockets \cup {None}]
    /\ task \in [Sockets -> Task]

ServerInit ==
    /\ registry = [k \in Sessions |-> None]
    /\ task = [s \in Sockets |-> NoTask]

At(s, label) == task[s].pc = label
Become(s, r) == task' = [task EXCEPT ![s] = r]
Goto(s, label) == Become(s, [task[s] EXCEPT !.pc = label])

\* Mutated form: a receive does not see that another task closed the socket.
HangupByPeer(s) == HeadIs(up[s], "disconnect")

\* receive_json raises: the browser has gone, or another task closed the socket.
Hangup(s) == HeadIs(up[s], "disconnect") \/ s \notin accepted

-----------------------------------------------------------------------------
(* tool_stream: authorisation, connect *)

\* close() before accept(): the handshake is refused.
Refuse(s) ==
    /\ ready[s] # "unused" /\ At(s, "none")
    /\ Goto(s, "done")
    /\ down' = Sent(s, "refused")
    /\ UNCHANGED <<ready, cookie, accepted, up, registry>>

\* connect() accepts first and takes the lock afterwards.
Accept(s) ==
    /\ ready[s] # "unused" /\ At(s, "none")
    /\ Goto(s, "register")
    /\ accepted' = accepted \cup {s}
    /\ down' = Sent(s, "accepted")
    /\ UNCHANGED <<ready, cookie, up, registry>>

Register(s) ==
    /\ At(s, "register")
    /\ registry' = [registry EXCEPT ![cookie[s]] = s]
    /\ Goto(s, "receive")
    /\ UNCHANGED transport

-----------------------------------------------------------------------------
(* The handler *)

\* The first message starts the process and its reader and listener tasks.
Start(s) ==
    /\ At(s, "receive") /\ s \in accepted /\ HeadIs(up[s], "start")
    /\ up' = [up EXCEPT ![s] = Tail(@)]
    /\ Become(s, [task[s] EXCEPT !.pc = "running", !.process = "running", !.listening = TRUE])
    /\ UNCHANGED <<ready, cookie, accepted, down, registry>>

\* Parameters that do not validate, a target that is blocked or not resolved.
RejectStart(s) ==
    /\ At(s, "receive") /\ s \in accepted /\ HeadIs(up[s], "start")
    /\ up' = [up EXCEPT ![s] = Tail(@)]
    /\ Goto(s, "finish")
    /\ down' = Sent(s, "error")
    /\ UNCHANGED <<ready, cookie, accepted, registry>>

NeverStarted(s) ==
    /\ At(s, "receive") /\ Hangup(s)
    /\ Goto(s, "finish")
    /\ UNCHANGED <<transport, registry>>

\* read_stdout: a send that raises ends the reader, and only the reader.
SendResult(s) ==
    /\ At(s, "running") /\ ~task[s].broken /\ task[s].sent < MaxResults
    /\ \/ /\ SendPasses(s)
          /\ down' = Sent(s, "result")
          /\ Become(s, [task[s] EXCEPT !.sent = @ + 1])
       \/ /\ SendRaises(s)
          /\ Become(s, [task[s] EXCEPT !.broken = TRUE])
          /\ UNCHANGED down
    /\ UNCHANGED <<ready, cookie, accepted, up, registry>>

\* listen_cancel on a cancel message.
Cancel(s) ==
    /\ At(s, "running") /\ task[s].listening /\ s \in accepted /\ HeadIs(up[s], "cancel")
    /\ up' = [up EXCEPT ![s] = Tail(@)]
    /\ Become(s, [task[s] EXCEPT !.cancelled = TRUE, !.listening = FALSE,
                  !.process = IF @ = "running" THEN "terminated" ELSE @])
    /\ UNCHANGED <<ready, cookie, accepted, down, registry>>

\* listen_cancel on a disconnect: "except Exception: pass".
StopListening(s) ==
    /\ At(s, "running") /\ task[s].listening /\ Hangup(s)
    /\ Become(s, [task[s] EXCEPT !.listening = FALSE])
    /\ UNCHANGED <<transport, registry>>

\* The process ends by itself, by SIGTERM, or is killed at its time limit.
ProcessExits(s) ==
    /\ task[s].process \in {"running", "terminated"}
    /\ Become(s, [task[s] EXCEPT !.process = "exited"])
    /\ UNCHANGED <<transport, registry>>

\* Mutated form: the time limit counts as the user's doing.
TerminatedByAnyone(s, timedOut) == IF timedOut \/ task[s].cancelled THEN "stopped" ELSE "completed"

\* terminated_by, as far as the page tells its values apart.
TerminatedBy(s, timedOut) ==
    IF task[s].cancelled /\ ~timedOut THEN "stopped" ELSE "completed"

\* wait() has returned and the readers are awaited: a reader's exception, or a
\* send that raises, skips the complete message.  The handler's locals are gone.
Finish(s) ==
    /\ At(s, "running") /\ task[s].process = "exited"
    /\ Become(s, [NoTask EXCEPT !.pc = "finish", !.process = "exited"])
    /\ \/ /\ ~task[s].broken /\ SendPasses(s)
          /\ \E timedOut \in BOOLEAN : down' = Sent(s, TerminatedBy(s, timedOut))
       \/ (task[s].broken \/ SendRaises(s)) /\ UNCHANGED down
    /\ UNCHANGED <<ready, cookie, accepted, up, registry>>

-----------------------------------------------------------------------------
(* disconnect(session_token), in the endpoint's finally *)

\* Mutated form: the entry is looked up and not removed.
Looked(k) == registry

Popped(k) == [registry EXCEPT ![k] = None]

\* pop: whatever socket the token's entry names now.
Pop(s) ==
    /\ At(s, "finish")
    /\ registry' = Popped(cookie[s])
    /\ Become(s, [task[s] EXCEPT !.pc = "close", !.victim = registry[cookie[s]]])
    /\ UNCHANGED transport

\* close() of the popped socket; closing one that is closed raises and is suppressed.
Close(s) ==
    LET v == task[s].victim
    IN  /\ At(s, "close")
        /\ accepted' = accepted \ {v}
        /\ IF v \in accepted
           THEN /\ down' = Sent(v, "closed")
                /\ up' = [up EXCEPT ![v] = <<>>]
           ELSE UNCHANGED <<down, up>>
        /\ Become(s, [task[s] EXCEPT !.pc = "done", !.victim = None])
        /\ UNCHANGED <<ready, cookie, registry>>

-----------------------------------------------------------------------------

ServerStep(s) ==
    \/ Refuse(s) \/ Accept(s) \/ Register(s)
    \/ Start(s) \/ RejectStart(s) \/ NeverStarted(s)
    \/ SendResult(s) \/ Cancel(s) \/ StopListening(s) \/ ProcessExits(s) \/ Finish(s)
    \/ Pop(s) \/ Close(s)
=============================================================================
