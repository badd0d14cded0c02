---------------------------- MODULE ToolStreamProofs ----------------------------
(***************************************************************************)
(* Proofs about ToolStream, for every number of tabs, sockets and sessions *)
(* and whether or not connections are lost.                                *)
(*                                                                         *)
(* The argument.  A page listens to one socket at a time (OnePage): reset  *)
(* closes the one before.  A task announces its end only once its process  *)
(* has exited (EndsAnnounced), and as stopped only if a cancel was sent    *)
(* from the page that still waits for it (Asked).                          *)
(***************************************************************************)
EXTENDS ToolStream, TLAPS

\* A socket that was not created yet has no task, no page and no message.
Fresh ==
    \A s \in Sockets : ready[s] = "unused" =>
        /\ task[s].pc = "none" /\ pageOf[s] = None /\ s \notin accepted
        /\ ~\E m \in UpMessages : Has(up[s], m)
        /\ ~\E m \in DownMessages : Has(down[s], m)

\* Every other carries the session token of the page that created it.
Carries == \A s \in Sockets : ready[s] # "unused" => cookie[s] \in Sessions

\* Before the start message there is no process, and no cancel was read.
Phases ==
    \A s \in Sockets : task[s].pc \in {"none", "register", "receive"} =>
        task[s].process = "none" /\ ~task[s].cancelled

\* An end on its way to the page means that the process has exited.
EndsAnnounced ==
    \A s \in Sockets : Has(down[s], "completed") \/ Has(down[s], "stopped") =>
        task[s].process = "exited"

\* The socket of a page is the only one of its sockets it still hears.
OnePage ==
    \A t \in Tabs, s \in Sockets :
        /\ wsRef[t] = s => pageOf[s] = t
        /\ pageOf[s] = t /\ ready[s] \in {"connecting", "open"} => wsRef[t] = s

\* A cancel, from the click to the message that answers it, is the page's own.
Asked ==
    \A t \in Tabs, s \in Sockets : wsRef[t] = s /\ ~cancelledRef[t] =>
        /\ ~Has(up[s], "cancel")
        /\ ~task[s].cancelled
        /\ ~Has(down[s], "stopped")

IInv ==
    /\ TypeOK
    /\ Fresh /\ Carries /\ Phases /\ EndsAnnounced /\ OnePage /\ Asked
    /\ EntryHasHandler /\ EndShownIsReal /\ ResultsOfThisRun

-----------------------------------------------------------------------------
(* Channels *)

LEMMA AppendHas ==
    ASSUME NEW M, NEW q \in Seq(M), NEW x \in M
    PROVE  /\ Append(q, x) \in Seq(M)
           /\ \A m : Has(Append(q, x), m) => Has(q, m) \/ m = x
BY DEF Has

LEMMA TailHas ==
    ASSUME NEW M, NEW q \in Seq(M), q # <<>>
    PROVE  /\ Tail(q) \in Seq(M)
           /\ Has(q, Head(q))
           /\ \A m : Has(Tail(q), m) => Has(q, m)
<1>1. Len(q) \in Nat /\ Len(q) > 0 /\ Head(q) = q[1]
  OBVIOUS
<1>2. Has(q, Head(q))
  BY <1>1 DEF Has
<1>3. ASSUME NEW m, Has(Tail(q), m) PROVE Has(q, m)
  <2>1. PICK i \in 1..Len(Tail(q)) : Tail(q)[i] = m
    BY <1>3 DEF Has
  <2>2. i + 1 \in 1..Len(q) /\ q[i + 1] = m
    BY <1>1, <2>1
  <2> QED
    BY <2>2 DEF Has
<1> QED
  BY <1>2, <1>3

LEMMA EmptyHas == \A m : ~Has(<<>>, m)
BY DEF Has

\* What a send adds to the channels towards the pages.
LEMMA SentHas ==
    ASSUME TransportTypeOK, NEW s \in Sockets, NEW x \in DownMessages
    PROVE  /\ Sent(s, x) \in [Sockets -> Seq(DownMessages)]
           /\ \A r \in Sockets : \A m :
                 Has(Sent(s, x)[r], m) => Has(down[r], m) \/ (r = s /\ m = x)
<1>1. down \in [Sockets -> Seq(DownMessages)]
  BY DEF TransportTypeOK
<1>2. CASE Left(s)
  BY <1>1, <1>2 DEF Sent
<1>3. CASE ~Left(s)
  <2>1. Sent(s, x) = [down EXCEPT ![s] = Append(down[s], x)]
    BY <1>3 DEF Sent
  <2>2. /\ Append(down[s], x) \in Seq(DownMessages)
        /\ \A m : Has(Append(down[s], x), m) => Has(down[s], m) \/ m = x
    BY <1>1, AppendHas
  <2> QED
    BY <1>1, <2>1, <2>2
<1> QED
  BY <1>2, <1>3

-----------------------------------------------------------------------------
(* The server's steps *)

\* What a step of the task of s does, as far as the invariant can tell.
ServerMove(s) ==
    /\ UNCHANGED <<ready, cookie, client>>
    /\ ready[s] # "unused"
    /\ \A r \in Sockets : r # s => task'[r] = task[r]
    /\ \A r \in Sockets : r \in accepted' => r \in accepted \/ r = s
    /\ \A r \in Sockets : \A m : Has(up'[r], m) => Has(up[r], m)
    /\ \A r \in Sockets : \A m : Has(down'[r], m) =>
          Has(down[r], m) \/ (ready[r] # "unused" /\ (r = s \/ m = "closed"))
    /\ task'[s].pc \in {"none", "register", "receive"} =>
          task'[s].process = "none" /\ ~task'[s].cancelled
    /\ task[s].process = "exited" => task'[s].process = "exited"
    /\ task'[s].cancelled => task[s].cancelled \/ Has(up[s], "cancel")
    /\ \A m \in {"completed", "stopped"} : Has(down'[s], m) /\ ~Has(down[s], m) =>
          /\ task'[s].process = "exited"
          /\ m = "stopped" => task[s].cancelled
    /\ \A k \in Sessions :
          /\ registry'[k] \in {None, registry[k], s}
          /\ registry'[k] = s => cookie[s] = k /\ task'[s].pc \in {"receive", "running", "finish"}

LEMMA ServerMoveSafe ==
    ASSUME IInv, TypeOK', NEW s \in Sockets, ServerMove(s)
    PROVE  IInv'
<1> USE DEF ServerMove
<1>0. UNCHANGED <<status, wsRef, cancelledRef, shown, pageOf>>
  BY DEF client
<1>1. Fresh'
  BY <1>0 DEF IInv, Fresh
<1>2. Phases' /\ Carries'
  BY DEF IInv, Phases, Carries
<1>3. EndsAnnounced'
  BY DEF IInv, EndsAnnounced
<1>4. OnePage'
  BY <1>0 DEF IInv, OnePage
<1>5. Asked'
  BY <1>0 DEF IInv, Asked
<1>6. EntryHasHandler'
  BY DEF IInv, EntryHasHandler, TypeOK, ServerTypeOK
<1>7. EndShownIsReal'
  <2>1. \A r \in Sockets : task[r].process = "exited" => task'[r].process = "exited"
    OBVIOUS
  <2>2. \A t \in Tabs : wsRef[t] # None => wsRef[t] \in Sockets
    BY DEF IInv, TypeOK, ClientTypeOK
  <2> QED
    BY <1>0, <2>1, <2>2 DEF IInv, EndShownIsReal
<1>8. ResultsOfThisRun'
  BY <1>0 DEF IInv, ResultsOfThisRun
<1> QED
  BY <1>1, <1>2, <1>3, <1>4, <1>5, <1>6, <1>7, <1>8 DEF IInv

\* The record a step leaves in place of the task.
LEMMA TaskOK ==
    ASSUME TypeOK, NEW s \in Sockets, NEW r \in Task, Become(s, r)
    PROVE  /\ task' \in [Sockets -> Task]
           /\ task'[s] = r
           /\ \A q \in Sockets : q # s => task'[q] = task[q]
BY DEF Become, TypeOK, ServerTypeOK

\* What the steps do to the channels of s: read one message, send one.
ReadOne(s) ==
    up' = up \/ /\ up' = [up EXCEPT ![s] = Tail(@)]
                /\ HeadIs(up[s], "start") \/ HeadIs(up[s], "cancel")

SendOne(s, r) ==
    down' = down \/ \E x \in DownMessages :
                       /\ down' = Sent(s, x)
                       /\ x \in {"completed", "stopped"} => r.process = "exited"
                       /\ x = "stopped" => task[s].cancelled

\* What they do to the task: r is the record that follows.
TaskMove(s, r) ==
    /\ r.pc \in {"none", "register", "receive"} => r.process = "none" /\ ~r.cancelled
    /\ task[s].process = "exited" => r.process = "exited"
    /\ r.cancelled => task[s].cancelled \/ Has(up[s], "cancel")

RegistryMove(s, r) ==
    /\ registry' \in [Sessions -> Sockets \cup {None}]
    /\ \A k \in Sessions :
          /\ registry'[k] \in {None, registry[k], s}
          /\ registry'[k] = s => cookie[s] = k /\ r.pc \in {"receive", "running", "finish"}

\* A step of the shape above is a ServerMove.
LEMMA StepMoves ==
    ASSUME IInv, NEW s \in Sockets, NEW r \in Task, Become(s, r),
           UNCHANGED <<ready, cookie, client>>, ready[s] # "unused",
           accepted' \in {accepted, accepted \cup {s}},
           TaskMove(s, r), ReadOne(s), SendOne(s, r), RegistryMove(s, r)
    PROVE  IInv'
<1>0. /\ TypeOK /\ TransportTypeOK /\ ClientTypeOK
      /\ up \in [Sockets -> Seq(UpMessages)] /\ down \in [Sockets -> Seq(DownMessages)]
  BY DEF IInv, TypeOK, TransportTypeOK
<1>1. /\ task' \in [Sockets -> Task] /\ task'[s] = r
      /\ \A q \in Sockets : q # s => task'[q] = task[q]
  BY <1>0, TaskOK
<1>2. /\ up' \in [Sockets -> Seq(UpMessages)]
      /\ \A q \in Sockets : \A m : Has(up'[q], m) => Has(up[q], m)
  <2>1. CASE up' = up
    BY <1>0, <2>1
  <2>2. CASE up' # up
    <3>1. up' = [up EXCEPT ![s] = Tail(up[s])] /\ up[s] # <<>>
      BY <2>2 DEF ReadOne, HeadIs
    <3>2. /\ Tail(up[s]) \in Seq(UpMessages)
          /\ \A m : Has(Tail(up[s]), m) => Has(up[s], m)
      BY <1>0, <3>1, TailHas
    <3> QED
      BY <1>0, <3>1, <3>2
  <2> QED
    BY <2>1, <2>2
<1>3. /\ down' \in [Sockets -> Seq(DownMessages)]
      /\ \A q \in Sockets : \A m : Has(down'[q], m) => Has(down[q], m) \/ q = s
      /\ \A m \in {"completed", "stopped"} : Has(down'[s], m) /\ ~Has(down[s], m) =>
            r.process = "exited" /\ (m = "stopped" => task[s].cancelled)
  <2>1. CASE down' = down
    BY <1>0, <2>1
  <2>2. CASE down' # down
    <3>1. PICK x \in DownMessages :
             /\ down' = Sent(s, x)
             /\ x \in {"completed", "stopped"} => r.process = "exited"
             /\ x = "stopped" => task[s].cancelled
      BY <2>2 DEF SendOne
    <3> QED
      BY <1>0, <3>1, SentHas
  <2> QED
    BY <2>1, <2>2
<1>4. TypeOK'
  BY <1>0, <1>1, <1>2, <1>3
  DEF client, RegistryMove, TypeOK, TransportTypeOK, ServerTypeOK, ClientTypeOK
<1>5. ServerMove(s)
  BY <1>1, <1>2, <1>3 DEF ServerMove, TaskMove, RegistryMove
<1> QED
  BY <1>4, <1>5, ServerMoveSafe

LEMMA ServerStepSafe ==
    ASSUME IInv, NEW s \in Sockets, ServerStep(s), UNCHANGED client
    PROVE  IInv'
<1>0. /\ task[s] \in Task /\ TransportTypeOK /\ cookie \in [Sockets -> Sessions \cup {None}]
      /\ registry \in [Sessions -> Sockets \cup {None}] /\ accepted \subseteq Sockets
  BY DEF IInv, TypeOK, TransportTypeOK, ServerTypeOK
<1>1. task[s].pc \in {"none", "register", "receive"} => task[s].process = "none" /\ ~task[s].cancelled
  BY DEF IInv, Phases
<1>2. task[s].pc # "none" => ready[s] # "unused" /\ cookie[s] \in Sessions
  BY DEF IInv, Fresh, Carries
<1>3. /\ s # None
      /\ \A k \in Sessions : registry[k] = s =>
            cookie[s] = k /\ task[s].pc \in {"receive", "running", "finish"}
  BY <1>0, StreamAssumption DEF IInv, EntryHasHandler
<1>4. HeadIs(up[s], "cancel") => Has(up[s], "cancel")
  BY TailHas DEF HeadIs, IInv, TypeOK, TransportTypeOK
<1> USE <1>0, <1>1, <1>2, <1>3 DEF At, Goto
<1>5. CASE Refuse(s)
  <2> DEFINE r == [task[s] EXCEPT !.pc = "done"]
  <2>1. r \in Task /\ Become(s, r) /\ ready[s] # "unused"
    BY <1>5 DEF Refuse, Task, Pcs
  <2>2. TaskMove(s, r) /\ ReadOne(s) /\ SendOne(s, r) /\ RegistryMove(s, r)
    BY <1>5 DEF Refuse, Task, DownMessages, TaskMove, ReadOne, SendOne, RegistryMove
  <2> QED
    BY <1>5, <2>1, <2>2, StepMoves DEF Refuse
<1>6. CASE Accept(s)
  <2> DEFINE r == [task[s] EXCEPT !.pc = "register"]
  <2>1. r \in Task /\ Become(s, r) /\ ready[s] # "unused"
    BY <1>6 DEF Accept, Task, Pcs
  <2>2. TaskMove(s, r) /\ ReadOne(s) /\ SendOne(s, r) /\ RegistryMove(s, r)
    BY <1>6 DEF Accept, Task, DownMessages, TaskMove, ReadOne, SendOne, RegistryMove
  <2> QED
    BY <1>6, <2>1, <2>2, StepMoves DEF Accept
<1>7. CASE Register(s)
  <2> DEFINE r == [task[s] EXCEPT !.pc = "receive"]
  <2>1. r \in Task /\ Become(s, r)
    BY <1>7 DEF Register, Task, Pcs
  <2>2. TaskMove(s, r) /\ ReadOne(s) /\ SendOne(s, r)
    BY <1>7 DEF Register, Task, TaskMove, ReadOne, SendOne, transport
  <2>3. RegistryMove(s, r)
    BY <1>7 DEF Register, Task, RegistryMove
  <2> QED
    BY <1>7, <2>1, <2>2, <2>3, StepMoves DEF Register, transport
<1>8. CASE Start(s)
  <2> DEFINE r == [task[s] EXCEPT !.pc = "running", !.process = "running", !.listening = TRUE]
  <2>1. r \in Task /\ Become(s, r)
    BY <1>8 DEF Start, Task, Pcs
  <2>2. TaskMove(s, r) /\ ReadOne(s) /\ SendOne(s, r) /\ RegistryMove(s, r)
    BY <1>8 DEF Start, Task, TaskMove, ReadOne, SendOne, RegistryMove
  <2> QED
    BY <1>8, <2>1, <2>2, StepMoves DEF Start
<1>9. CASE RejectStart(s)
  <2> DEFINE r == [task[s] EXCEPT !.pc = "finish"]
  <2>1. r \in Task /\ Become(s, r)
    BY <1>9 DEF RejectStart, Task, Pcs
  <2>2. TaskMove(s, r) /\ ReadOne(s) /\ SendOne(s, r) /\ RegistryMove(s, r)
    BY <1>9 DEF RejectStart, Task, DownMessages, TaskMove, ReadOne, SendOne, RegistryMove
  <2> QED
    BY <1>9, <2>1, <2>2, StepMoves DEF RejectStart
<1>10. CASE NeverStarted(s)
  <2> DEFINE r == [task[s] EXCEPT !.pc = "finish"]
  <2>1. r \in Task /\ Become(s, r)
    BY <1>10 DEF NeverStarted, Task, Pcs
  <2>2. TaskMove(s, r) /\ ReadOne(s) /\ SendOne(s, r) /\ RegistryMove(s, r)
    BY <1>10 DEF NeverStarted, Task, TaskMove, ReadOne, SendOne, RegistryMove, transport
  <2> QED
    BY <1>10, <2>1, <2>2, StepMoves DEF NeverStarted, transport
<1>11. CASE SendResult(s)
  <2>1. PICK r \in Task :
           /\ Become(s, r)
           /\ r.pc = task[s].pc /\ r.process = task[s].process /\ r.cancelled = task[s].cancelled
           /\ down' = down \/ down' = Sent(s, "result")
    <3>1. CASE Become(s, [task[s] EXCEPT !.sent = @ + 1]) /\ down' = Sent(s, "result")
      <4> DEFINE r == [task[s] EXCEPT !.sent = @ + 1]
      <4>1. task[s].sent \in 0..MaxResults /\ task[s].sent < MaxResults
        BY <1>11 DEF SendResult, Task
      <4>2. task[s].sent + 1 \in 0..MaxResults
        BY <4>1, StreamAssumption
      <4>3. r \in Task
        BY <4>2 DEF Task
      <4> QED
        BY <3>1, <4>3 DEF Task
    <3>2. CASE Become(s, [task[s] EXCEPT !.broken = TRUE]) /\ down' = down
      <4>1. [task[s] EXCEPT !.broken = TRUE] \in Task
        BY DEF Task
      <4> QED
        BY <3>2, <4>1 DEF Task
    <3> QED
      BY <1>11, <3>1, <3>2 DEF SendResult
  <2>2. TaskMove(s, r) /\ ReadOne(s) /\ SendOne(s, r) /\ RegistryMove(s, r)
    BY <1>11, <2>1 DEF SendResult, DownMessages, TaskMove, ReadOne, SendOne, RegistryMove
  <2> QED
    BY <1>11, <2>1, <2>2, StepMoves DEF SendResult
<1>12. CASE Cancel(s)
  <2> DEFINE r == [task[s] EXCEPT !.cancelled = TRUE, !.listening = FALSE,
                   !.process = IF @ = "running" THEN "terminated" ELSE @]
  <2>1. r \in Task /\ Become(s, r)
    BY <1>12 DEF Cancel, Task
  <2>2. TaskMove(s, r) /\ ReadOne(s) /\ SendOne(s, r) /\ RegistryMove(s, r)
    BY <1>4, <1>12 DEF Cancel, Task, TaskMove, ReadOne, SendOne, RegistryMove
  <2> QED
    BY <1>12, <2>1, <2>2, StepMoves DEF Cancel
<1>13. CASE StopListening(s)
  <2> DEFINE r == [task[s] EXCEPT !.listening = FALSE]
  <2>1. r \in Task /\ Become(s, r)
    BY <1>13 DEF StopListening, Task
  <2>2. TaskMove(s, r) /\ ReadOne(s) /\ SendOne(s, r) /\ RegistryMove(s, r)
    BY <1>13 DEF StopListening, Task, TaskMove, ReadOne, SendOne, RegistryMove, transport
  <2> QED
    BY <1>13, <2>1, <2>2, StepMoves DEF StopListening, transport
<1>14. CASE ProcessExits(s)
  <2> DEFINE r == [task[s] EXCEPT !.process = "exited"]
  <2>1. r \in Task /\ Become(s, r)
    BY <1>14 DEF ProcessExits, Task
  <2>2. TaskMove(s, r) /\ ReadOne(s) /\ SendOne(s, r) /\ RegistryMove(s, r)
    BY <1>14 DEF ProcessExits, Task, TaskMove, ReadOne, SendOne, RegistryMove, transport
  <2> QED
    BY <1>14, <2>1, <2>2, StepMoves DEF ProcessExits, transport
<1>15. CASE Finish(s)
  <2> DEFINE r == [NoTask EXCEPT !.pc = "finish", !.process = "exited"]
  <2>1. r \in Task /\ Become(s, r)
    <3>1. 0 \in 0..MaxResults
      BY StreamAssumption
    <3>2. r \in Task
      BY <3>1 DEF NoTask, Task, Pcs
    <3> QED
      BY <1>15, <3>2 DEF Finish
  <2>2. TaskMove(s, r) /\ ReadOne(s) /\ SendOne(s, r) /\ RegistryMove(s, r)
    BY <1>15 DEF Finish, NoTask, TerminatedBy, DownMessages, TaskMove, ReadOne, SendOne, RegistryMove
  <2> QED
    BY <1>15, <2>1, <2>2, StepMoves DEF Finish
<1>16. CASE Pop(s)
  <2> DEFINE r == [task[s] EXCEPT !.pc = "close", !.victim = registry[cookie[s]]]
  <2>1. cookie[s] \in Sessions
    BY <1>16 DEF Pop
  <2>2. r \in Task /\ Become(s, r)
    BY <1>16, <2>1 DEF Pop, Task, Pcs
  <2>3. TaskMove(s, r) /\ ReadOne(s) /\ SendOne(s, r)
    BY <1>16 DEF Pop, Task, TaskMove, ReadOne, SendOne, transport
  <2>4. RegistryMove(s, r)
    BY <1>16, <2>1 DEF Pop, Popped, RegistryMove
  <2> QED
    BY <1>16, <2>2, <2>3, <2>4, StepMoves DEF Pop, transport
<1>17. CASE Close(s)
  <2> DEFINE v == task[s].victim
             r == [task[s] EXCEPT !.pc = "done", !.victim = None]
  <2>1. r \in Task /\ Become(s, r)
    BY <1>17 DEF Close, Task, Pcs
  <2>2. /\ task' \in [Sockets -> Task] /\ task'[s] = r
        /\ \A q \in Sockets : q # s => task'[q] = task[q]
    BY <2>1, TaskOK DEF IInv
  <2>3. v \in accepted => v \in Sockets /\ ready[v] # "unused"
    BY DEF IInv, Fresh
  <2>4. /\ down' \in [Sockets -> Seq(DownMessages)]
        /\ \A q \in Sockets : \A m : Has(down'[q], m) =>
              Has(down[q], m) \/ (ready[q] # "unused" /\ m = "closed")
    BY <1>17, <2>3, SentHas DEF Close, DownMessages, TransportTypeOK
  <2>5. /\ up' \in [Sockets -> Seq(UpMessages)]
        /\ \A q \in Sockets : \A m : Has(up'[q], m) => Has(up[q], m)
    <3>1. CASE up' = up
      BY <3>1 DEF TransportTypeOK
    <3>2. CASE v \in accepted /\ up' = [up EXCEPT ![v] = <<>>]
      <4>1. /\ <<>> \in Seq(UpMessages)
            /\ up \in [Sockets -> Seq(UpMessages)]
        BY DEF TransportTypeOK
      <4> HIDE DEF v
      <4> QED
        BY <2>3, <3>2, <4>1, EmptyHas
    <3> QED
      BY <1>17, <3>1, <3>2 DEF Close
  <2>6. TypeOK'
    BY <1>17, <2>2, <2>4, <2>5
    DEF Close, client, IInv, TypeOK, TransportTypeOK, ServerTypeOK, ClientTypeOK
  <2>7. ServerMove(s)
    BY <1>17, <2>2, <2>4, <2>5 DEF Close, ServerMove, Task
  <2> QED
    BY <2>6, <2>7, ServerMoveSafe
<1> QED
  BY <1>5, <1>6, <1>7, <1>8, <1>9, <1>10, <1>11, <1>12, <1>13, <1>14, <1>15, <1>16, <1>17
  DEF ServerStep

-----------------------------------------------------------------------------
(* The browser's steps *)

\* What the handlers of a socket do, as far as the invariant can tell.
BrowserMove ==
    /\ UNCHANGED <<server, cookie, accepted, wsRef, cancelledRef, pageOf>>
    /\ \A s \in Sockets :
          /\ ready'[s] = "unused" <=> ready[s] = "unused"
          /\ ready'[s] \in {"connecting", "open"} => ready[s] \in {"connecting", "open"}
          /\ \A m : Has(up'[s], m) =>
                Has(up[s], m) \/ (ready[s] # "unused" /\ m # "cancel")
          /\ \A m : Has(down'[s], m) => Has(down[s], m)
    /\ \A t \in Tabs :
          /\ \/ status'[t] \in {status[t], "error"}
             \/ \E s \in Sockets : /\ pageOf[s] = t /\ ready[s] = "open"
                                   /\ status'[t] \in {"completed", "stopped"}
                                   /\ Has(down[s], status'[t])
          /\ \A s \in shown'[t] : s \in shown[t] \/ (pageOf[s] = t /\ ready[s] = "open")

LEMMA BrowserMoveSafe ==
    ASSUME IInv, TypeOK', BrowserMove
    PROVE  IInv'
<1> USE DEF BrowserMove
<1>0. UNCHANGED <<registry, task, cookie, accepted, wsRef, cancelledRef, pageOf>>
  BY DEF server
<1>1. Fresh'
  BY <1>0 DEF IInv, Fresh
<1>2. Phases' /\ Carries'
  BY <1>0 DEF IInv, Phases, Carries
<1>3. EndsAnnounced'
  BY <1>0 DEF IInv, EndsAnnounced
<1>4. OnePage'
  BY <1>0 DEF IInv, OnePage
<1>5. Asked'
  BY <1>0 DEF IInv, Asked
<1>6. EntryHasHandler'
  BY <1>0 DEF IInv, EntryHasHandler
<1>7. EndShownIsReal'
  <2> SUFFICES ASSUME NEW t \in Tabs, status'[t] \in {"completed", "stopped"}
               PROVE  /\ wsRef[t] # None
                      /\ task[wsRef[t]].process = "exited"
                      /\ status'[t] = "stopped" => cancelledRef[t]
    BY <1>0 DEF EndShownIsReal
  <2>1. CASE status'[t] = status[t]
    BY <2>1 DEF IInv, EndShownIsReal
  <2>2. CASE status'[t] # status[t]
    <3>1. PICK s \in Sockets : pageOf[s] = t /\ ready[s] = "open" /\ Has(down[s], status'[t])
      BY <2>2
    <3>2. wsRef[t] = s /\ s # None
      BY <3>1, StreamAssumption DEF IInv, OnePage
    <3> QED
      BY <3>1, <3>2 DEF IInv, EndsAnnounced, Asked
  <2> QED
    BY <2>1, <2>2
<1>8. ResultsOfThisRun'
  BY <1>0 DEF IInv, ResultsOfThisRun, OnePage, TypeOK, ClientTypeOK
<1> QED
  BY <1>1, <1>2, <1>3, <1>4, <1>5, <1>6, <1>7, <1>8 DEF IInv

\* Shut, and the status an error leaves.
LEMMA ShutMoves ==
    ASSUME IInv, NEW s \in Sockets, Shut(s), ready[s] # "unused", UNCHANGED server,
           status' = status \/ status' = StatusAfterError(s),
           up' = up \/ up' = [up EXCEPT ![s] = Append(@, "disconnect")]
    PROVE  IInv'
<1>0. /\ ClientTypeOK /\ ServerTypeOK /\ TransportTypeOK
      /\ ready \in [Sockets -> ReadyStates]
      /\ up \in [Sockets -> Seq(UpMessages)] /\ down \in [Sockets -> Seq(DownMessages)]
  BY DEF IInv, TypeOK, TransportTypeOK
<1>1. /\ ready' = [ready EXCEPT ![s] = "closed"]
      /\ ready' \in [Sockets -> ReadyStates]
  BY <1>0 DEF Shut, ReadyStates
<1>2. /\ down' \in [Sockets -> Seq(DownMessages)]
      /\ \A q \in Sockets : \A m : Has(down'[q], m) => Has(down[q], m)
  <2>1. <<>> \in Seq(DownMessages)
    OBVIOUS
  <2> QED
    BY <1>0, <2>1, EmptyHas DEF Shut
<1>3. /\ up' \in [Sockets -> Seq(UpMessages)]
      /\ \A q \in Sockets : \A m : Has(up'[q], m) => Has(up[q], m) \/ (q = s /\ m = "disconnect")
  <2>1. /\ Append(up[s], "disconnect") \in Seq(UpMessages)
        /\ \A m : Has(Append(up[s], "disconnect"), m) => Has(up[s], m) \/ m = "disconnect"
    BY <1>0, AppendHas DEF UpMessages
  <2> QED
    BY <1>0, <2>1
<1>4. /\ status' \in [Tabs -> {"idle", "running", "completed", "stopped", "error"}]
      /\ \A t \in Tabs : status'[t] \in {status[t], "error"}
  BY <1>0 DEF StatusAfterError, StatusAfter, ClientTypeOK
<1>5. TypeOK'
  BY <1>0, <1>1, <1>2, <1>3, <1>4
  DEF Shut, server, TypeOK, TransportTypeOK, ServerTypeOK, ClientTypeOK
<1>6. BrowserMove
  BY <1>0, <1>1, <1>2, <1>3, <1>4 DEF Shut, BrowserMove, ClientTypeOK
<1> QED
  BY <1>5, <1>6, BrowserMoveSafe

LEMMA BrowserStepSafe ==
    ASSUME IInv, NEW s \in Sockets, BrowserStep(s) \/ LoseConnection(s), UNCHANGED server
    PROVE  IInv'
<1>0. /\ ClientTypeOK /\ ServerTypeOK /\ TransportTypeOK
      /\ ready \in [Sockets -> ReadyStates]
      /\ up \in [Sockets -> Seq(UpMessages)] /\ down \in [Sockets -> Seq(DownMessages)]
  BY DEF IInv, TypeOK, TransportTypeOK
\* A handler that takes a message off the channel.
<1>t. ASSUME down[s] # <<>>, down' = Take(s)
      PROVE  /\ down' \in [Sockets -> Seq(DownMessages)]
             /\ \A q \in Sockets : \A m : Has(down'[q], m) => Has(down[q], m)
             /\ Has(down[s], Head(down[s]))
  <2>1. /\ Tail(down[s]) \in Seq(DownMessages)
        /\ Has(down[s], Head(down[s]))
        /\ \A m : Has(Tail(down[s]), m) => Has(down[s], m)
    BY <1>0, <1>t, TailHas
  <2> QED
    BY <1>0, <1>t, <2>1 DEF Take
<1>1. CASE OnOpen(s)
  <2>1. /\ down' \in [Sockets -> Seq(DownMessages)]
        /\ \A q \in Sockets : \A m : Has(down'[q], m) => Has(down[q], m)
    BY <1>1, <1>t DEF OnOpen, HeadIs
  <2>2. /\ up' \in [Sockets -> Seq(UpMessages)]
        /\ \A q \in Sockets : \A m : Has(up'[q], m) => Has(up[q], m) \/ (q = s /\ m = "start")
    <3>1. /\ Append(up[s], "start") \in Seq(UpMessages)
          /\ \A m : Has(Append(up[s], "start"), m) => Has(up[s], m) \/ m = "start"
      BY <1>0, AppendHas DEF UpMessages
    <3> QED
      BY <1>0, <1>1, <3>1 DEF OnOpen
  <2>3. TypeOK'
    BY <1>0, <1>1, <2>1, <2>2
    DEF OnOpen, server, client, ReadyStates, TypeOK, TransportTypeOK, ServerTypeOK, ClientTypeOK
  <2>4. BrowserMove
    BY <1>0, <1>1, <2>1, <2>2 DEF OnOpen, BrowserMove, client
  <2> QED
    BY <2>3, <2>4, BrowserMoveSafe
<1>2. CASE OnResult(s)
  <2>1. /\ down' \in [Sockets -> Seq(DownMessages)]
        /\ \A q \in Sockets : \A m : Has(down'[q], m) => Has(down[q], m)
    BY <1>2, <1>t DEF OnResult, HeadIs
  <2>2. /\ shown' \in [Tabs -> SUBSET Sockets]
        /\ \A t \in Tabs : \A q \in shown'[t] : q \in shown[t] \/ (q = s /\ pageOf[s] = t)
    BY <1>0, <1>2 DEF OnResult, ClientTypeOK
  <2>3. TypeOK'
    BY <1>0, <1>2, <2>1, <2>2
    DEF OnResult, server, TypeOK, TransportTypeOK, ServerTypeOK, ClientTypeOK
  <2>4. BrowserMove
    BY <1>0, <1>2, <2>1, <2>2 DEF OnResult, BrowserMove
  <2> QED
    BY <2>3, <2>4, BrowserMoveSafe
<1>3. CASE OnEnd(s)
  <2>1. PICK m \in {"completed", "stopped", "error"} : HeadIs(down[s], m) /\ status' = StatusAfter(s, m)
    BY <1>3 DEF OnEnd
  <2>2. /\ down' \in [Sockets -> Seq(DownMessages)]
        /\ \A q \in Sockets : \A x : Has(down'[q], x) => Has(down[q], x)
        /\ Has(down[s], m)
    BY <1>3, <1>t, <2>1 DEF OnEnd, HeadIs
  <2>3. /\ status' \in [Tabs -> {"idle", "running", "completed", "stopped", "error"}]
        /\ \A t \in Tabs : status'[t] = status[t] \/ (status'[t] = m /\ pageOf[s] = t)
    BY <1>0, <2>1 DEF StatusAfter, ClientTypeOK
  <2>4. TypeOK'
    BY <1>0, <1>3, <2>2, <2>3
    DEF OnEnd, server, TypeOK, TransportTypeOK, ServerTypeOK, ClientTypeOK
  <2>5. BrowserMove
    BY <1>0, <1>3, <2>1, <2>2, <2>3 DEF OnEnd, BrowserMove
  <2> QED
    BY <2>4, <2>5, BrowserMoveSafe
<1>4. CASE OnClose(s)
  BY <1>4, ShutMoves DEF OnClose
<1>5. CASE OnHandshakeFailure(s)
  BY <1>5, ShutMoves DEF OnHandshakeFailure
<1>6. CASE LoseConnection(s)
  BY <1>6, ShutMoves DEF LoseConnection
<1> QED
  BY <1>1, <1>2, <1>3, <1>4, <1>5, <1>6 DEF BrowserStep

-----------------------------------------------------------------------------
(* The user's steps *)

\* What reset() does to the sockets.
LEMMA ResetFacts ==
    ASSUME IInv, NEW t \in Tabs
    PROVE  /\ ClosedByReset(t) \in [Sockets -> ReadyStates]
           /\ HungUp(t) \in [Sockets -> Seq(UpMessages)]
           /\ Undelivered(t) \in [Sockets -> Seq(DownMessages)]
           /\ \A q \in Sockets :
                 /\ ClosedByReset(t)[q] = "unused" <=> ready[q] = "unused"
                 /\ ClosedByReset(t)[q] \in {"connecting", "open"} =>
                       ready[q] \in {"connecting", "open"} /\ q # wsRef[t]
                 /\ \A m : Has(HungUp(t)[q], m) =>
                       Has(up[q], m) \/ (ready[q] # "unused" /\ m = "disconnect")
                 /\ \A m : Has(Undelivered(t)[q], m) => Has(down[q], m)
<1>0. /\ ready \in [Sockets -> ReadyStates]
      /\ up \in [Sockets -> Seq(UpMessages)] /\ down \in [Sockets -> Seq(DownMessages)]
  BY DEF IInv, TypeOK, TransportTypeOK
<1>1. \A x \in ReadyStates :
         /\ Closing(x) \in ReadyStates \ {"connecting", "open"}
         /\ Closing(x) = "unused" <=> x = "unused"
  BY DEF Closing, ReadyStates
<1>2. \A q \in Sockets :
         /\ Append(up[q], "disconnect") \in Seq(UpMessages)
         /\ \A m : Has(Append(up[q], "disconnect"), m) => Has(up[q], m) \/ m = "disconnect"
  BY <1>0, AppendHas DEF UpMessages
<1>3. <<>> \in Seq(DownMessages)
  OBVIOUS
<1>4. /\ ClosedByReset(t) \in [Sockets -> ReadyStates]
      /\ \A q \in Sockets :
            /\ ClosedByReset(t)[q] = "unused" <=> ready[q] = "unused"
            /\ ClosedByReset(t)[q] \in {"connecting", "open"} =>
                  ready[q] \in {"connecting", "open"} /\ q # wsRef[t]
  BY <1>0, <1>1 DEF ClosedByReset
<1>5. /\ HungUp(t) \in [Sockets -> Seq(UpMessages)]
      /\ \A q \in Sockets : \A m : Has(HungUp(t)[q], m) =>
            Has(up[q], m) \/ (ready[q] # "unused" /\ m = "disconnect")
  BY <1>0, <1>2 DEF HungUp
<1>6. /\ Undelivered(t) \in [Sockets -> Seq(DownMessages)]
      /\ \A q \in Sockets : \A m : Has(Undelivered(t)[q], m) => Has(down[q], m)
  BY <1>0, <1>3, EmptyHas DEF Undelivered
<1> QED
  BY <1>4, <1>5, <1>6

LEMMA UserStepSafe ==
    ASSUME IInv, NEW t \in Tabs, UserStep(t), UNCHANGED server
    PROVE  IInv'
<1>0. /\ ClientTypeOK /\ ServerTypeOK /\ TransportTypeOK
      /\ ready \in [Sockets -> ReadyStates]
      /\ up \in [Sockets -> Seq(UpMessages)] /\ down \in [Sockets -> Seq(DownMessages)]
      /\ None \notin Sockets \cup Sessions \cup Tabs /\ SessionOf \in [Tabs -> Sessions]
  BY StreamAssumption DEF IInv, TypeOK, TransportTypeOK
<1>1. CASE \E s \in Sockets : StartRun(t, s)
  <2>1. PICK s \in Sockets : StartRun(t, s)
    BY <1>1
  <2>2. /\ task[s].pc = "none" /\ pageOf[s] = None
        /\ ~Has(up[s], "cancel") /\ ~Has(down[s], "stopped") /\ ~task[s].cancelled
    BY <2>1 DEF StartRun, IInv, Fresh, Phases, UpMessages, DownMessages
  <2>3. \A u \in Tabs : wsRef[u] # s
    BY <1>0, <2>2 DEF IInv, OnePage
  <2>4. /\ ready' \in [Sockets -> ReadyStates]
        /\ ready'[s] = "connecting"
        /\ \A q \in Sockets \ {s} :
              /\ ready'[q] = "unused" <=> ready[q] = "unused"
              /\ ready'[q] \in {"connecting", "open"} =>
                    ready[q] \in {"connecting", "open"} /\ q # wsRef[t]
    BY <2>1, ResetFacts DEF StartRun, ReadyStates
  <2>5. /\ up' \in [Sockets -> Seq(UpMessages)] /\ down' \in [Sockets -> Seq(DownMessages)]
        /\ \A q \in Sockets : \A m : Has(up'[q], m) =>
              Has(up[q], m) \/ (ready[q] # "unused" /\ m = "disconnect")
        /\ \A q \in Sockets : \A m : Has(down'[q], m) => Has(down[q], m)
    BY <2>1, ResetFacts DEF StartRun
  <2>6. TypeOK'
    BY <1>0, <2>1, <2>4, <2>5
    DEF StartRun, server, TypeOK, TransportTypeOK, ServerTypeOK, ClientTypeOK
  <2>7. /\ wsRef' = [wsRef EXCEPT ![t] = s] /\ pageOf' = [pageOf EXCEPT ![s] = t]
        /\ cancelledRef' = [cancelledRef EXCEPT ![t] = FALSE]
        /\ status' = [status EXCEPT ![t] = "running"] /\ shown' = [shown EXCEPT ![t] = {}]
        /\ cookie' = [cookie EXCEPT ![s] = SessionOf[t]]
        /\ accepted' = accepted /\ task' = task /\ registry' = registry
        /\ ready[s] = "unused"
    BY <2>1 DEF StartRun, server
  <2>8. Fresh' /\ Carries' /\ Phases' /\ EndsAnnounced'
    BY <1>0, <2>4, <2>5, <2>7 DEF IInv, Fresh, Carries, Phases, EndsAnnounced, TransportTypeOK
  <2>9. OnePage'
    BY <1>0, <2>2, <2>3, <2>4, <2>7 DEF IInv, OnePage, ClientTypeOK
  <2>10. Asked'
    BY <1>0, <2>2, <2>5, <2>7 DEF IInv, Asked, ClientTypeOK
  <2>11. EntryHasHandler'
    BY <1>0, <2>2, <2>7 DEF IInv, EntryHasHandler, ServerTypeOK, TransportTypeOK
  <2>12. EndShownIsReal' /\ ResultsOfThisRun'
    BY <1>0, <2>7 DEF IInv, EndShownIsReal, ResultsOfThisRun, ClientTypeOK
  <2> QED
    BY <2>6, <2>8, <2>9, <2>10, <2>11, <2>12 DEF IInv
<1>2. CASE ResetPage(t)
  <2>1. /\ TypeOK' /\ UNCHANGED <<cookie, accepted, pageOf, task, registry>>
        /\ wsRef' = [wsRef EXCEPT ![t] = None]
        /\ cancelledRef' = [cancelledRef EXCEPT ![t] = TRUE]
        /\ status' = [status EXCEPT ![t] = "idle"] /\ shown' = [shown EXCEPT ![t] = {}]
    BY <1>0, <1>2, ResetFacts
    DEF ResetPage, server, TypeOK, TransportTypeOK, ServerTypeOK, ClientTypeOK
  <2>2. \A q \in Sockets :
           /\ ready'[q] = "unused" <=> ready[q] = "unused"
           /\ ready'[q] \in {"connecting", "open"} =>
                 ready[q] \in {"connecting", "open"} /\ q # wsRef[t]
           /\ \A m : Has(up'[q], m) => Has(up[q], m) \/ (ready[q] # "unused" /\ m = "disconnect")
           /\ \A m : Has(down'[q], m) => Has(down[q], m)
    BY <1>2, ResetFacts DEF ResetPage
  <2>3. Fresh' /\ Carries' /\ Phases' /\ EndsAnnounced'
    BY <2>1, <2>2 DEF IInv, Fresh, Carries, Phases, EndsAnnounced
  <2>4. OnePage'
    BY <1>0, <2>1, <2>2 DEF IInv, OnePage, ClientTypeOK
  <2>5. Asked'
    BY <1>0, <2>1, <2>2 DEF IInv, Asked, ClientTypeOK
  <2>6. EntryHasHandler' /\ EndShownIsReal' /\ ResultsOfThisRun'
    BY <1>0, <2>1 DEF IInv, EntryHasHandler, EndShownIsReal, ResultsOfThisRun, ClientTypeOK
  <2> QED
    BY <2>1, <2>3, <2>4, <2>5, <2>6 DEF IInv
<1>3. CASE StopRun(t)
  <2>1. /\ UNCHANGED <<ready, cookie, accepted, down, status, wsRef, shown, pageOf, task, registry>>
        /\ cancelledRef' = [cancelledRef EXCEPT ![t] = TRUE]
    BY <1>3 DEF StopRun, server
  <2>2. /\ up' \in [Sockets -> Seq(UpMessages)]
        /\ \A q \in Sockets : \A m : Has(up'[q], m) =>
              Has(up[q], m) \/ (ready[q] # "unused" /\ q = wsRef[t])
    <3>1. CASE up' = up
      BY <1>0, <3>1
    <3>2. CASE up' # up
      <4>1. PICK s \in Sockets : /\ s = wsRef[t] /\ ready[s] = "open"
                                 /\ up' = [up EXCEPT ![s] = Append(@, "cancel")]
        BY <1>0, <1>3, <3>2 DEF StopRun, TransportTypeOK
      <4>2. /\ Append(up[s], "cancel") \in Seq(UpMessages)
            /\ \A m : Has(Append(up[s], "cancel"), m) => Has(up[s], m) \/ m = "cancel"
        <5>1. up[s] \in Seq(UpMessages) /\ "cancel" \in UpMessages
          BY <1>0, <4>1 DEF UpMessages
        <5> QED
          BY <5>1, AppendHas
      <4> QED
        BY <1>0, <4>1, <4>2
    <3> QED
      BY <3>1, <3>2
  <2>3. TypeOK'
    BY <1>0, <2>1, <2>2 DEF TypeOK, TransportTypeOK, ServerTypeOK, ClientTypeOK
  <2>4. Fresh' /\ Carries' /\ Phases' /\ EndsAnnounced' /\ OnePage'
    BY <2>1, <2>2 DEF IInv, Fresh, Carries, Phases, EndsAnnounced, OnePage
  <2>5. Asked'
    BY <1>0, <2>1, <2>2 DEF IInv, Asked, OnePage, ClientTypeOK
  <2>6. EntryHasHandler' /\ EndShownIsReal' /\ ResultsOfThisRun'
    BY <1>0, <2>1 DEF IInv, EntryHasHandler, EndShownIsReal, ResultsOfThisRun, ClientTypeOK
  <2> QED
    BY <2>3, <2>4, <2>5, <2>6 DEF IInv
<1>4. CASE Navigate(t)
  <2>1. /\ UNCHANGED <<ready, cookie, accepted, up, down, task, registry>>
        /\ wsRef' = [wsRef EXCEPT ![t] = None]
        /\ pageOf' = [s \in Sockets |-> IF pageOf[s] = t THEN None ELSE pageOf[s]]
        /\ cancelledRef' = [cancelledRef EXCEPT ![t] = FALSE]
        /\ status' = [status EXCEPT ![t] = "idle"] /\ shown' = [shown EXCEPT ![t] = {}]
    BY <1>4 DEF Navigate, server, transport
  <2>2. TypeOK'
    BY <1>0, <2>1 DEF TypeOK, TransportTypeOK, ServerTypeOK, ClientTypeOK
  <2>3. Fresh' /\ Carries' /\ Phases' /\ EndsAnnounced'
    BY <1>0, <2>1 DEF IInv, Fresh, Carries, Phases, EndsAnnounced
  <2>4. OnePage'
    BY <1>0, <2>1 DEF IInv, OnePage, ClientTypeOK
  <2>5. Asked'
    BY <1>0, <2>1 DEF IInv, Asked, ClientTypeOK
  <2>6. EntryHasHandler' /\ EndShownIsReal' /\ ResultsOfThisRun'
    BY <1>0, <2>1 DEF IInv, EntryHasHandler, EndShownIsReal, ResultsOfThisRun, ClientTypeOK
  <2> QED
    BY <2>2, <2>3, <2>4, <2>5, <2>6 DEF IInv
<1> QED
  BY <1>1, <1>2, <1>3, <1>4 DEF UserStep

-----------------------------------------------------------------------------
(* The theorems *)

LEMMA Inductive ==
    /\ Init => IInv
    /\ IInv /\ [Next]_vars => IInv'
<1>1. ASSUME Init PROVE IInv
  <2>1. <<>> \in Seq(UpMessages) /\ <<>> \in Seq(DownMessages)
    OBVIOUS
  <2>2. 0 \in 0..MaxResults
    BY StreamAssumption
  <2>3. NoTask \in Task
    BY <2>2 DEF NoTask, Task, Pcs
  <2>4. TypeOK
    BY <1>1, <2>1, <2>3
    DEF Init, TransportInit, ServerInit, ClientInit, TypeOK, TransportTypeOK, ServerTypeOK,
        ClientTypeOK, ReadyStates
  <2>5. Fresh /\ Carries /\ Phases /\ EndsAnnounced
    BY <1>1, EmptyHas
    DEF Init, TransportInit, ServerInit, ClientInit, NoTask, Fresh, Carries, Phases, EndsAnnounced
  <2>6. OnePage /\ Asked
    BY <1>1, EmptyHas, StreamAssumption
    DEF Init, TransportInit, ServerInit, ClientInit, NoTask, OnePage, Asked
  <2>7. EntryHasHandler /\ EndShownIsReal /\ ResultsOfThisRun
    BY <1>1 DEF Init, ServerInit, ClientInit, EntryHasHandler, EndShownIsReal, ResultsOfThisRun
  <2> QED
    BY <2>4, <2>5, <2>6, <2>7 DEF IInv
<1>2. ASSUME IInv, [Next]_vars PROVE IInv'
  <2>1. CASE UNCHANGED vars
    BY <1>2, <2>1
    DEF vars, transport, server, client, IInv, TypeOK, TransportTypeOK, ServerTypeOK, ClientTypeOK,
        Fresh, Carries, Phases, EndsAnnounced, OnePage, Asked, EntryHasHandler, EndShownIsReal,
        ResultsOfThisRun
  <2>2. CASE Next
    BY <1>2, <2>2, ServerStepSafe, BrowserStepSafe, UserStepSafe DEF Next
  <2> QED
    BY <1>2, <2>1, <2>2
<1> QED
  BY <1>1, <1>2

\* The types, and the places a task may be in.
THEOREM TypeCorrect == Spec => []TypeOK
<1>1. IInv => TypeOK
  BY DEF IInv
<1> QED
  BY <1>1, Inductive, PTL DEF Spec

\* ConnectionManager leaves no entry behind, however connect() and disconnect()
\* of one session's sockets interleave.
THEOREM RegistryIsServed == Spec => []EntryHasHandler
<1>1. IInv => EntryHasHandler
  BY DEF IInv
<1> QED
  BY <1>1, Inductive, PTL DEF Spec

\* A page never shows an end that its own run did not have: the complete message
\* it acts on comes from its current socket, after the process has exited.
THEOREM EndsAreReal == Spec => []EndShownIsReal
<1>1. IInv => EndShownIsReal
  BY DEF IInv
<1> QED
  BY <1>1, Inductive, PTL DEF Spec

\* Nor does it show results of an earlier run of its own, or of another tab's.
THEOREM ResultsAreOwn == Spec => []ResultsOfThisRun
<1>1. IInv => ResultsOfThisRun
  BY DEF IInv
<1> QED
  BY <1>1, Inductive, PTL DEF Spec

=============================================================================
