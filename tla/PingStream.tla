------------------------------- MODULE PingStream -------------------------------
(***************************************************************************)
(* handle_ping_stream from the moment the ping process runs: four tasks    *)
(* (read_stdout, listen_cancel, watch_timeouts and the handler itself)     *)
(* share results_by_seq, received_seqs, cancelled and the process.  A send *)
(* hands its frame over at once and may then suspend the task, so a step   *)
(* here is what a task does from one resumption to its next send.          *)
(*                                                                         *)
(* Notices for the page (lines of stderr, local errors) are left out but    *)
(* for the failure of sending one.                                         *)
(*                                                                         *)
(* clock counts whole seconds (PING_INTERVAL) since "start"; any task may  *)
(* lag behind it.  What ping prints is modelled from how PingTool parses   *)
(* it: replies, lines about unreachable hosts, which carry no sequence     *)
(* number the parser knows, and the statistics block.                      *)
(***************************************************************************)
EXTENDS Naturals, Sequences, FiniteSets, FiniteSetsExt

CONSTANTS
    Counts,         \* values of the parameter count, 0 for unlimited
    Timeouts,       \* values of the parameter timeout
    Limits,         \* values of the parameter max_duration
    MaxSeq,         \* sequence numbers of this instance (a bound)
    Fails           \* whether the page may go away

VARIABLES
    param,          \* [count, timeout, limit]
    clock,
    process,        \* "running", "terminated" (SIGTERM), "killed", "exited"
    transmitted,    \* packets ping has sent
    open,           \* packets it has printed nothing about yet
    pipe,           \* lines printed and not read
    results,        \* results_by_seq: seq -> "none", "ok", "timeout"
    received,       \* received_seqs
    cancelled,
    stats,          \* the statistics read: [tx, rx]; tx = 0 when there are none
    reader,         \* "reading", "eof", "broken"
    watcher,        \* [now, next]; next = 0 while it sleeps, MaxSeq + 2 when it has ended
    listener,       \* "listening", "ended"
    page,           \* "on", "cancelling", "gone"
    main,           \* "wait", "kill", "drain", "fill", "done", "failed"
    timedOut,
    sent,           \* seq -> the results sent to the page, in order
    summary         \* [tx, rx, by] of the complete message

input == <<param, page>>
ping == <<process, transmitted, open, pipe>>
tasks == <<reader, watcher, listener, main, timedOut>>
data == <<results, received, cancelled, stats>>
output == <<sent, summary>>
vars == <<input, clock, ping, tasks, data, output>>

ASSUME PingAssumption ==
    /\ MaxSeq \in Nat
    /\ Counts \subseteq 0..MaxSeq
    /\ Timeouts \subseteq Nat /\ Limits \subseteq Nat \ {0}
    /\ Fails \in BOOLEAN

Seqs == 1..MaxSeq
Asleep == 0
Ended == MaxSeq + 2

Lines == [kind : {"reply"}, seq : Seqs] \cup [kind : {"unreachable"}]
         \cup [kind : {"stats"}, tx : 0..MaxSeq, rx : 0..MaxSeq]

TypeOK ==
    /\ param \in [count : Counts, timeout : Timeouts, limit : Limits]
    /\ clock \in Nat
    /\ process \in {"running", "terminated", "killed", "exited"}
    /\ transmitted \in 0..MaxSeq
    /\ open \subseteq Seqs
    /\ pipe \in Seq(Lines)
    /\ results \in [Seqs -> {"none", "ok", "timeout"}]
    /\ received \subseteq Seqs
    /\ cancelled \in BOOLEAN
    /\ stats \in [tx : 0..MaxSeq, rx : 0..MaxSeq]
    /\ reader \in {"reading", "eof", "broken"}
    /\ watcher \in [now : Nat, next : 0..MaxSeq + 2]
    /\ listener \in {"listening", "ended"}
    /\ page \in {"on", "cancelling", "gone"}
    /\ main \in {"wait", "kill", "drain", "fill", "done", "failed"}
    /\ timedOut \in BOOLEAN
    /\ sent \in [Seqs -> Seq({"ok", "timeout"})]
    /\ summary \in [tx : 0..MaxSeq, rx : 0..MaxSeq, by : {"none", "completed", "user", "max_duration"}]

Init ==
    /\ param \in [count : Counts, timeout : Timeouts, limit : Limits]
    /\ clock = 0
    /\ process = "running" /\ transmitted = 0 /\ open = {} /\ pipe = <<>>
    /\ results = [s \in Seqs |-> "none"]
    /\ received = {} /\ cancelled = FALSE /\ stats = [tx |-> 0, rx |-> 0]
    /\ reader = "reading" /\ listener = "listening"
    /\ watcher = [now |-> 0, next |-> IF param.count = 0 THEN Ended ELSE Asleep]
    /\ page = "on" /\ main = "wait" /\ timedOut = FALSE
    /\ sent = [s \in Seqs |-> <<>>]
    /\ summary = [tx |-> 0, rx |-> 0, by |-> "none"]

-----------------------------------------------------------------------------
(* Time, and the process *)

\* Nothing changes after the time limit but that the limit is noticed.
Tick ==
    /\ clock < param.limit
    /\ clock' = clock + 1
    /\ UNCHANGED <<input, ping, tasks, data, output>>

Budget == IF param.count = 0 THEN MaxSeq ELSE param.count

\* Packet s leaves s - 1 seconds after the start, or later.
Transmit ==
    /\ process = "running"
    /\ transmitted < Budget /\ transmitted <= clock
    /\ transmitted' = transmitted + 1
    /\ open' = open \cup {transmitted + 1}
    /\ UNCHANGED <<input, clock, process, pipe, tasks, data, output>>

\* A reply, early, late or out of order, or an ICMP error.
PrintLine(s, line) ==
    /\ process = "running"
    /\ s \in open
    /\ pipe' = Append(pipe, line)
    /\ open' = open \ {s}
    /\ UNCHANGED <<input, clock, process, transmitted, tasks, data, output>>

Replied == {s \in Seqs : results[s] = "ok"} \cup {pipe[i].seq : i \in {j \in DOMAIN pipe : pipe[j].kind = "reply"}}

Statistics == [kind |-> "stats", tx |-> transmitted, rx |-> Cardinality(Replied)]

\* ping ends when its packets are sent and answered or given up, or at its own
\* deadline (-w, unlimited mode only), with its statistics.
EndByItself ==
    /\ process = "running"
    /\ IF param.count = 0 THEN clock >= param.limit ELSE transmitted = param.count
    /\ process' = "exited"
    /\ pipe' = Append(pipe, Statistics)
    /\ UNCHANGED <<input, clock, transmitted, open, tasks, data, output>>

\* SIGTERM may leave ping no time for its statistics, SIGKILL does not.
EndBySignal ==
    /\ process \in {"terminated", "killed"}
    /\ process' = "exited"
    /\ \/ UNCHANGED pipe
       \/ process = "terminated" /\ pipe' = Append(pipe, Statistics)
    /\ UNCHANGED <<input, clock, transmitted, open, tasks, data, output>>

-----------------------------------------------------------------------------
(* Sends *)

\* Mutated form: a result that is there stays.
RecordFirst(s, status) ==
    /\ results' = [results EXCEPT ![s] = IF @ = "none" THEN status ELSE @]
    /\ received' = received \cup {s}

\* A result for s, recorded and sent; the page may be out of reach.
Record(s, status) ==
    /\ results' = [results EXCEPT ![s] = status]
    /\ received' = received \cup {s}

Deliver(s, status) == sent' = [sent EXCEPT ![s] = Append(@, status)]

Raises == page = "gone"

-----------------------------------------------------------------------------
(* read_stdout *)

\* The number a line without one gets: max(results_by_seq, default=0) + 1.
NextFree == Max({0} \cup {s \in Seqs : results[s] # "none"}) + 1

\* What a line that yields a result is about, and what it says.
ItemSeq(line) == IF line.kind = "reply" THEN line.seq ELSE NextFree
ItemStatus(line) == IF line.kind = "reply" THEN "ok" ELSE "timeout"

\* The bound on sequence numbers leaves out lines past it.
ReadResult ==
    LET line == Head(pipe)
    IN  /\ reader = "reading" /\ pipe # <<>> /\ line.kind # "stats"
        /\ pipe' = Tail(pipe)
        /\ IF ItemSeq(line) \in Seqs
           THEN /\ Record(ItemSeq(line), ItemStatus(line))
                /\ \/ Deliver(ItemSeq(line), ItemStatus(line)) /\ UNCHANGED reader
                   \/ Raises /\ reader' = "broken" /\ UNCHANGED sent
           ELSE UNCHANGED <<results, received, reader, sent>>
        /\ UNCHANGED <<input, clock, process, transmitted, open, watcher, listener, main,
                       timedOut, cancelled, stats, summary>>

ReadStats ==
    /\ reader = "reading" /\ pipe # <<>> /\ Head(pipe).kind = "stats"
    /\ pipe' = Tail(pipe)
    /\ stats' = [tx |-> Head(pipe).tx, rx |-> Head(pipe).rx]
    /\ UNCHANGED <<input, clock, process, transmitted, open, tasks, results, received,
                   cancelled, output>>

ReadEof ==
    /\ reader = "reading" /\ pipe = <<>> /\ process = "exited"
    /\ reader' = "eof"
    /\ UNCHANGED <<input, clock, ping, watcher, listener, main, timedOut, data, output>>

-----------------------------------------------------------------------------
(* watch_timeouts *)

\* The loop's condition is looked at once per round.
WatchRound ==
    /\ watcher.next = Asleep
    /\ watcher' = IF process # "exited" /\ ~cancelled
                  THEN [now |-> clock, next |-> 1] ELSE [now |-> 0, next |-> Ended]
    /\ UNCHANGED <<input, clock, ping, reader, listener, main, timedOut, data, output>>

\* Mutated form: answered packets time out like the others.
OverdueAnyway(s) == param.count >= s /\ watcher.now >= s - 1 + param.timeout

Overdue(s) ==
    /\ s <= param.count /\ s \notin received
    /\ watcher.now >= (s - 1) + param.timeout

WatchSeq ==
    LET late == {s \in Seqs : s >= watcher.next /\ Overdue(s)}
        s == Min(late)
    IN  /\ watcher.next \in Seqs \cup {MaxSeq + 1}
        /\ IF late = {}
           THEN /\ watcher' = [now |-> 0, next |-> Asleep]
                /\ UNCHANGED <<results, received, sent>>
           ELSE /\ Record(s, "timeout")
                /\ \/ /\ Deliver(s, "timeout")
                      /\ watcher' = [watcher EXCEPT !.next = s + 1]
                   \/ /\ Raises
                      /\ watcher' = [now |-> 0, next |-> Ended]
                      /\ UNCHANGED sent
        /\ UNCHANGED <<input, clock, ping, reader, listener, main, timedOut, cancelled, stats, summary>>

-----------------------------------------------------------------------------
(* listen_cancel *)

Cancel ==
    /\ listener = "listening" /\ page = "cancelling"
    /\ listener' = "ended"
    /\ cancelled' = TRUE
    /\ process' = IF process = "running" THEN "terminated" ELSE process
    /\ UNCHANGED <<input, clock, transmitted, open, pipe, reader, watcher, main, timedOut,
                   results, received, stats, output>>

HearDisconnect ==
    /\ listener = "listening" /\ page = "gone"
    /\ listener' = "ended"
    /\ UNCHANGED <<input, clock, ping, reader, watcher, main, timedOut, data, output>>

-----------------------------------------------------------------------------
(* The handler *)

\* Mutated form: the limit is noticed, and the process left alone.
LeftRunning == process

\* kill(), unless the process has ended.
AfterLimit == IF process = "exited" THEN process ELSE "killed"

TimeLimit ==
    /\ main = "wait" /\ clock >= param.limit
    /\ main' = "kill"
    /\ timedOut' = TRUE
    /\ process' = AfterLimit
    /\ UNCHANGED <<input, clock, transmitted, open, pipe, reader, watcher, listener, data, output>>

\* wait() returns: the listener and the watcher are cancelled.
ProcessGone ==
    /\ main \in {"wait", "kill"} /\ process = "exited"
    /\ main' = "drain"
    /\ listener' = "ended"
    /\ watcher' = [now |-> 0, next |-> Ended]
    /\ UNCHANGED <<input, clock, ping, reader, timedOut, data, output>>

\* Mutated form: the rest of the output is not waited for.
WithoutReader == TRUE

\* await read_task
ReaderDone == reader = "eof"

Drained ==
    /\ main = "drain" /\ ReaderDone
    /\ main' = "fill"
    /\ UNCHANGED <<input, clock, ping, reader, watcher, listener, timedOut, data, output>>

\* use_count: ping's own count, else what was asked for, else what was seen;
\* after the time limit no more than fit into it.
LastResult == Max({0} \cup {s \in Seqs : results[s] # "none"})

UseCount ==
    LET known == IF stats.tx > 0 THEN stats.tx
                 ELSE IF param.count > 0 THEN param.count ELSE LastResult
    IN  IF timedOut THEN Min({known, param.limit}) ELSE known

Missing == {s \in 1..UseCount : s \notin received /\ results[s] = "none"}

\* Each missing one in turn; received_seqs is left alone.
FillOne ==
    LET s == Min(Missing)
    IN  /\ main = "fill" /\ Missing # {}
        /\ results' = [results EXCEPT ![s] = "timeout"]
        /\ \/ Deliver(s, "timeout") /\ UNCHANGED main
           \/ Raises /\ main' = "failed" /\ UNCHANGED sent
        /\ UNCHANGED <<input, clock, ping, reader, watcher, listener, timedOut, received,
                       cancelled, stats, summary>>

OkCount == Cardinality({s \in Seqs : results[s] = "ok"})

\* The statistics' counts, or after a time limit those of _build_summary.
Summary ==
    LET by == IF timedOut THEN "max_duration" ELSE IF cancelled THEN "user" ELSE "completed"
    IN  IF stats.tx > 0 /\ ~timedOut
        THEN [tx |-> stats.tx, rx |-> stats.rx, by |-> by]
        ELSE [tx |-> Max({UseCount, LastResult}), rx |-> OkCount, by |-> by]

Complete ==
    /\ main = "fill" /\ Missing = {}
    /\ \/ main' = "done" /\ summary' = Summary
       \/ Raises /\ main' = "failed" /\ UNCHANGED summary
    /\ UNCHANGED <<input, clock, ping, reader, watcher, listener, timedOut, data, sent>>

\* await read_task raises what the reader died of, await stderr_task what a notice
\* that could not be sent raised.
ReaderFailed ==
    /\ main = "drain"
    /\ \/ reader = "broken"
       \/ reader = "eof" /\ Raises
    /\ main' = "failed"
    /\ UNCHANGED <<input, clock, ping, reader, watcher, listener, timedOut, data, output>>

-----------------------------------------------------------------------------
(* The page *)

PressStop ==
    /\ page = "on" /\ main \in {"wait", "kill"}
    /\ page' = "cancelling"
    /\ UNCHANGED <<param, clock, ping, tasks, data, output>>

Leave ==
    /\ Fails /\ page # "gone"
    /\ page' = "gone"
    /\ UNCHANGED <<param, clock, ping, tasks, data, output>>

-----------------------------------------------------------------------------

Process ==
    \/ Transmit
    \/ \E s \in open : PrintLine(s, [kind |-> "reply", seq |-> s])
    \/ \E s \in open : PrintLine(s, [kind |-> "unreachable"])
    \/ EndByItself \/ EndBySignal

Reader == ReadResult \/ ReadStats \/ ReadEof
Watcher == WatchRound \/ WatchSeq
Listener == Cancel \/ HearDisconnect
Handler ==
    TimeLimit \/ ProcessGone \/ Drained \/ FillOne \/ Complete \/ ReaderFailed

Next == Tick \/ Process \/ Reader \/ Watcher \/ Listener \/ Handler \/ PressStop \/ Leave

\* Time passes, the kernel ends a process that was sent a signal, and the event
\* loop resumes the reader and the handler.  ping itself need never end.
Spec ==
    /\ Init /\ [][Next]_vars
    /\ WF_vars(Tick) /\ WF_vars(EndBySignal) /\ WF_vars(Reader) /\ WF_vars(Handler)

-----------------------------------------------------------------------------
(* Properties *)

\* A sequence number is answered once, or timed out once and answered late:
\* never a time-out after the reply it contradicts, never the same thing twice,
\* whichever of reader, watcher and handler comes first.
AnsweredOnce ==
    \A s \in Seqs : sent[s] \in {<<>>, <<"ok">>, <<"timeout">>, <<"timeout", "ok">>}

\* What the page shows last for a sequence number is what the summary is made
\* from, as long as the page is there.
PageAgrees ==
    page # "gone" =>
        \A s \in Seqs : IF sent[s] = <<>> THEN results[s] = "none"
                        ELSE results[s] = sent[s][Len(sent[s])]

\* The summary counts the replies the page was sent, no more than the packets it
\* speaks of, and every packet it speaks of has a result on the page.
SummaryAgrees ==
    main = "done" /\ page # "gone" =>
        /\ summary.rx = Cardinality({s \in Seqs : sent[s] # <<>> /\ sent[s][Len(sent[s])] = "ok"})
        /\ summary.rx <= summary.tx
        /\ \A s \in 1..UseCount : sent[s] # <<>>

\* The handler keeps its side of the contract: the process ends, then comes the
\* complete message, once, or nothing when the page is gone; and it does come.
Contract == INSTANCE StreamHandler WITH
    process <- IF process = "exited" THEN "exited" ELSE "running",
    lastWord <- CASE main = "done" -> "complete" [] main = "failed" -> "failed" [] OTHER -> "none"

KeepsContract == Contract!Spec
=============================================================================
