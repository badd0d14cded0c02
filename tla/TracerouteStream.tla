---------------------------- MODULE TracerouteStream ----------------------------
(***************************************************************************)
(* handle_traceroute_stream once its target is resolved and the setting     *)
(* read: read_stdout, listen_cancel and the handler share the hop being     *)
(* collected, cancelled and the process.  A step is what a task does from   *)
(* one resumption to the next; a line and the hops it completes are one     *)
(* step, since nobody else touches what read_stdout collects before it has  *)
(* ended.                                                                   *)
(*                                                                         *)
(* traceroute prints a hop on one line or on several, and a signal cuts its *)
(* last line anywhere, down to the number it begins with.  stderr is only   *)
(* logged, and left out.                                                    *)
(***************************************************************************)
EXTENDS TracerouteOutput

CONSTANTS
    Names,          \* host names, beside the addresses
    Asked,          \* values of the parameter target
    Zones,          \* what the lookups of the names meet
    MaxCnames,      \* CNAME_MAX_HOPS
    Settings,       \* values of module.traceroute.show_private_hops, "unread" when it cannot be
    Lines,          \* the items a line may carry in this instance
    PerHop,         \* probes_per_hop
    MaxHops,        \* max_distance
    Fails           \* whether the page may go away

VARIABLES
    target,         \* resolved_ip
    setting,        \* the value of this run
    process,        \* "running", "terminated" (SIGTERM), "killed", "exited"
    out,            \* the lines printed: [hop, items], hop = 0 on a continuation
    readTo,         \* how many of them read_stdout has taken
    hops,           \* [current: the hop being collected, sent, last: hops_sent, reached]
    cancelled,
    reader,         \* "reading", "eof", "broken"
    listener,       \* "listening", "ended"
    page,           \* "on", "cancelling", "gone"
    main,           \* "wait", "kill", "drain", "flush", "done", "failed"
    timedOut,
    summary         \* [hops, reached, by] of the complete message

input == <<target, setting>>
trace == <<process, out>>
tasks == <<reader, listener, main, timedOut>>
vars == <<input, trace, readTo, hops, cancelled, tasks, page, summary>>

\* What a lookup meets: addresses, none also when it fails, or no such domain.
Answer == [ips : Seq(Addresses), nx : BOOLEAN]

\* traceroute prints who answered in front of a probe.
Spoken(items) == \A i \in DOMAIN items : IsWho(items[i]) => i + 1 \in DOMAIN items /\ IsProbe(items[i + 1])

ASSUME StreamAssumption ==
    /\ Names \cap Addresses = {} /\ Asked \subseteq Names \cup Addresses
    /\ Zones \subseteq [Names -> [a : Answer, aaaa : Answer, cname : Names \cup {"none"}]]
    /\ MaxCnames \in Nat
    /\ Settings \subseteq {"absent", "on", "off", "unread"}
    /\ Lines \subseteq Seq(Items) /\ \A line \in Lines : Spoken(line)
    /\ PerHop \in Nat \ {0} /\ MaxHops \in Nat \ {0}
    /\ Fails \in BOOLEAN

NoHop == [hop |-> 0, items |-> <<>>]

TypeOK ==
    /\ target \in Addresses
    /\ setting \in Settings
    /\ process \in {"running", "terminated", "killed", "exited"}
    /\ out \in Seq([hop : 0..MaxHops, items : Seq(Items)])
    /\ readTo \in 0..Len(out)
    /\ hops \in [current : [hop : 0..MaxHops, items : Seq(Items)], last : 0..MaxHops,
                 sent : Seq([hop : 1..MaxHops, items : Seq(Items), reached : BOOLEAN]), reached : BOOLEAN]
    /\ cancelled \in BOOLEAN /\ timedOut \in BOOLEAN
    /\ reader \in {"reading", "eof", "broken"}
    /\ listener \in {"listening", "ended"}
    /\ page \in {"on", "cancelling", "gone"}
    /\ main \in {"wait", "kill", "drain", "flush", "done", "failed"}
    /\ summary \in [hops : 0..MaxHops, reached : BOOLEAN, by : {"none", "completed", "user", "max_duration"}]

Filter == INSTANCE AddressFilter

\* A run whose target is refused never starts.
Traced == {Filter!FilterTarget(zone, asked) : zone \in Zones, asked \in Asked} \ {NoAddress}

\* A setting that cannot be read counts as one that is not there.
ShowPrivate == setting # "off"

Init ==
    /\ target \in Traced
    /\ setting \in Settings
    /\ process = "running" /\ out = <<>> /\ readTo = 0
    /\ hops = [current |-> NoHop, sent |-> <<>>, last |-> 0, reached |-> FALSE]
    /\ cancelled = FALSE /\ timedOut = FALSE
    /\ reader = "reading" /\ listener = "listening" /\ page = "on" /\ main = "wait"
    /\ summary = [hops |-> 0, reached |-> FALSE, by |-> "none"]

Raises == page = "gone"

-----------------------------------------------------------------------------
(* traceroute *)

HopsPrinted == Len(Groups(out))

\* The items of the last hop printed, on however many lines.
Open == Groups(out)[HopsPrinted].items

HopComplete == out # <<>> => Len(Probes(Open)) >= PerHop

\* The line that comes next with these items on it: a new hop's once the last
\* one has its probes, else a continuation, which begins with who answered.
NextLine(items) == [hop |-> IF HopComplete THEN HopsPrinted + 1 ELSE 0, items |-> items]

Fits(items) ==
    IF HopComplete THEN HopsPrinted < MaxHops /\ Len(Probes(items)) <= PerHop
    ELSE IsWho(items[1]) /\ Len(Probes(Open)) + Len(Probes(items)) <= PerHop

PrintLine(items) ==
    /\ process = "running" /\ Fits(items)
    /\ out' = Append(out, NextLine(items))
    /\ UNCHANGED <<input, process, readTo, hops, cancelled, tasks, page, summary>>

EndByItself ==
    /\ process = "running" /\ HopComplete
    /\ process' = "exited"
    /\ UNCHANGED <<input, out, readTo, hops, cancelled, tasks, page, summary>>

Noise == [kind |-> "noise", of |-> NoAddress]

\* A number alone is taken for a round-trip time.
Number == [kind |-> "rtt", of |-> NoAddress]

\* What an item cut short reads as.  The start of an address or of a name may be a
\* number, or an address again.
Remains(item) ==
    CASE IsWho(item) -> {Noise, Number} \cup [kind : {"address"}, of : Addresses]
      [] item.kind = "rtt" -> {Number}
      [] item.kind = "noise" -> {Noise}
      [] item.kind = "star" -> {}

\* What may be left of a line: some of its items, and what remains of the next.
CutOff(items) ==
    {SubSeq(items, 1, k) : k \in DOMAIN items}
    \cup UNION {{Append(SubSeq(items, 1, k - 1), piece) : piece \in Remains(items[k])} : k \in DOMAIN items}

CutLine == \E items \in Lines : Fits(items) /\ \E rest \in CutOff(items) : out' = Append(out, NextLine(rest))

\* Of the line that opens a hop only its number is left: no line that opens a hop.
\* Before any hop both readers drop it.
CutToNumber ==
    /\ HopComplete /\ out # <<>> /\ HopsPrinted < MaxHops
    /\ out' = Append(out, [hop |-> 0, items |-> <<Number>>])

EndBySignal ==
    /\ process \in {"terminated", "killed"}
    /\ process' = "exited"
    /\ UNCHANGED out \/ CutLine \/ CutToNumber
    /\ UNCHANGED <<input, readTo, hops, cancelled, tasks, page, summary>>

-----------------------------------------------------------------------------
(* flush_current_hop and read_stdout *)

\* The data the page gets of a hop, but for the mark.
Shown(hop) == IF ShowPrivate THEN Hop(hop.hop, hop.items) ELSE Masked[Hop(hop.hop, hop.items)]

\* Mutated form: the mark is put wherever the target answers.
MarkedAgain(hop, before) == \E shown \in {Shown(hop)} : \E k \in DOMAIN shown.paths : shown.paths[k].ip = target

\* The first hop the target answers at is marked.
Marks(hop, before) == ~before /\ \E shown \in {Shown(hop)} : \E k \in DOMAIN shown.paths : shown.paths[k].ip = target

Sending(hop, h) == [hop |-> hop.hop, items |-> hop.items, reached |-> Marks(hop, h.reached)]

\* Mutated form: the hop is not forgotten once it is sent.
FlushedKept(h) ==
    IF h.current.hop = 0 THEN h
    ELSE [h EXCEPT !.sent = Append(@, Sending(h.current, h)), !.last = h.current.hop,
                   !.reached = @ \/ Marks(h.current, @)]

Flushed(h) ==
    IF h.current.hop = 0 THEN h
    ELSE [h EXCEPT !.sent = Append(@, Sending(h.current, h)), !.last = h.current.hop,
                   !.reached = @ \/ Marks(h.current, @), !.current = NoHop]

\* A line opens a hop, and flushes the one before, or continues the one that is
\* open, or is dropped; a hop with all its probes is flushed at once.
Taken(h, line) ==
    IF line.hop > 0 THEN [Flushed(h) EXCEPT !.current = [hop |-> line.hop, items |-> line.items]]
    ELSE IF h.current.hop > 0 THEN [h EXCEPT !.current.items = @ \o line.items] ELSE h

AfterLine(h, line) ==
    LET taken == Taken(h, line)
    IN  IF Len(Probes(taken.current.items)) >= PerHop THEN Flushed(taken) ELSE taken

ReadLine ==
    /\ reader = "reading" /\ readTo < Len(out)
    /\ readTo' = readTo + 1
    /\ \E after \in {AfterLine(hops, out[readTo + 1])} :
           \/ hops' = after /\ UNCHANGED reader
           \/ after.sent # hops.sent /\ Raises /\ reader' = "broken" /\ UNCHANGED hops
    /\ UNCHANGED <<input, trace, cancelled, listener, main, timedOut, page, summary>>

ReadEof ==
    /\ reader = "reading" /\ readTo = Len(out) /\ process = "exited"
    /\ reader' = "eof"
    /\ UNCHANGED <<input, trace, readTo, hops, cancelled, listener, main, timedOut, page, summary>>

-----------------------------------------------------------------------------
(* listen_cancel *)

Cancel ==
    /\ listener = "listening" /\ page = "cancelling"
    /\ listener' = "ended"
    /\ cancelled' = TRUE
    /\ process' = IF process = "running" THEN "terminated" ELSE process
    /\ UNCHANGED <<input, out, readTo, hops, reader, main, timedOut, page, summary>>

\* A page that leaves ends the listener, and nothing else.
HearDisconnect ==
    /\ listener = "listening" /\ page = "gone"
    /\ listener' = "ended"
    /\ UNCHANGED <<input, trace, readTo, hops, cancelled, reader, main, timedOut, page, summary>>

-----------------------------------------------------------------------------
(* The handler *)

\* Mutated form: the limit is noticed, and the process left alone.
LeftRunning == process

\* kill(), unless the process has ended.
AfterLimit == IF process = "exited" THEN process ELSE "killed"

\* The deadline has room for every probe of every hop; a process that hangs meets it.
TimeLimit ==
    /\ main = "wait"
    /\ main' = "kill"
    /\ timedOut' = TRUE
    /\ process' = AfterLimit
    /\ UNCHANGED <<input, out, readTo, hops, cancelled, reader, listener, page, summary>>

ProcessGone ==
    /\ main \in {"wait", "kill"} /\ process = "exited"
    /\ main' = "drain"
    /\ listener' = "ended"
    /\ UNCHANGED <<input, trace, readTo, hops, cancelled, reader, timedOut, page, summary>>

\* await read_task
ReaderDone == reader = "eof"

Drained ==
    /\ main = "drain" /\ ReaderDone
    /\ main' = "flush"
    /\ UNCHANGED <<input, trace, readTo, hops, cancelled, reader, listener, timedOut, page, summary>>

\* await read_task raises what the reader died of.
ReaderFailed ==
    /\ main = "drain" /\ reader = "broken"
    /\ main' = "failed"
    /\ UNCHANGED <<input, trace, readTo, hops, cancelled, reader, listener, timedOut, page, summary>>

\* Mutated form: a run the page stopped counts as completed.
TimedOutOr == IF timedOut THEN "max_duration" ELSE "completed"

TerminatedBy == IF timedOut THEN "max_duration" ELSE IF cancelled THEN "user" ELSE "completed"

\* The hop still open, then the complete message; either send may raise.
Complete ==
    LET after == Flushed(hops)
    IN  /\ main = "flush"
        /\ \/ /\ main' = "done"
              /\ hops' = after
              /\ summary' = [hops |-> after.last, reached |-> after.reached, by |-> TerminatedBy]
           \/ /\ Raises
              /\ main' = "failed"
              /\ UNCHANGED <<hops, summary>>
        /\ UNCHANGED <<input, trace, readTo, cancelled, reader, listener, timedOut, page>>

-----------------------------------------------------------------------------
(* The page *)

PressStop ==
    /\ page = "on" /\ main \in {"wait", "kill"}
    /\ page' = "cancelling"
    /\ UNCHANGED <<input, trace, readTo, hops, cancelled, tasks, summary>>

Leave ==
    /\ Fails /\ page # "gone"
    /\ page' = "gone"
    /\ UNCHANGED <<input, trace, readTo, hops, cancelled, tasks, summary>>

-----------------------------------------------------------------------------

Process == (\E items \in Lines : PrintLine(items)) \/ EndByItself \/ EndBySignal
Reader == ReadLine \/ ReadEof
Handler == TimeLimit \/ ProcessGone \/ Drained \/ ReaderFailed \/ Complete

Next == Process \/ Reader \/ Cancel \/ HearDisconnect \/ Handler \/ PressStop \/ Leave

\* The event loop resumes the reader and the handler, and the kernel ends a process
\* that was sent a signal.  traceroute itself need never end.
Spec == Init /\ [][Next]_vars /\ WF_vars(EndBySignal) /\ WF_vars(Reader) /\ WF_vars(Handler)

-----------------------------------------------------------------------------
(* Properties *)

\* The last line is a number left where no hop waits for a probe.
Stray ==
    /\ out # <<>> /\ out[Len(out)].hop = 0
    /\ LET before == Groups(SubSeq(out, 1, Len(out) - 1))
       IN  Len(Probes(before[Len(before)].items)) >= PerHop

\* The lines read, but for that number.
Answered == SubSeq(out, 1, IF Stray /\ readTo = Len(out) THEN readTo - 1 ELSE readTo)

Whole ==
    LET all == ParseOutput(Answered)
    IN  [k \in DOMAIN all |-> IF ShowPrivate THEN all[k] ELSE Masked[all[k]]]

Page == [k \in DOMAIN hops.sent |-> Shown(hops.sent[k])]

\* Hops sent one at a time, early when their probes are in, are those of the whole
\* output parsed at the end (_parse_output, what the HTTP tool answers): none lost,
\* repeated or cut short, whoever ends the process and when.  One line is read
\* otherwise: the number a cut leaves of a hop is dropped, since the hop before was
\* sent, where _parse_output counts it as a probe of that hop.
SameAsWhole ==
    /\ reader # "broken" => IsPrefix(Page, Whole)
    /\ main = "done" => Page = Whole

\* With the setting off no hop carries a private address or the name of one, in
\* whichever path of a multipath hop it stands.
PrivateStaysHidden ==
    setting = "off" =>
        \A i \in DOMAIN Page : \A path \in ToSet(Page[i].paths) :
            path.ip \notin Private /\ (path.ip = Hidden => path.hostname = "none")

Named(line) == \E k \in DOMAIN line.items : line.items[k].kind = "name"
Answers(line) == \E k \in DOMAIN line.items : line.items[k] = [kind |-> "address", of |-> target]

\* The destination is marked at one hop at most, the summary says so, and in a
\* completed run without names it is marked when and only when it answered, however
\* the hops were masked.
DestinationMarked ==
    LET marked == {i \in DOMAIN hops.sent : hops.sent[i].reached}
    IN  /\ \A i, j \in marked : i = j
        /\ main = "done" =>
            /\ summary.reached = (marked # {})
            /\ summary.hops = Len(hops.sent)
            /\ summary.by = "completed" /\ ~(\E i \in DOMAIN out : Named(out[i])) =>
                summary.reached = \E i \in DOMAIN out : Answers(out[i])

\* A run told completed was never cut: its last hop has all its probes.
CutIsAdmitted == summary.by = "completed" => HopComplete

\* What is traced is never private, whatever the name stood for on the way.
TargetIsPublic == target \notin Private

\* The handler keeps its side of the contract: the process ends, then comes the
\* complete message, once, or nothing when the page is gone; and it does come.
Contract == INSTANCE StreamHandler WITH
    process <- IF process = "exited" THEN "exited" ELSE "running",
    lastWord <- CASE main = "done" -> "complete" [] main = "failed" -> "failed" [] OTHER -> "none"

KeepsContract == Contract!Spec
=============================================================================
