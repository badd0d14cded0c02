---------------------------- MODULE PingStreamProofs ----------------------------
(***************************************************************************)
(* Proofs about PingStream, for any number of packets, any time-outs and   *)
(* limits, and a page that may go away.                                    *)
(*                                                                         *)
(* IInv says how far each task is, what a result that is shown was         *)
(* recorded as, and, in OneReply, that a packet still open or answered in  *)
(* an unread line has no reply on the page: so the line can be shown       *)
(* whatever the watcher did in the meantime.  Counted adds what the        *)
(* summary needs: the packets with a reply, shown or unread, are as many   *)
(* as the statistics say from the moment ping prints them.                 *)
(***************************************************************************)
EXTENDS PingStream, SequenceTheorems, FiniteSetTheorems, WellFoundedInduction, TLAPS

\* How far the handler is, and what has ended by then.
Phases ==
    /\ main \in {"drain", "fill", "done", "failed"} => process = "exited" /\ watcher.next = Ended
    /\ main \in {"fill", "done"} => reader = "eof"
    /\ main = "failed" => reader # "reading"

\* Nothing is sent without being recorded, and nothing recorded without being noted,
\* until the handler fills the gaps.
Recorded ==
    \A s \in Seqs :
        /\ results[s] = "none" => sent[s] = <<>>
        /\ main \in {"wait", "kill", "drain"} /\ s \notin received => results[s] = "none"

Pending(s) == \E i \in DOMAIN pipe : pipe[i].kind = "reply" /\ pipe[i].seq = s

\* A packet is sent, then open, then answered in one line: before that line is read
\* no reply to it has been shown.
OneReply ==
    /\ \A s \in Seqs :
        /\ s \in open \/ s > transmitted \/ Pending(s) => sent[s] \in {<<>>, <<"timeout">>}
        /\ s \in open => s <= transmitted /\ ~Pending(s)
        /\ Pending(s) => s <= transmitted
    /\ \A i, j \in DOMAIN pipe :
        pipe[i].kind = "reply" /\ pipe[j].kind = "reply" /\ pipe[i].seq = pipe[j].seq => i = j

IInv == TypeOK /\ Phases /\ Recorded /\ OneReply /\ AnsweredOnce /\ PageAgrees

-----------------------------------------------------------------------------
(* Least and greatest *)

LEMMA Smallest ==
    ASSUME NEW T \in SUBSET Nat, T # {} PROVE \E x \in T : \A y \in T : x <= y
<1> DEFINE R == OpToRel(<, Nat)
<1>1. IsWellFoundedOn(R, Nat)
  BY NatLessThanWellFounded
<1> HIDE DEF R
<1>2. PICK x \in T : \A y \in T : ~(<<y, x>> \in R)
  BY <1>1, WFMin
<1>3. \A y \in T : ~(y < x)
  BY <1>2 DEF R, OpToRel
<1> QED
  BY <1>2, <1>3

LEMMA MinIn == ASSUME NEW T \in SUBSET Nat, T # {} PROVE Min(T) \in T /\ \A y \in T : Min(T) <= y
BY Smallest DEF Min

LEMMA MaxIn ==
    ASSUME NEW n \in Nat, NEW T \in SUBSET (0..n), T # {}
    PROVE  Max(T) \in T /\ \A y \in T : Max(T) >= y
<1> DEFINE U == {b \in Nat : \A y \in T : b >= y}
<1>1. n \in U
  OBVIOUS
<1>2. PICK b \in U : \A c \in U : b <= c
  BY <1>1, Smallest
<1>3. b \in T
  <2> SUFFICES ASSUME b \notin T PROVE FALSE
    OBVIOUS
  <2>1. PICK y \in T : TRUE
    OBVIOUS
  <2>2. b # 0
    BY <2>1
  <2>3. b - 1 \in U
    BY <2>2
  <2> QED
    BY <1>2, <2>3
<1> QED
  BY <1>2, <1>3 DEF Max

LEMMA SeqsNat == Seqs \subseteq Nat /\ MaxSeq \in Nat
BY PingAssumption DEF Seqs

\* A line without a number is taken for a packet that has no result.
LEMMA FreeIsFree ==
    ASSUME TypeOK PROVE NextFree \in Nat \ {0} /\ (NextFree \in Seqs => results[NextFree] = "none")
<1> DEFINE T == {0} \cup {s \in Seqs : results[s] # "none"}
<1>1. T \in SUBSET (0..MaxSeq) /\ T # {}
  BY SeqsNat DEF Seqs
<1>2. Max(T) \in T /\ \A y \in T : Max(T) >= y
  BY <1>1, MaxIn, SeqsNat
<1>3. NextFree = Max(T) + 1 /\ Max(T) \in Nat
  BY <1>1, <1>2, SeqsNat DEF NextFree
<1>4. NextFree \notin T
  BY <1>1, <1>2, <1>3
<1> QED
  BY <1>3, <1>4

LEMMA LastResultIn == ASSUME TypeOK PROVE LastResult \in 0..MaxSeq
<1> DEFINE T == {0} \cup {s \in Seqs : results[s] # "none"}
<1>1. T \in SUBSET (0..MaxSeq) /\ T # {}
  BY SeqsNat DEF Seqs
<1>2. Max(T) \in T
  BY <1>1, MaxIn, SeqsNat
<1> QED
  BY <1>1, <1>2 DEF LastResult

LEMMA LastResultBounds == ASSUME TypeOK PROVE \A s \in Seqs : results[s] # "none" => s <= LastResult
<1> DEFINE T == {0} \cup {s \in Seqs : results[s] # "none"}
<1>1. T \in SUBSET (0..MaxSeq) /\ T # {}
  BY SeqsNat DEF Seqs
<1>2. Max(T) \in T /\ \A y \in T : Max(T) >= y
  BY <1>1, MaxIn, SeqsNat
<1>3. LastResult = Max(T)
  BY DEF LastResult
<1> QED
  BY <1>1, <1>2, <1>3, SeqsNat

LEMMA UseCountIn == ASSUME TypeOK PROVE UseCount \in 0..MaxSeq
<1> DEFINE known == IF stats.tx > 0 THEN stats.tx
                    ELSE IF param.count > 0 THEN param.count ELSE LastResult
<1>1. param.limit \in Nat /\ param.count \in 0..MaxSeq
  BY PingAssumption DEF TypeOK
<1>2. known \in 0..MaxSeq
  BY <1>1, LastResultIn DEF TypeOK
<1>3. CASE timedOut
  <2>1. {known, param.limit} \in SUBSET Nat /\ {known, param.limit} # {}
    BY <1>1, <1>2
  <2>2. Min({known, param.limit}) \in {known, param.limit} /\ Min({known, param.limit}) <= known
    BY <2>1, MinIn
  <2> QED
    BY <1>1, <1>2, <1>3, <2>2, SeqsNat DEF UseCount
<1>4. CASE ~timedOut
  BY <1>2, <1>4 DEF UseCount
<1> QED
  BY <1>3, <1>4

LEMMA CountIn == ASSUME NEW S \in SUBSET Seqs PROVE Cardinality(S) \in 0..MaxSeq
<1>1. IsFiniteSet(Seqs) /\ Cardinality(Seqs) = MaxSeq
  BY FS_Interval, SeqsNat DEF Seqs
<1>2. Cardinality(S) <= MaxSeq /\ IsFiniteSet(S)
  BY <1>1, FS_Subset
<1> QED
  BY <1>2, FS_CardinalityType, SeqsNat

-----------------------------------------------------------------------------
(* One result more *)

LEMMA AppendFacts ==
    ASSUME NEW S, NEW q \in Seq(S), NEW e \in S
    PROVE  /\ Append(q, e) \in Seq(S) /\ Append(q, e) # <<>>
           /\ Len(Append(q, e)) = Len(q) + 1
           /\ \A i \in 1..Len(q) : Append(q, e)[i] = q[i]
           /\ Append(q, e)[Len(q) + 1] = e
           /\ Len(q) \in Nat
           /\ Append(q, e)[Len(Append(q, e))] = e
BY AppendProperties, LenProperties, SMT

LEMMA Second ==
    ASSUME NEW S, NEW q \in Seq(S), NEW t \in Seq(S), NEW e \in S
    PROVE  Len(q) = 1 /\ Len(t) = 2 /\ t[1] = q[1] /\ t[2] = e => Append(q, e) = t
<1> DEFINE p == Append(q, e)
<1>1. /\ p \in Seq(S) /\ Len(p) = Len(q) + 1
      /\ \A i \in 1..Len(q) : p[i] = q[i]
      /\ p[Len(q) + 1] = e
  BY AppendProperties
<1> HIDE DEF p
<1> SUFFICES ASSUME Len(q) = 1, Len(t) = 2, t[1] = q[1], t[2] = e PROVE p = t
  BY DEF p
<1>2. Len(p) = 2 /\ p[1] = q[1] /\ p[2] = e
  BY <1>1
<1>3. \A i \in 1..Len(p) : p[i] = t[i]
  BY <1>2
<1> QED
  BY <1>1, <1>2, <1>3, SeqEqual

\* What may have been sent of a number before a result, and is there after it.
LEMMA OneMore ==
    ASSUME NEW S, NEW a \in S, NEW b \in S
    PROVE  Append(<<>>, a) = <<a>> /\ Append(<<a>>, b) = <<a, b>>
<1>1. Append(<<>>, a) = <<a>>
  OBVIOUS
<1> DEFINE s == <<a>>
           t == <<a, b>>
<1>2. s \in Seq(S) /\ t \in Seq(S)
  OBVIOUS
<1>3. Len(s) = 1 /\ Len(t) = 2 /\ t[1] = s[1] /\ t[2] = b
  OBVIOUS
<1> HIDE DEF s, t
<1>4. Append(s, b) = t
  BY <1>2, <1>3, Second
<1> QED
  BY <1>1, <1>4 DEF s, t

LEMMA SentType == ASSUME TypeOK, NEW s \in Seqs PROVE sent[s] \in Seq({"ok", "timeout"})
BY DEF TypeOK

LEMMA DeliverKeeps ==
    ASSUME TypeOK, AnsweredOnce, PageAgrees, Recorded,
           NEW s \in Seqs, NEW status \in {"ok", "timeout"},
           IF status = "ok" THEN sent[s] \in {<<>>, <<"timeout">>} ELSE sent[s] = <<>>,
           results' = [results EXCEPT ![s] = status],
           \/ Deliver(s, status) /\ UNCHANGED page
           \/ Raises /\ UNCHANGED <<sent, page>>
    PROVE  /\ results' \in [Seqs -> {"none", "ok", "timeout"}]
           /\ sent' \in [Seqs -> Seq({"ok", "timeout"})]
           /\ AnsweredOnce' /\ PageAgrees'
           /\ \A q \in Seqs : results'[q] = "none" => sent'[q] = <<>>
           /\ \A q \in Seqs \ {s} : sent'[q] = sent[q] /\ results'[q] = results[q]
           /\ results'[s] = status
           /\ status = "timeout" => sent'[s] \in {<<>>, <<"timeout">>}
<1>1. /\ results' \in [Seqs -> {"none", "ok", "timeout"}] /\ results'[s] = status
      /\ \A q \in Seqs \ {s} : results'[q] = results[q]
  BY DEF TypeOK
<1>2. CASE Raises /\ UNCHANGED <<sent, page>>
  BY <1>1, <1>2 DEF TypeOK, AnsweredOnce, PageAgrees, Recorded, Raises
<1>3. CASE Deliver(s, status) /\ UNCHANGED page
  <2>1. sent' = [sent EXCEPT ![s] = Append(sent[s], status)]
    BY <1>3 DEF Deliver
  <2>2. /\ Append(sent[s], status) \in Seq({"ok", "timeout"})
        /\ Append(sent[s], status) # <<>>
        /\ Append(sent[s], status)[Len(Append(sent[s], status))] = status
    BY SentType, AppendFacts
  <2>3. /\ Append(sent[s], status) \in {<<"ok">>, <<"timeout">>, <<"timeout", "ok">>}
        /\ status = "timeout" => Append(sent[s], status) = <<"timeout">>
    <3>1. "ok" \in {"ok", "timeout"} /\ "timeout" \in {"ok", "timeout"}
      OBVIOUS
    <3> QED
      BY <3>1, OneMore
  <2> DEFINE new == Append(sent[s], status)
  <2> HIDE DEF new
  <2>4. /\ sent' = [sent EXCEPT ![s] = new] /\ new \in Seq({"ok", "timeout"}) /\ new # <<>>
        /\ new[Len(new)] = status /\ new \in {<<"ok">>, <<"timeout">>, <<"timeout", "ok">>}
        /\ status = "timeout" => new = <<"timeout">>
    BY <2>1, <2>2, <2>3 DEF new
  <2>5. /\ sent' \in [Seqs -> Seq({"ok", "timeout"})] /\ sent'[s] = new
        /\ \A q \in Seqs \ {s} : sent'[q] = sent[q]
    BY <2>4 DEF TypeOK
  <2>6. AnsweredOnce'
    BY <2>4, <2>5 DEF AnsweredOnce
  <2>7. PageAgrees'
    BY <1>1, <1>3, <2>4, <2>5 DEF PageAgrees
  <2>8. \A q \in Seqs : results'[q] = "none" => sent'[q] = <<>>
    BY <1>1, <2>5 DEF Recorded
  <2> QED
    BY <1>1, <2>4, <2>5, <2>6, <2>7, <2>8
<1> QED
  BY <1>2, <1>3

-----------------------------------------------------------------------------
(* Steps that record nothing *)

LEMMA SilentKeeps ==
    ASSUME IInv, UNCHANGED <<results, received, sent, open, transmitted, pipe>>, Phases', TypeOK',
           main' \in {"wait", "kill", "drain"} => main \in {"wait", "kill", "drain"},
           page' = page \/ page' = "gone" \/ page # "gone"
    PROVE  IInv'
<1>1. Recorded' /\ AnsweredOnce'
  BY DEF IInv, Recorded, AnsweredOnce
<1>2. OneReply'
  BY DEF IInv, OneReply, Pending
<1>3. PageAgrees'
  BY DEF IInv, PageAgrees
<1> QED
  BY <1>1, <1>2, <1>3 DEF IInv

LEMMA SilentSteps ==
    ASSUME IInv,
           \/ Tick \/ ReadEof \/ WatchRound \/ Cancel \/ HearDisconnect
           \/ TimeLimit \/ ProcessGone \/ Drained \/ ReaderFailed \/ PressStop \/ Leave
    PROVE  IInv'
<1>1. UNCHANGED <<results, received, sent, open, transmitted, pipe>>
  BY DEF Tick, ReadEof, WatchRound, Cancel, HearDisconnect, TimeLimit, ProcessGone, Drained, ReaderFailed,
         PressStop, Leave, input, ping, tasks, data, output
<1>2. /\ main' \in {"wait", "kill", "drain"} => main \in {"wait", "kill", "drain"}
      /\ page' = page \/ page' = "gone" \/ page # "gone"
  BY DEF Tick, ReadEof, WatchRound, Cancel, HearDisconnect, TimeLimit, ProcessGone, Drained, ReaderFailed,
         PressStop, Leave, input, ping, tasks, data, output
<1>3. CASE Tick \/ ReadEof \/ HearDisconnect \/ Drained \/ ReaderFailed \/ PressStop \/ Leave
  <2>1. TypeOK'
    BY <1>3 DEF IInv, TypeOK, Tick, ReadEof, HearDisconnect, Drained, ReaderFailed,
                PressStop, Leave, input, ping, tasks, data, output
  <2>2. Phases'
    BY <1>3 DEF IInv, Phases, Tick, ReadEof, HearDisconnect, Drained, ReaderDone, ReaderFailed,
                PressStop, Leave, input, ping, tasks, data, output
  <2> QED
    BY <1>1, <1>2, <2>1, <2>2, SilentKeeps
<1>4. CASE WatchRound \/ ProcessGone
  <2>1. watcher' \in [now : Nat, next : 0..MaxSeq + 2]
    BY <1>4, SeqsNat DEF WatchRound, ProcessGone, Ended, IInv, TypeOK
  <2>2. TypeOK'
    BY <1>4, <2>1 DEF IInv, TypeOK, WatchRound, ProcessGone, input, ping, tasks, data, output
  <2>3. Phases'
    <3>1. CASE WatchRound
      BY <3>1, SeqsNat DEF IInv, Phases, WatchRound, Ended, Asleep, ping
    <3>2. CASE ProcessGone
      BY <3>2 DEF IInv, Phases, ProcessGone, ping
    <3> QED
      BY <1>4, <3>1, <3>2
  <2> QED
    BY <1>1, <1>2, <2>2, <2>3, SilentKeeps
<1>5. CASE Cancel \/ TimeLimit
  <2>1. TypeOK'
    <3>1. CASE Cancel
      BY <3>1 DEF IInv, TypeOK, Cancel, input, output
    <3>2. CASE TimeLimit
      BY <3>2 DEF IInv, TypeOK, TimeLimit, AfterLimit, input, data, output
    <3> QED
      BY <1>5, <3>1, <3>2
  <2>2. Phases'
    BY <1>5 DEF IInv, Phases, Cancel, TimeLimit, AfterLimit, input, ping, tasks, data, output
  <2> QED
    BY <1>1, <1>2, <2>1, <2>2, SilentKeeps
<1> QED
  BY <1>3, <1>4, <1>5

-----------------------------------------------------------------------------
(* Results *)

LEMMA FillSteps == ASSUME IInv, FillOne PROVE IInv'
<1> DEFINE s == Min(Missing)
<1>1. Missing \in SUBSET Nat /\ Missing \subseteq Seqs
  BY UseCountIn, SeqsNat DEF Missing, Seqs, IInv
<1>2. s \in Missing
  BY <1>1, MinIn DEF FillOne
<1>3. s \in Seqs /\ results[s] = "none" /\ sent[s] = <<>>
  BY <1>1, <1>2 DEF Missing, IInv, Recorded
<1>4. /\ results' = [results EXCEPT ![s] = "timeout"]
      /\ \/ Deliver(s, "timeout") /\ UNCHANGED page
         \/ Raises /\ UNCHANGED <<sent, page>>
      /\ main = "fill" /\ main' \in {"fill", "failed"}
      /\ UNCHANGED <<input, clock, ping, reader, watcher, listener, timedOut, received, cancelled, stats, summary>>
  BY DEF FillOne, input
<1> HIDE DEF s
<1>5. /\ results' \in [Seqs -> {"none", "ok", "timeout"}]
      /\ sent' \in [Seqs -> Seq({"ok", "timeout"})]
      /\ AnsweredOnce' /\ PageAgrees'
      /\ \A q \in Seqs : results'[q] = "none" => sent'[q] = <<>>
      /\ \A q \in Seqs \ {s} : sent'[q] = sent[q]
      /\ sent'[s] \in {<<>>, <<"timeout">>}
  BY <1>3, <1>4, DeliverKeeps DEF IInv
<1>6. TypeOK' /\ Phases'
  BY <1>4, <1>5 DEF IInv, TypeOK, Phases, input, ping
<1>7. Recorded'
  BY <1>4, <1>5 DEF Recorded
<1>8. OneReply'
  BY <1>4, <1>5 DEF IInv, OneReply, Pending, ping
<1> QED
  BY <1>5, <1>6, <1>7, <1>8 DEF IInv

LEMMA WatchSteps == ASSUME IInv, WatchSeq PROVE IInv'
<1> DEFINE late == {s \in Seqs : s >= watcher.next /\ Overdue(s)}
           s == Min(late)
<1>1. late \in SUBSET Nat /\ late \subseteq Seqs
  BY SeqsNat
<1>2. /\ main \in {"wait", "kill"}
      /\ UNCHANGED <<input, clock, ping, reader, listener, main, timedOut, cancelled, stats, summary>>
  BY SeqsNat DEF WatchSeq, Seqs, Ended, IInv, Phases, TypeOK
<1>3. CASE late = {}
  <2>1. /\ UNCHANGED <<results, received, sent, open, transmitted, pipe>>
        /\ watcher' = [now |-> 0, next |-> Asleep]
    BY <1>2, <1>3 DEF WatchSeq, ping
  <2>2. TypeOK' /\ Phases'
    BY <1>2, <2>1, SeqsNat DEF IInv, TypeOK, Phases, input, ping, Asleep
  <2> QED
    BY <1>2, <2>1, <2>2, SilentKeeps DEF input
<1>4. CASE late # {}
  <2>1. s \in Seqs /\ s \notin received
    BY <1>1, <1>4, MinIn DEF Overdue
  <2>2. results[s] = "none" /\ sent[s] = <<>>
    BY <1>2, <2>1 DEF IInv, Recorded
  <2>3. /\ Record(s, "timeout")
        /\ \/ Deliver(s, "timeout") /\ watcher' = [watcher EXCEPT !.next = s + 1]
           \/ Raises /\ watcher' = [now |-> 0, next |-> Ended] /\ UNCHANGED sent
    BY <1>4 DEF WatchSeq
  <2> HIDE DEF s, late
  <2>4. /\ results' \in [Seqs -> {"none", "ok", "timeout"}]
        /\ sent' \in [Seqs -> Seq({"ok", "timeout"})]
        /\ AnsweredOnce' /\ PageAgrees'
        /\ \A q \in Seqs : results'[q] = "none" => sent'[q] = <<>>
        /\ \A q \in Seqs \ {s} : sent'[q] = sent[q] /\ results'[q] = results[q]
        /\ sent'[s] \in {<<>>, <<"timeout">>}
    BY <1>2, <2>1, <2>2, <2>3, DeliverKeeps DEF IInv, Record, input
  <2>5. received' = received \cup {s}
    BY <2>3 DEF Record
  <2>6. watcher' \in [now : Nat, next : 0..MaxSeq + 2]
    <3>1. s + 1 \in 0..MaxSeq + 2 /\ Ended \in 0..MaxSeq + 2 /\ watcher \in [now : Nat, next : 0..MaxSeq + 2]
      BY <2>1, SeqsNat DEF IInv, TypeOK, Seqs, Ended
    <3> QED
      BY <2>3, <3>1
  <2>7. TypeOK' /\ Phases'
    BY <1>2, <2>1, <2>4, <2>5, <2>6 DEF IInv, TypeOK, Phases, input, ping
  <2>8. Recorded'
    BY <1>2, <2>4, <2>5 DEF IInv, Recorded
  <2>9. OneReply'
    BY <1>2, <2>4 DEF IInv, OneReply, Pending, ping
  <2> QED
    BY <2>4, <2>7, <2>8, <2>9 DEF IInv
<1> QED
  BY <1>3, <1>4

-----------------------------------------------------------------------------
(* Lines *)

Distinct ==
    \A i, j \in DOMAIN pipe :
        pipe[i].kind = "reply" /\ pipe[j].kind = "reply" /\ pipe[i].seq = pipe[j].seq => i = j

LEMMA LineKinds ==
    ASSUME NEW line \in Lines
    PROVE  \/ line.kind = "reply" /\ line.seq \in Seqs
           \/ line.kind = "unreachable"
           \/ line.kind = "stats" /\ line.tx \in 0..MaxSeq /\ line.rx \in 0..MaxSeq
BY DEF Lines

LEMMA Appended ==
    ASSUME TypeOK, Distinct, NEW line \in Lines, pipe' = Append(pipe, line),
           line.kind = "reply" => ~Pending(line.seq)
    PROVE  /\ pipe' \in Seq(Lines) /\ Distinct'
           /\ \A s : Pending(s)' => Pending(s) \/ (line.kind = "reply" /\ line.seq = s)
<1> DEFINE n == Len(pipe)
<1>1. pipe \in Seq(Lines) /\ n \in Nat /\ DOMAIN pipe = 1..n
  BY LenProperties DEF TypeOK
<1>2. /\ pipe' \in Seq(Lines) /\ Len(pipe') = n + 1
      /\ \A i \in 1..n : pipe'[i] = pipe[i]
      /\ pipe'[n + 1] = line
  BY <1>1, AppendProperties
<1>3. DOMAIN pipe' = 1..(n + 1)
  BY <1>2, LenProperties
<1> HIDE DEF n
<1>4. \A i \in DOMAIN pipe' : (i \in DOMAIN pipe /\ pipe'[i] = pipe[i]) \/ (i = n + 1 /\ pipe'[i] = line)
  BY <1>1, <1>2, <1>3
<1>5. \A s : Pending(s)' => Pending(s) \/ (line.kind = "reply" /\ line.seq = s)
  BY <1>4 DEF Pending
<1>6. Distinct'
  BY <1>4 DEF Distinct, Pending
<1> QED
  BY <1>2, <1>5, <1>6

LEMMA Taken ==
    ASSUME TypeOK, Distinct, pipe # <<>>, pipe' = Tail(pipe)
    PROVE  /\ pipe' \in Seq(Lines) /\ Distinct' /\ Head(pipe) \in Lines
           /\ \A s : Pending(s)' => Pending(s) /\ ~(Head(pipe).kind = "reply" /\ Head(pipe).seq = s)
           /\ Head(pipe).kind = "reply" => Pending(Head(pipe).seq)
<1> DEFINE n == Len(pipe)
<1>1. pipe \in Seq(Lines) /\ n \in Nat \ {0} /\ DOMAIN pipe = 1..n
  BY LenProperties, EmptySeq DEF TypeOK
<1>2. /\ Head(pipe) = pipe[1] /\ Head(pipe) \in Lines /\ pipe' \in Seq(Lines)
      /\ Len(pipe') = n - 1 /\ \A i \in 1..(n - 1) : pipe'[i] = pipe[i + 1]
  BY <1>1, HeadTailProperties
<1>3. DOMAIN pipe' = 1..(n - 1)
  BY <1>2, LenProperties
<1> HIDE DEF n
<1>4. \A i \in DOMAIN pipe' : i \in Nat /\ i + 1 \in DOMAIN pipe /\ i + 1 # 1 /\ pipe'[i] = pipe[i + 1]
  BY <1>1, <1>2, <1>3
<1>5. 1 \in DOMAIN pipe
  BY <1>1
<1>6. Distinct'
  <2> SUFFICES ASSUME NEW i \in DOMAIN pipe', NEW j \in DOMAIN pipe',
                      pipe'[i].kind = "reply", pipe'[j].kind = "reply", pipe'[i].seq = pipe'[j].seq
               PROVE  i = j
    BY DEF Distinct
  <2>1. i + 1 = j + 1
    BY <1>4 DEF Distinct
  <2> QED
    BY <1>4, <2>1
<1>7. \A s : Pending(s)' => Pending(s) /\ ~(Head(pipe).kind = "reply" /\ Head(pipe).seq = s)
  <2> SUFFICES ASSUME NEW s, NEW i \in DOMAIN pipe', pipe'[i].kind = "reply", pipe'[i].seq = s
               PROVE  Pending(s) /\ ~(Head(pipe).kind = "reply" /\ Head(pipe).seq = s)
    BY DEF Pending
  <2>1. i + 1 \in DOMAIN pipe /\ pipe[i + 1].kind = "reply" /\ pipe[i + 1].seq = s /\ i + 1 # 1
    BY <1>4
  <2> QED
    BY <1>2, <1>5, <2>1 DEF Pending, Distinct
<1>8. Head(pipe).kind = "reply" => Pending(Head(pipe).seq)
  BY <1>2, <1>5 DEF Pending
<1> QED
  BY <1>2, <1>6, <1>7, <1>8

\* What the process does: nothing is recorded.
LEMMA ProcessKeeps ==
    ASSUME IInv, UNCHANGED <<input, clock, tasks, data, output>>, TypeOK', Phases', OneReply'
    PROVE  IInv'
<1>1. Recorded' /\ AnsweredOnce' /\ PageAgrees'
  BY DEF IInv, Recorded, AnsweredOnce, PageAgrees, input, tasks, data, output
<1> QED
  BY <1>1 DEF IInv

LEMMA StatisticsLine == ASSUME TypeOK PROVE Statistics \in Lines /\ Statistics.kind = "stats"
<1> DEFINE R == {i \in DOMAIN pipe : pipe[i].kind = "reply"}
<1>1. \A i \in R : pipe[i].seq \in Seqs
  <2>1. pipe \in Seq(Lines) /\ DOMAIN pipe = 1..Len(pipe)
    BY LenProperties DEF TypeOK
  <2>2. \A i \in DOMAIN pipe : pipe[i] \in Lines
    BY <2>1, ElementOfSeq
  <2> QED
    BY <2>2, LineKinds
<1>2. Replied \in SUBSET Seqs
  BY <1>1 DEF Replied
<1>3. Cardinality(Replied) \in 0..MaxSeq
  BY <1>2, CountIn
<1> QED
  BY <1>3 DEF Statistics, Lines, TypeOK

LEMMA ProcessSteps == ASSUME IInv, Process PROVE IInv'
<1>1. Distinct
  BY DEF IInv, OneReply, Distinct
<1>2. CASE Transmit
  <2>1. /\ transmitted' = transmitted + 1 /\ transmitted + 1 \in Seqs /\ transmitted \in Nat
        /\ open' = open \cup {transmitted + 1}
        /\ UNCHANGED <<input, clock, process, pipe, tasks, data, output>>
    <3>1. Budget \in 0..MaxSeq
      <4>1. param.count \in 0..MaxSeq
        BY PingAssumption DEF IInv, TypeOK
      <4> QED
        BY <4>1, SeqsNat DEF Budget
    <3>2. transmitted \in 0..MaxSeq /\ transmitted < Budget
      BY <1>2 DEF Transmit, IInv, TypeOK
    <3>3. transmitted + 1 \in Seqs
      BY <3>1, <3>2, SeqsNat DEF Seqs
    <3> QED
      BY <1>2, <3>2, <3>3 DEF Transmit
  <2>2. TypeOK' /\ Phases'
    BY <2>1, SeqsNat DEF IInv, TypeOK, Phases, Seqs, input, tasks, data, output
  <2>3. OneReply'
    <3>1. \A s \in Seqs : s \in Nat
      BY SeqsNat
    <3>2. \A s \in Seqs : Pending(s)' <=> Pending(s)
      BY <2>1 DEF Pending
    <3>3. \A s \in Seqs :
            /\ s \in open' \/ s > transmitted' \/ Pending(s)' => sent'[s] \in {<<>>, <<"timeout">>}
            /\ s \in open' => s <= transmitted' /\ ~Pending(s)'
            /\ Pending(s)' => s <= transmitted'
      BY <2>1, <3>1, <3>2 DEF IInv, OneReply, output
    <3> QED
      BY <2>1, <3>3 DEF IInv, OneReply
  <2> QED
    BY <2>1, <2>2, <2>3, ProcessKeeps
<1>3. ASSUME NEW s \in open, NEW line \in Lines, PrintLine(s, line),
             line.kind = "reply" => line.seq = s, line.kind # "stats"
      PROVE  IInv'
  <2>1. s \in Seqs /\ ~Pending(s)
    BY <1>3 DEF IInv, TypeOK, OneReply
  <2>2. /\ pipe' = Append(pipe, line) /\ open' = open \ {s}
        /\ UNCHANGED <<input, clock, process, transmitted, tasks, data, output>>
    BY <1>3 DEF PrintLine
  <2>3. /\ pipe' \in Seq(Lines) /\ Distinct'
        /\ \A q : Pending(q)' => Pending(q) \/ (line.kind = "reply" /\ line.seq = q)
    BY <1>1, <1>3, <2>1, <2>2, Appended DEF IInv
  <2>4. TypeOK' /\ Phases'
    BY <2>2, <2>3 DEF IInv, TypeOK, Phases, input, tasks, data, output
  <2>5. OneReply'
    BY <1>3, <2>2, <2>3 DEF IInv, OneReply, Distinct, output
  <2> QED
    BY <2>2, <2>4, <2>5, ProcessKeeps
<1>4. ASSUME NEW s \in open, PrintLine(s, [kind |-> "reply", seq |-> s]) PROVE IInv'
  <2>1. [kind |-> "reply", seq |-> s] \in Lines
    BY DEF Lines, IInv, TypeOK
  <2> QED
    BY <1>3, <1>4, <2>1
<1>5. ASSUME NEW s \in open, PrintLine(s, [kind |-> "unreachable"]) PROVE IInv'
  <2>1. [kind |-> "unreachable"] \in Lines
    BY DEF Lines
  <2> QED
    BY <1>3, <1>5, <2>1
<1>6. CASE EndByItself \/ EndBySignal
  <2>1. /\ process' = "exited" /\ (UNCHANGED pipe \/ pipe' = Append(pipe, Statistics))
        /\ UNCHANGED <<input, clock, transmitted, open, tasks, data, output>>
    BY <1>6 DEF EndByItself, EndBySignal
  <2>2. pipe' \in Seq(Lines) /\ Distinct' /\ \A q : Pending(q)' => Pending(q)
    <3>1. CASE UNCHANGED pipe
      BY <1>1, <3>1 DEF Distinct, Pending, IInv, TypeOK
    <3>2. CASE pipe' = Append(pipe, Statistics)
      BY <1>1, <3>2, Appended, StatisticsLine DEF IInv
    <3> QED
      BY <2>1, <3>1, <3>2
  <2>3. TypeOK' /\ Phases'
    BY <2>1, <2>2 DEF IInv, TypeOK, Phases, input, tasks, data, output
  <2>4. OneReply'
    BY <2>1, <2>2 DEF IInv, OneReply, Distinct, output
  <2> QED
    BY <2>1, <2>3, <2>4, ProcessKeeps
<1> QED
  BY <1>2, <1>4, <1>5, <1>6 DEF Process

-----------------------------------------------------------------------------
(* What the reader does *)

LEMMA ResultSteps == ASSUME IInv, ReadResult PROVE IInv'
<1> DEFINE line == Head(pipe)
           s == ItemSeq(line)
           status == ItemStatus(line)
<1>1. Distinct
  BY DEF IInv, OneReply, Distinct
<1>2. /\ pipe # <<>> /\ pipe' = Tail(pipe) /\ reader = "reading" /\ line.kind # "stats"
      /\ UNCHANGED <<input, clock, process, transmitted, open, watcher, listener, main,
                     timedOut, cancelled, stats, summary>>
  BY DEF ReadResult
<1>3. /\ pipe' \in Seq(Lines) /\ Distinct' /\ line \in Lines
      /\ \A q : Pending(q)' => Pending(q) /\ ~(line.kind = "reply" /\ line.seq = q)
      /\ line.kind = "reply" => Pending(line.seq)
  BY <1>1, <1>2, Taken DEF IInv
<1>4. main \in {"wait", "kill", "drain"}
  BY <1>2 DEF IInv, Phases, TypeOK
<1>5. CASE s \notin Seqs
  <2>1. UNCHANGED <<results, received, reader, sent>>
    BY <1>5 DEF ReadResult
  <2>2. TypeOK' /\ Phases'
    BY <1>2, <1>3, <2>1 DEF IInv, TypeOK, Phases, input
  <2>3. Recorded' /\ AnsweredOnce' /\ PageAgrees'
    BY <1>2, <2>1 DEF IInv, Recorded, AnsweredOnce, PageAgrees, input
  <2>4. OneReply'
    BY <1>2, <1>3, <2>1 DEF IInv, OneReply, Distinct
  <2> QED
    BY <2>2, <2>3, <2>4 DEF IInv
<1>6. CASE s \in Seqs
  <2>1. /\ Record(s, status)
        /\ \/ Deliver(s, status) /\ UNCHANGED reader
           \/ Raises /\ reader' = "broken" /\ UNCHANGED sent
    BY <1>6 DEF ReadResult
  <2>2. /\ status \in {"ok", "timeout"}
        /\ IF status = "ok" THEN sent[s] \in {<<>>, <<"timeout">>} ELSE sent[s] = <<>>
        /\ status = "ok" => line.kind = "reply" /\ line.seq = s
    <3>1. CASE line.kind = "reply"
      <4>1. status = "ok" /\ s = line.seq
        BY <3>1 DEF ItemSeq, ItemStatus
      <4> QED
        BY <1>3, <1>6, <3>1, <4>1 DEF IInv, OneReply
    <3>2. CASE line.kind # "reply"
      <4>1. status = "timeout" /\ s = NextFree
        BY <3>2 DEF ItemSeq, ItemStatus
      <4>2. results[s] = "none"
        BY <1>6, <4>1, FreeIsFree DEF IInv
      <4> QED
        BY <1>6, <4>1, <4>2 DEF IInv, Recorded
    <3> QED
      BY <3>1, <3>2
  <2> HIDE DEF line, s, status
  <2>3. /\ results' \in [Seqs -> {"none", "ok", "timeout"}]
        /\ sent' \in [Seqs -> Seq({"ok", "timeout"})]
        /\ AnsweredOnce' /\ PageAgrees'
        /\ \A q \in Seqs : results'[q] = "none" => sent'[q] = <<>>
        /\ \A q \in Seqs \ {s} : sent'[q] = sent[q] /\ results'[q] = results[q]
        /\ status = "timeout" => sent'[s] \in {<<>>, <<"timeout">>}
    <3>1. TypeOK /\ AnsweredOnce /\ PageAgrees /\ Recorded
      BY DEF IInv
    <3>2. /\ results' = [results EXCEPT ![s] = status]
          /\ \/ Deliver(s, status) /\ UNCHANGED page
             \/ Raises /\ UNCHANGED <<sent, page>>
      BY <1>2, <2>1 DEF Record, input
    <3>3. /\ status \in {"ok", "timeout"}
          /\ IF status = "ok" THEN sent[s] \in {<<>>, <<"timeout">>} ELSE sent[s] = <<>>
      BY <2>2
    <3> QED
      BY <1>6, <3>1, <3>2, <3>3, DeliverKeeps
  <2>4. received' = received \cup {s} /\ reader' \in {"reading", "broken"}
    BY <1>2, <2>1 DEF Record
  <2>5. TypeOK' /\ Phases'
    BY <1>2, <1>3, <1>4, <1>6, <2>3, <2>4 DEF IInv, TypeOK, Phases, input
  <2>6. Recorded'
    BY <1>2, <1>4, <2>3, <2>4 DEF IInv, Recorded
  <2>7. OneReply'
    <3>1. \A q \in Seqs :
            /\ q \in open' \/ q > transmitted' \/ Pending(q)' => sent'[q] \in {<<>>, <<"timeout">>}
            /\ q \in open' => q <= transmitted' /\ ~Pending(q)'
            /\ Pending(q)' => q <= transmitted'
      <4> SUFFICES ASSUME NEW q \in Seqs
                   PROVE  /\ q \in open' \/ q > transmitted' \/ Pending(q)' => sent'[q] \in {<<>>, <<"timeout">>}
                          /\ q \in open' => q <= transmitted' /\ ~Pending(q)'
                          /\ Pending(q)' => q <= transmitted'
        OBVIOUS
      <4>1. /\ q \in open \/ q > transmitted \/ Pending(q) => sent[q] \in {<<>>, <<"timeout">>}
            /\ q \in open => q <= transmitted /\ ~Pending(q)
            /\ Pending(q) => q <= transmitted
        BY DEF IInv, OneReply
      <4>2. open' = open /\ transmitted' = transmitted /\ (Pending(q)' => Pending(q))
        BY <1>2, <1>3
      <4>3. CASE q # s
        BY <2>3, <4>1, <4>2, <4>3
      <4>4. CASE q = s /\ status = "timeout"
        BY <2>3, <4>1, <4>2, <4>4
      <4>5. CASE q = s /\ status = "ok"
        <5>1. Pending(q) /\ ~Pending(q)'
          BY <1>3, <2>2, <4>5
        <5>2. q \in Nat /\ transmitted \in Nat
          BY SeqsNat DEF IInv, TypeOK
        <5> QED
          BY <4>1, <4>2, <5>1, <5>2
      <4> QED
        BY <2>2, <4>3, <4>4, <4>5
    <3> QED
      BY <1>3, <3>1 DEF OneReply, Distinct
  <2> QED
    BY <2>3, <2>5, <2>6, <2>7 DEF IInv
<1> QED
  BY <1>5, <1>6

LEMMA StatsSteps == ASSUME IInv, ReadStats PROVE IInv'
<1>1. Distinct
  BY DEF IInv, OneReply, Distinct
<1>2. /\ pipe # <<>> /\ pipe' = Tail(pipe) /\ Head(pipe).kind = "stats"
      /\ stats' = [tx |-> Head(pipe).tx, rx |-> Head(pipe).rx]
      /\ UNCHANGED <<input, clock, process, transmitted, open, tasks, results, received,
                     cancelled, output>>
  BY DEF ReadStats
<1>3. /\ pipe' \in Seq(Lines) /\ Distinct' /\ Head(pipe) \in Lines
      /\ \A q : Pending(q)' => Pending(q)
  BY <1>1, <1>2, Taken DEF IInv
<1>4. stats' \in [tx : 0..MaxSeq, rx : 0..MaxSeq]
  <2>1. Head(pipe).tx \in 0..MaxSeq /\ Head(pipe).rx \in 0..MaxSeq
    BY <1>2, <1>3, LineKinds
  <2> QED
    BY <1>2, <2>1
<1>5. TypeOK' /\ Phases'
  BY <1>2, <1>3, <1>4 DEF IInv, TypeOK, Phases, input, tasks, output
<1>6. Recorded' /\ AnsweredOnce' /\ PageAgrees'
  BY <1>2 DEF IInv, Recorded, AnsweredOnce, PageAgrees, input, tasks, output
<1>7. OneReply'
  BY <1>2, <1>3 DEF IInv, OneReply, Distinct, output
<1> QED
  BY <1>5, <1>6, <1>7 DEF IInv

-----------------------------------------------------------------------------
(* The end *)

LEMMA SummaryType ==
    ASSUME TypeOK
    PROVE  Summary \in [tx : 0..MaxSeq, rx : 0..MaxSeq, by : {"none", "completed", "user", "max_duration"}]
<1>1. Max({UseCount, LastResult}) \in 0..MaxSeq
  <2>1. {UseCount, LastResult} \in SUBSET (0..MaxSeq) /\ {UseCount, LastResult} # {}
    BY UseCountIn, LastResultIn
  <2>2. Max({UseCount, LastResult}) \in {UseCount, LastResult}
    BY <2>1, MaxIn, SeqsNat
  <2> QED
    BY <2>1, <2>2
<1>2. OkCount \in 0..MaxSeq
  BY CountIn DEF OkCount
<1> QED
  BY <1>1, <1>2 DEF Summary, TypeOK

LEMMA CompleteSteps == ASSUME IInv, Complete PROVE IInv'
<1>1. /\ main = "fill" /\ main' \in {"done", "failed"}
      /\ summary' = summary \/ summary' = Summary
      /\ UNCHANGED <<input, clock, ping, reader, watcher, listener, timedOut, data, sent>>
  BY DEF Complete
<1>2. summary' \in [tx : 0..MaxSeq, rx : 0..MaxSeq, by : {"none", "completed", "user", "max_duration"}]
  BY <1>1, SummaryType DEF IInv, TypeOK
<1>3. TypeOK' /\ Phases'
  BY <1>1, <1>2 DEF IInv, TypeOK, Phases, input, ping, data
<1> QED
  BY <1>1, <1>3, SilentKeeps DEF input, ping, data

-----------------------------------------------------------------------------
(* The invariant *)

LEMMA InitInv == Init => IInv
<1> SUFFICES ASSUME Init PROVE IInv
  OBVIOUS
<1>1. /\ pipe = <<>> /\ open = {} /\ transmitted = 0 /\ main = "wait" /\ received = {}
      /\ results = [s \in Seqs |-> "none"] /\ sent = [s \in Seqs |-> <<>>]
  BY DEF Init
<1>2. TypeOK
  <2>1. <<>> \in Seq(Lines) /\ <<>> \in Seq({"ok", "timeout"})
    OBVIOUS
  <2>2. watcher \in [now : Nat, next : 0..MaxSeq + 2]
    BY SeqsNat DEF Init, Ended, Asleep
  <2>3. sent \in [Seqs -> Seq({"ok", "timeout"})] /\ pipe \in Seq(Lines)
    BY <1>1, <2>1
  <2>4. 0 \in 0..MaxSeq
    BY SeqsNat
  <2> QED
    BY <2>2, <2>3, <2>4 DEF Init, TypeOK
<1>3. Phases /\ Recorded /\ AnsweredOnce /\ PageAgrees
  BY <1>1 DEF Phases, Recorded, AnsweredOnce, PageAgrees
<1>4. OneReply
  <2>1. DOMAIN pipe = {}
    BY <1>1
  <2> QED
    BY <1>1, <2>1 DEF OneReply, Pending
<1> QED
  BY <1>2, <1>3, <1>4 DEF IInv

LEMMA StutterInv == ASSUME IInv, UNCHANGED vars PROVE IInv'
<1>1. /\ UNCHANGED <<results, received, sent, open, transmitted, pipe, main, page>>
      /\ TypeOK' /\ Phases'
  BY DEF IInv, TypeOK, Phases, vars, input, ping, tasks, data, output
<1> QED
  BY <1>1, SilentKeeps

LEMMA NextInv == ASSUME IInv, Next PROVE IInv'
<1>1. CASE Process
  BY <1>1, ProcessSteps
<1>2. CASE Reader
  BY <1>2, ResultSteps, StatsSteps, SilentSteps DEF Reader
<1>3. CASE Watcher
  BY <1>3, WatchSteps, SilentSteps DEF Watcher
<1>4. CASE Listener
  BY <1>4, SilentSteps DEF Listener
<1>5. CASE Handler
  BY <1>5, FillSteps, CompleteSteps, SilentSteps DEF Handler
<1>6. CASE Tick \/ PressStop \/ Leave
  BY <1>6, SilentSteps
<1> QED
  BY <1>1, <1>2, <1>3, <1>4, <1>5, <1>6 DEF Next

LEMMA Inductive == Spec => []IInv
<1>1. IInv /\ [Next]_vars => IInv'
  BY NextInv, StutterInv
<1> QED
  BY InitInv, <1>1, PTL DEF Spec

-----------------------------------------------------------------------------
(* What the summary counts *)

\* The packets ping has a reply to, shown or still in the pipe.
Answered == {s \in Seqs : results[s] = "ok" \/ Pending(s)}

\* The statistics ping ends with stay true while the rest of its output is read,
\* and nothing the summary is made from changes once it is sent.
Counted ==
    /\ \A s \in Seqs : /\ s \in received => results[s] # "none"
                       /\ results[s] = "ok" => s <= transmitted
    /\ process # "exited" => stats.tx = 0 /\ \A i \in DOMAIN pipe : pipe[i].kind # "stats"
    /\ \A i \in DOMAIN pipe : pipe[i].kind = "stats" =>
         pipe[i].tx = transmitted /\ pipe[i].rx = Cardinality(Answered)
    /\ stats.tx > 0 => stats.tx = transmitted /\ stats.rx = Cardinality(Answered)
    /\ reader = "eof" => pipe = <<>> /\ process = "exited"
    /\ main \in {"drain", "fill", "done", "failed"} => listener = "ended"
    /\ main = "done" => summary = Summary /\ Missing = {}

LEMMA StatisticsCount == ASSUME TypeOK PROVE Statistics.rx = Cardinality(Answered) /\ Statistics.tx = transmitted
<1>1. \A i \in DOMAIN pipe : pipe[i].kind = "reply" => pipe[i].seq \in Seqs
  <2>1. pipe \in Seq(Lines) /\ DOMAIN pipe = 1..Len(pipe)
    BY LenProperties DEF TypeOK
  <2>2. \A i \in DOMAIN pipe : pipe[i] \in Lines
    BY <2>1, ElementOfSeq
  <2> QED
    BY <2>2, LineKinds
<1>2. Replied = Answered
  BY <1>1 DEF Replied, Answered, Pending
<1> QED
  BY <1>2 DEF Statistics

LEMMA AppendedLines ==
    ASSUME TypeOK, NEW line \in Lines, pipe' = Append(pipe, line)
    PROVE  /\ \A i \in DOMAIN pipe' : pipe'[i] = line \/ \E j \in DOMAIN pipe : pipe'[i] = pipe[j]
           /\ \A s : Pending(s)' <=> Pending(s) \/ (line.kind = "reply" /\ line.seq = s)
<1> DEFINE n == Len(pipe)
<1>1. pipe \in Seq(Lines) /\ n \in Nat /\ DOMAIN pipe = 1..n
  BY LenProperties DEF TypeOK
<1>2. /\ pipe' \in Seq(Lines) /\ Len(pipe') = n + 1
      /\ \A i \in 1..n : pipe'[i] = pipe[i]
      /\ pipe'[n + 1] = line
  BY <1>1, AppendProperties
<1>3. DOMAIN pipe' = 1..(n + 1)
  BY <1>2, LenProperties
<1> HIDE DEF n
<1>4. /\ \A i \in DOMAIN pipe' : (i \in DOMAIN pipe /\ pipe'[i] = pipe[i]) \/ pipe'[i] = line
      /\ \A i \in DOMAIN pipe : i \in DOMAIN pipe' /\ pipe'[i] = pipe[i]
      /\ \E i \in DOMAIN pipe' : pipe'[i] = line
  BY <1>1, <1>2, <1>3
<1> QED
  BY <1>4 DEF Pending

LEMMA TakenLines ==
    ASSUME TypeOK, pipe # <<>>, pipe' = Tail(pipe)
    PROVE  /\ \A i \in DOMAIN pipe' : \E j \in DOMAIN pipe : pipe'[i] = pipe[j]
           /\ \E j \in DOMAIN pipe : Head(pipe) = pipe[j]
           /\ Head(pipe) \in Lines
           /\ \A s : Pending(s) <=> Pending(s)' \/ (Head(pipe).kind = "reply" /\ Head(pipe).seq = s)
<1> DEFINE n == Len(pipe)
<1>1. pipe \in Seq(Lines) /\ n \in Nat \ {0} /\ DOMAIN pipe = 1..n
  BY LenProperties, EmptySeq DEF TypeOK
<1>2. /\ Head(pipe) = pipe[1] /\ Head(pipe) \in Lines /\ pipe' \in Seq(Lines)
      /\ Len(pipe') = n - 1 /\ \A i \in 1..(n - 1) : pipe'[i] = pipe[i + 1]
  BY <1>1, HeadTailProperties
<1>3. DOMAIN pipe' = 1..(n - 1)
  BY <1>2, LenProperties
<1> HIDE DEF n
<1>4. \A i \in DOMAIN pipe' : i + 1 \in DOMAIN pipe /\ pipe'[i] = pipe[i + 1]
  BY <1>1, <1>2, <1>3
<1>5. 1 \in DOMAIN pipe
  BY <1>1
<1>6. \A j \in DOMAIN pipe : j = 1 \/ (j - 1 \in DOMAIN pipe' /\ pipe'[j - 1] = pipe[j])
  BY <1>1, <1>2, <1>3
<1>7. ASSUME NEW s, Pending(s) PROVE Pending(s)' \/ (pipe[1].kind = "reply" /\ pipe[1].seq = s)
  <2>1. PICK j \in DOMAIN pipe : pipe[j].kind = "reply" /\ pipe[j].seq = s
    BY <1>7 DEF Pending
  <2>2. CASE j = 1
    BY <2>1, <2>2
  <2>3. CASE j # 1
    <3>1. j - 1 \in DOMAIN pipe' /\ pipe'[j - 1] = pipe[j]
      BY <1>6, <2>3
    <3> QED
      BY <2>1, <3>1 DEF Pending
  <2> QED
    BY <2>2, <2>3
<1>8. ASSUME NEW s, Pending(s)' PROVE Pending(s)
  <2>1. PICK i \in DOMAIN pipe' : pipe'[i].kind = "reply" /\ pipe'[i].seq = s
    BY <1>8 DEF Pending
  <2>2. i + 1 \in DOMAIN pipe /\ pipe[i + 1] = pipe'[i]
    BY <1>4
  <2> QED
    BY <2>1, <2>2 DEF Pending
<1>9. ASSUME NEW s, pipe[1].kind = "reply" /\ pipe[1].seq = s PROVE Pending(s)
  BY <1>5, <1>9 DEF Pending
<1>10. \A i \in DOMAIN pipe' : \E j \in DOMAIN pipe : pipe'[i] = pipe[j]
  BY <1>4
<1> QED
  BY <1>2, <1>5, <1>7, <1>8, <1>9, <1>10

\* A time-out for a packet without a result leaves the count of answers alone.
LEMMA SameAnswers ==
    ASSUME NEW s \in Seqs, TypeOK, results[s] = "none", results' = [results EXCEPT ![s] = "timeout"],
           \A q : Pending(q)' <=> Pending(q)
    PROVE  /\ Answered' = Answered
           /\ \A q \in Seqs : results'[q] = "ok" => results[q] = "ok"
           /\ \A q \in Seqs : results[q] # "none" \/ q = s => results'[q] # "none"
BY DEF Answered, TypeOK

LEMMA SilentCounted ==
    ASSUME Counted, UNCHANGED <<results, received, transmitted, pipe, stats, param, summary>>,
           process' # "exited" => process # "exited",
           reader' = "eof" => pipe = <<>> /\ process' = "exited",
           main' \in {"drain", "fill", "done", "failed"} => listener' = "ended",
           main' = "done" => main = "done" /\ UNCHANGED <<timedOut, cancelled>>
    PROVE  Counted'
<1>1. Answered' = Answered
  BY DEF Answered, Pending
<1>2. main' = "done" => summary' = Summary' /\ Missing' = {}
  <2> SUFFICES ASSUME main' = "done" PROVE summary' = Summary' /\ Missing' = {}
    OBVIOUS
  <2>1. main = "done" /\ UNCHANGED <<timedOut, cancelled>>
    OBVIOUS
  <2>2. LastResult' = LastResult /\ OkCount' = OkCount
    BY DEF LastResult, OkCount
  <2>3. UseCount' = UseCount
    BY <2>1, <2>2 DEF UseCount
  <2>4. Summary' = Summary
    BY <2>1, <2>2, <2>3 DEF Summary
  <2>5. Missing' = Missing
    BY <2>3 DEF Missing
  <2> QED
    BY <2>1, <2>4, <2>5 DEF Counted
<1> QED
  BY <1>1, <1>2 DEF Counted

LEMMA SilentStepsCounted ==
    ASSUME IInv, Counted,
           \/ Tick \/ ReadEof \/ WatchRound \/ Cancel \/ HearDisconnect
           \/ TimeLimit \/ ProcessGone \/ Drained \/ ReaderFailed \/ PressStop \/ Leave \/ UNCHANGED vars
    PROVE  Counted'
<1>1. UNCHANGED <<results, received, transmitted, pipe, stats, param, summary>>
  BY DEF Tick, ReadEof, WatchRound, Cancel, HearDisconnect, TimeLimit, ProcessGone, Drained, ReaderFailed,
         PressStop, Leave, vars, input, ping, tasks, data, output
<1>2. process' # "exited" => process # "exited"
  BY DEF Tick, ReadEof, WatchRound, Cancel, HearDisconnect, TimeLimit, AfterLimit, ProcessGone, Drained,
         ReaderFailed, PressStop, Leave, vars, input, ping, tasks, data, output
<1>3. reader' = "eof" => pipe = <<>> /\ process' = "exited"
  BY DEF Counted, Tick, ReadEof, WatchRound, Cancel, HearDisconnect, TimeLimit, AfterLimit, ProcessGone, Drained,
         ReaderFailed, PressStop, Leave, vars, input, ping, tasks, data, output
<1>4. main' \in {"drain", "fill", "done", "failed"} => listener' = "ended"
  BY DEF Counted, Tick, ReadEof, WatchRound, Cancel, HearDisconnect, TimeLimit, ProcessGone, Drained,
         ReaderFailed, PressStop, Leave, vars, input, ping, tasks, data, output
<1>5. main' = "done" => main = "done" /\ UNCHANGED <<timedOut, cancelled>>
  BY DEF Counted, Tick, ReadEof, WatchRound, Cancel, HearDisconnect, TimeLimit, ProcessGone, Drained,
         ReaderFailed, PressStop, Leave, vars, input, ping, tasks, data, output
<1> QED
  BY <1>1, <1>2, <1>3, <1>4, <1>5, SilentCounted

LEMMA ProcessCounted == ASSUME IInv, Counted, Process PROVE Counted'
<1>1. main' = main /\ (main \in {"fill", "done"} => process = "exited")
  BY DEF Process, Transmit, PrintLine, EndByItself, EndBySignal, tasks, IInv, Phases
<1>2. /\ process # "exited" /\ main # "done" /\ reader # "eof"
      /\ stats.tx = 0 /\ \A i \in DOMAIN pipe : pipe[i].kind # "stats"
  BY <1>1 DEF Process, Transmit, PrintLine, EndByItself, EndBySignal, Counted
<1>3. UNCHANGED <<tasks, data, output, input>>
  BY DEF Process, Transmit, PrintLine, EndByItself, EndBySignal
<1>4. CASE Transmit
  <2>1. transmitted' = transmitted + 1 /\ UNCHANGED <<pipe, process>> /\ transmitted \in Nat
    BY <1>4, SeqsNat DEF Transmit, IInv, TypeOK
  <2>2. \A s \in Seqs : s \in Nat
    BY SeqsNat
  <2> QED
    BY <1>1, <1>2, <1>3, <2>1, <2>2 DEF Counted, tasks, data
<1>5. ASSUME NEW s \in open, NEW line \in Lines, PrintLine(s, line), line.kind # "stats"
      PROVE  Counted'
  <2>1. pipe' = Append(pipe, line) /\ UNCHANGED <<transmitted, process>>
    BY <1>5 DEF PrintLine
  <2>2. \A i \in DOMAIN pipe' : pipe'[i] = line \/ \E j \in DOMAIN pipe : pipe'[i] = pipe[j]
    BY <1>5, <2>1, AppendedLines DEF IInv
  <2>3. \A i \in DOMAIN pipe' : pipe'[i].kind # "stats"
    BY <1>2, <1>5, <2>2
  <2> QED
    BY <1>1, <1>2, <1>3, <2>1, <2>3 DEF Counted, tasks, data
<1>6. ASSUME NEW s \in open, PrintLine(s, [kind |-> "reply", seq |-> s]) PROVE Counted'
  <2>1. [kind |-> "reply", seq |-> s] \in Lines
    BY DEF Lines, IInv, TypeOK
  <2> QED
    BY <1>5, <1>6, <2>1
<1>7. ASSUME NEW s \in open, PrintLine(s, [kind |-> "unreachable"]) PROVE Counted'
  <2>1. [kind |-> "unreachable"] \in Lines
    BY DEF Lines
  <2> QED
    BY <1>5, <1>7, <2>1
<1>8. CASE EndByItself \/ EndBySignal
  <2>1. process' = "exited" /\ UNCHANGED transmitted /\ (UNCHANGED pipe \/ pipe' = Append(pipe, Statistics))
    BY <1>8 DEF EndByItself, EndBySignal
  <2>2. CASE UNCHANGED pipe
    BY <1>1, <1>2, <1>3, <2>1, <2>2 DEF Counted, tasks, data
  <2>3. CASE pipe' = Append(pipe, Statistics)
    <3>1. /\ \A i \in DOMAIN pipe' : pipe'[i] = Statistics \/ \E j \in DOMAIN pipe : pipe'[i] = pipe[j]
          /\ \A s : Pending(s)' <=> Pending(s)
      BY <2>3, AppendedLines, StatisticsLine DEF IInv
    <3>2. Answered' = Answered
      BY <1>3, <3>1 DEF Answered, data
    <3>3. \A i \in DOMAIN pipe' : pipe'[i].kind = "stats" =>
            pipe'[i].tx = transmitted' /\ pipe'[i].rx = Cardinality(Answered')
      BY <1>2, <2>1, <3>1, <3>2, StatisticsCount DEF IInv
    <3> QED
      BY <1>1, <1>2, <1>3, <2>1, <3>3 DEF Counted, tasks, data
  <2> QED
    BY <2>1, <2>2, <2>3
<1> QED
  BY <1>4, <1>6, <1>7, <1>8 DEF Process

LEMMA ReaderCounted == ASSUME IInv, Counted, ReadResult \/ ReadStats PROVE Counted'
<1> DEFINE line == Head(pipe)
<1>1. /\ pipe # <<>> /\ pipe' = Tail(pipe) /\ reader = "reading" /\ reader' \in {"reading", "broken"}
      /\ UNCHANGED <<process, transmitted, main, listener>>
  BY DEF ReadResult, ReadStats, tasks
<1>2. main' = main /\ main # "done"
  BY <1>1 DEF IInv, Phases
<1>3. /\ \A i \in DOMAIN pipe' : \E j \in DOMAIN pipe : pipe'[i] = pipe[j]
      /\ \E j \in DOMAIN pipe : line = pipe[j]
      /\ line \in Lines
      /\ \A s : Pending(s) <=> Pending(s)' \/ (line.kind = "reply" /\ line.seq = s)
  BY <1>1, TakenLines DEF IInv
<1>4. CASE ReadStats
  <2>1. /\ line.kind = "stats" /\ stats' = [tx |-> line.tx, rx |-> line.rx]
        /\ UNCHANGED <<results, received>>
    BY <1>4 DEF ReadStats
  <2>2. Answered' = Answered
    BY <1>3, <2>1 DEF Answered
  <2>3. line.tx = transmitted /\ line.rx = Cardinality(Answered) /\ process = "exited"
    BY <1>3, <2>1 DEF Counted
  <2> HIDE DEF line
  <2> QED
    BY <1>1, <1>2, <1>3, <2>1, <2>2, <2>3 DEF Counted
<1>5. CASE ReadResult
  <2> DEFINE s == ItemSeq(line)
  <2>1. UNCHANGED stats /\ line.kind # "stats"
    BY <1>5 DEF ReadResult
  <2>2. IF s \in Seqs THEN Record(s, ItemStatus(line)) ELSE UNCHANGED <<results, received>>
    BY <1>5 DEF ReadResult
  <2>3. /\ Answered' = Answered
        /\ \A q \in Seqs : /\ q \in received' => results'[q] # "none"
                           /\ results'[q] = "ok" => q <= transmitted
    <3>1. CASE line.kind = "reply"
      <4>1. s = line.seq /\ ItemStatus(line) = "ok" /\ s \in Seqs
        BY <1>3, <3>1, LineKinds DEF ItemSeq, ItemStatus
      <4>2. /\ \A q \in Seqs : results'[q] = IF q = s THEN "ok" ELSE results[q]
            /\ received' = received \cup {s}
        BY <2>2, <4>1 DEF Record, IInv, TypeOK
      <4>3. s <= transmitted
        BY <1>3, <3>1, <4>1 DEF IInv, OneReply
      <4>4. \A q \in Seqs : (results'[q] = "ok" \/ Pending(q)') <=> (results[q] = "ok" \/ Pending(q))
        BY <1>3, <3>1, <4>1, <4>2
      <4>5. Answered' = Answered
        BY <4>4 DEF Answered
      <4> QED
        BY <4>2, <4>3, <4>5 DEF Counted
    <3>2. CASE line.kind # "reply" /\ s \in Seqs
      <4>1. s = NextFree /\ ItemStatus(line) = "timeout" /\ results[s] = "none"
        BY <3>2, FreeIsFree DEF ItemSeq, ItemStatus, IInv
      <4>2. results' = [results EXCEPT ![s] = "timeout"] /\ received' = received \cup {s}
        BY <2>2, <3>2, <4>1 DEF Record
      <4> HIDE DEF s
      <4>3. /\ Answered' = Answered
            /\ \A q \in Seqs : results'[q] = "ok" => results[q] = "ok"
            /\ \A q \in Seqs : results[q] # "none" \/ q = s => results'[q] # "none"
        BY <1>3, <3>2, <4>1, <4>2, SameAnswers DEF IInv
      <4> QED
        BY <4>2, <4>3 DEF Counted
    <3>3. CASE line.kind # "reply" /\ s \notin Seqs
      BY <1>3, <2>2, <3>3 DEF Answered, Counted
    <3> QED
      BY <3>1, <3>2, <3>3
  <2> HIDE DEF line, s
  <2> QED
    BY <1>1, <1>2, <1>3, <2>1, <2>3 DEF Counted
<1> QED
  BY <1>4, <1>5

LEMMA WatchCounted == ASSUME IInv, Counted, WatchSeq PROVE Counted'
<1> DEFINE late == {s \in Seqs : s >= watcher.next /\ Overdue(s)}
           s == Min(late)
<1>1. /\ main \in {"wait", "kill"}
      /\ UNCHANGED <<input, ping, reader, listener, main, timedOut, cancelled, stats, summary>>
  BY SeqsNat DEF WatchSeq, Seqs, Ended, IInv, Phases, TypeOK
<1>2. CASE late = {}
  <2>1. UNCHANGED <<results, received>>
    BY <1>2 DEF WatchSeq
  <2> QED
    BY <1>1, <2>1, SilentCounted DEF Counted, input, ping
<1>3. CASE late # {}
  <2>1. late \in SUBSET Nat /\ late \subseteq Seqs
    BY SeqsNat
  <2>2. s \in Seqs /\ s \notin received
    BY <1>3, <2>1, MinIn DEF Overdue
  <2>3. results[s] = "none"
    BY <1>1, <2>2 DEF IInv, Recorded
  <2>4. results' = [results EXCEPT ![s] = "timeout"] /\ received' = received \cup {s}
    BY <1>3 DEF WatchSeq, Record
  <2> HIDE DEF s, late
  <2>5. \A q : Pending(q)' <=> Pending(q)
    BY <1>1 DEF Pending, ping
  <2>6. /\ Answered' = Answered
        /\ \A q \in Seqs : results'[q] = "ok" => results[q] = "ok"
        /\ \A q \in Seqs : results[q] # "none" \/ q = s => results'[q] # "none"
    BY <2>2, <2>3, <2>4, <2>5, SameAnswers DEF IInv
  <2> QED
    BY <1>1, <2>4, <2>6 DEF Counted, ping
<1> QED
  BY <1>2, <1>3

LEMMA FillCounted == ASSUME IInv, Counted, FillOne PROVE Counted'
<1> DEFINE s == Min(Missing)
<1>1. Missing \in SUBSET Nat /\ Missing \subseteq Seqs
  BY UseCountIn, SeqsNat DEF Missing, Seqs, IInv
<1>2. s \in Seqs /\ results[s] = "none"
  <2>1. s \in Missing
    BY <1>1, MinIn DEF FillOne
  <2> QED
    BY <1>1, <2>1 DEF Missing
<1>3. /\ main = "fill" /\ main' \in {"fill", "failed"} /\ results' = [results EXCEPT ![s] = "timeout"]
      /\ UNCHANGED <<ping, reader, listener, received, stats>>
  BY DEF FillOne
<1> HIDE DEF s
<1>4. \A q : Pending(q)' <=> Pending(q)
  BY <1>3 DEF Pending, ping
<1>5. /\ Answered' = Answered
      /\ \A q \in Seqs : results'[q] = "ok" => results[q] = "ok"
      /\ \A q \in Seqs : results[q] # "none" \/ q = s => results'[q] # "none"
  BY <1>2, <1>3, <1>4, SameAnswers DEF IInv
<1> QED
  BY <1>3, <1>5 DEF Counted, ping

LEMMA CompleteCounted == ASSUME IInv, Counted, Complete PROVE Counted'
<1>1. /\ main = "fill" /\ main' \in {"done", "failed"} /\ Missing = {}
      /\ main' = "done" => summary' = Summary
      /\ UNCHANGED <<input, ping, reader, listener, timedOut, data>>
  BY DEF Complete
<1>2. Answered' = Answered
  BY <1>1 DEF Answered, Pending, ping, data
<1>3. LastResult' = LastResult /\ OkCount' = OkCount
  BY <1>1 DEF LastResult, OkCount, data
<1>4. UseCount' = UseCount
  BY <1>1, <1>3 DEF UseCount, data, input
<1>5. Summary' = Summary /\ Missing' = Missing
  BY <1>1, <1>3, <1>4 DEF Summary, Missing, data
<1> QED
  BY <1>1, <1>2, <1>5 DEF Counted, ping, data

LEMMA InitCounted == Init => Counted
<1> SUFFICES ASSUME Init PROVE Counted
  OBVIOUS
<1>1. DOMAIN pipe = {}
  BY DEF Init
<1> QED
  BY <1>1 DEF Init, Counted

LEMMA NextCounted == ASSUME IInv, Counted, [Next]_vars PROVE Counted'
<1>1. CASE Process
  BY <1>1, ProcessCounted
<1>2. CASE Reader
  BY <1>2, ReaderCounted, SilentStepsCounted DEF Reader
<1>3. CASE Watcher
  BY <1>3, WatchCounted, SilentStepsCounted DEF Watcher
<1>4. CASE Listener
  BY <1>4, SilentStepsCounted DEF Listener
<1>5. CASE Handler
  BY <1>5, FillCounted, CompleteCounted, SilentStepsCounted DEF Handler
<1>6. CASE Tick \/ PressStop \/ Leave \/ UNCHANGED vars
  BY <1>6, SilentStepsCounted
<1> QED
  BY <1>1, <1>2, <1>3, <1>4, <1>5, <1>6 DEF Next

LEMMA CountedFromTheStart == Spec => []Counted
BY Inductive, InitCounted, NextCounted, PTL DEF Spec

-----------------------------------------------------------------------------
(* Theorems *)

\* The tasks that share a run keep every variable in its type.
THEOREM TypeCorrect == Spec => []TypeOK
<1>1. IInv => TypeOK
  BY DEF IInv
<1> QED
  BY <1>1, Inductive, PTL

\* Whichever of reader, watcher and handler comes first, and however many packets:
\* no result of a packet is shown twice, and no time-out after its reply.
THEOREM AlwaysAnsweredOnce == Spec => []AnsweredOnce
<1>1. IInv => AnsweredOnce
  BY DEF IInv
<1> QED
  BY <1>1, Inductive, PTL

\* As long as the page is there, what it shows last of a packet is what the server holds.
THEOREM AlwaysPageAgrees == Spec => []PageAgrees
<1>1. IInv => PageAgrees
  BY DEF IInv
<1> QED
  BY <1>1, Inductive, PTL

\* However the statistics, the time limit and the cancellation come together, the
\* summary counts the replies shown, no more than it speaks of, and leaves no packet
\* it speaks of without a result on the page.
THEOREM AlwaysSummaryAgrees == Spec => []SummaryAgrees
<1>1. IInv /\ Counted => SummaryAgrees
  <2> SUFFICES ASSUME IInv, Counted, main = "done", page # "gone" PROVE SummaryAgrees
    BY DEF SummaryAgrees
  <2> DEFINE shown == {s \in Seqs : sent[s] # <<>> /\ sent[s][Len(sent[s])] = "ok"}
             ok == {s \in Seqs : results[s] = "ok"}
  <2>1. summary = Summary /\ Missing = {} /\ pipe = <<>>
    BY DEF Counted, IInv, Phases
  <2>2. shown = ok
    BY DEF IInv, PageAgrees
  <2>3. Answered = ok
    <3>1. DOMAIN pipe = {}
      BY <2>1
    <3> QED
      BY <3>1 DEF Answered, Pending
  <2>4. OkCount = Cardinality(shown)
    BY <2>2 DEF OkCount
  <2>5. ASSUME NEW n \in Nat, \A s \in ok : s <= n PROVE OkCount <= n
    <3>1. ok \subseteq 1..n
      BY <2>5, SeqsNat DEF Seqs
    <3>2. IsFiniteSet(1..n) /\ Cardinality(1..n) = n
      BY FS_Interval
    <3>3. Cardinality(ok) <= n
      BY <3>1, <3>2, FS_Subset
    <3> QED
      BY <2>2, <2>4, <3>3
  <2> HIDE DEF shown
  <2>6. summary.rx = Cardinality(shown)
    BY <2>1, <2>2, <2>3, <2>4 DEF Summary, Counted
  <2>7. summary.rx <= summary.tx
    <3>1. CASE stats.tx > 0 /\ ~timedOut
      <4>1. summary.tx = transmitted /\ transmitted \in Nat /\ summary.rx = OkCount
        BY <2>1, <2>4, <2>6, <3>1 DEF Summary, Counted, IInv, TypeOK
      <4>2. \A s \in ok : s <= transmitted
        BY DEF Counted
      <4> QED
        BY <2>5, <4>1, <4>2
    <3>2. CASE ~(stats.tx > 0 /\ ~timedOut)
      <4>1. summary.tx = Max({UseCount, LastResult}) /\ summary.rx = OkCount
        BY <2>1, <3>2 DEF Summary
      <4>2. /\ {UseCount, LastResult} \in SUBSET (0..MaxSeq) /\ {UseCount, LastResult} # {}
            /\ LastResult \in Nat
        BY UseCountIn, LastResultIn, SeqsNat DEF IInv
      <4>3. /\ Max({UseCount, LastResult}) \in {UseCount, LastResult}
            /\ Max({UseCount, LastResult}) >= LastResult
        BY <4>2, MaxIn, SeqsNat
      <4>4. \A s \in ok : s <= LastResult
        BY LastResultBounds DEF IInv
      <4>5. OkCount <= LastResult /\ OkCount \in Nat
        BY <2>5, <4>2, <4>4, CountIn, SeqsNat DEF OkCount
      <4>6. Max({UseCount, LastResult}) \in Nat
        BY <4>2, <4>3, SeqsNat
      <4> QED
        BY <4>1, <4>2, <4>3, <4>5, <4>6
    <3> QED
      BY <3>1, <3>2
  <2>8. \A s \in 1..UseCount : sent[s] # <<>>
    <3> SUFFICES ASSUME NEW s \in 1..UseCount PROVE sent[s] # <<>>
      OBVIOUS
    <3>1. s \in Seqs
      BY UseCountIn, SeqsNat DEF IInv, Seqs
    <3>2. results[s] # "none"
      BY <2>1, <3>1 DEF Missing, Counted
    <3> QED
      BY <3>1, <3>2 DEF IInv, PageAgrees
  <2> QED
    BY <2>6, <2>7, <2>8 DEF SummaryAgrees, shown
<1> QED
  BY <1>1, Inductive, CountedFromTheStart, PTL

\* The safety half of KeepsContract: the handler says its last word once, and only
\* when its process has ended.
THEOREM KeepsItsWord == Spec => Contract!Init /\ [][Contract!Next]_(Contract!vars)
<1>1. Init => Contract!Init
  BY DEF Init, Contract!Init
<1>2. IInv /\ [Next]_vars => [Contract!Next]_(Contract!vars)
  <2> SUFFICES ASSUME IInv, [Next]_vars PROVE [Contract!Next]_(Contract!vars)
    OBVIOUS
  <2>1. CASE process = "exited"
    <3>1. process' = "exited"
      BY <2>1 DEF Next, vars, Process, Reader, Watcher, Listener, Handler, Tick, Transmit, PrintLine, EndByItself,
                  EndBySignal, ReadResult, ReadStats, ReadEof, WatchRound, WatchSeq, Cancel, HearDisconnect,
                  TimeLimit, AfterLimit, ProcessGone, Drained, FillOne, Complete, ReaderFailed, PressStop,
                  Leave, ping
    <3>2. main' = main \/ (main \notin {"done", "failed"} /\ main' \in {"kill", "drain", "fill", "done", "failed"})
      BY DEF Next, vars, Process, Reader, Watcher, Listener, Handler, Tick, Transmit, PrintLine, EndByItself,
             EndBySignal, ReadResult, ReadStats, ReadEof, WatchRound, WatchSeq, Cancel, HearDisconnect,
             TimeLimit, ProcessGone, Drained, FillOne, Complete, ReaderFailed, PressStop, Leave, tasks
    <3> QED
      BY <2>1, <3>1, <3>2 DEF Contract!Next, Contract!Conclude, Contract!vars
  <2>2. CASE process # "exited"
    <3>1. main \in {"wait", "kill"}
      BY <2>2 DEF IInv, Phases, TypeOK
    <3>2. main' \in {"wait", "kill"}
      BY <2>2, <3>1 DEF Next, vars, Process, Reader, Watcher, Listener, Handler, Tick, Transmit, PrintLine,
             EndByItself, EndBySignal, ReadResult, ReadStats, ReadEof, WatchRound, WatchSeq, Cancel,
             HearDisconnect, TimeLimit, ProcessGone, Drained, FillOne, Complete, ReaderFailed, PressStop,
             Leave, tasks
    <3> QED
      BY <2>2, <3>1, <3>2 DEF Contract!Next, Contract!Exit, Contract!vars
  <2> QED
    BY <2>1, <2>2
<1> QED
  BY <1>1, <1>2, Inductive, PTL DEF Spec
=============================================================================
