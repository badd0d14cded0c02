--------------------------- MODULE SessionStoreProofs ---------------------------
(***************************************************************************)
(* Proofs about SessionStore, for every number of users, tokens and        *)
(* requests, every limit and every choice of operations and faults.        *)
(*                                                                         *)
(* The argument.  A key becomes "full" and a row appears only in the       *)
(* request that creates the token, and a token is issued once.  A request  *)
(* that ends a session takes it from a committed row, so its creator has   *)
(* gone by then (Selected); once it has deleted the key, nobody is left to *)
(* write it back, and when it commits the row goes too.                    *)
(***************************************************************************)
EXTENDS SessionStore, TLAPS

\* Which operation a request in a given place runs, and what it then holds;
\* o is the function owner.
ShapeOf(o, r) ==
    /\ r.pc = "idle" => r.op = "idle"
    /\ r.pc \in {"members", "ages", "sadd"} => r.op = "login"
    /\ r.pc \in {"insert", "hset", "ttl"} => r.op \in {"login", "anonymous"}
    /\ r.pc \in {"get", "touch", "extend", "select"} => r.op = "resolve"
    /\ r.pc \in {"srem", "unlink"} => r.key \in Hashes
    /\ r.op \in {"login", "anonymous", "resolve"} => r.h \in Hashes /\ r.del = {}
    /\ r.op = "login" => o[r.h] \in Users

Shape == \A p \in Procs : ShapeOf(owner, proc[p])

\* What either store holds was issued.
StoredIssued ==
    \A h \in Hashes : h \in rows \/ hashKey[h] = "full" \/ h \in purged => Issued(h)

\* A token is created by one request, whose row is not committed yet.
SoleCreator ==
    \A p \in Procs, h \in Hashes : Creates(p, h) =>
        /\ Issued(h)
        /\ h \notin rows
        /\ \A q \in Procs : Creates(q, h) => q = p

\* The rows a request has selected for deletion have no creator any more, and
\* a key it has deleted is not a whole session again.
Selected ==
    \A p \in Procs : \A h \in proc[p].del :
        /\ Issued(h)
        /\ ~InFlight(h)
        /\ h \in proc[p].done => hashKey[h] # "full"

Safe == StoredIssued /\ SoleCreator /\ Selected /\ PurgedStaysPurged

IInv == TypeOK /\ Shape /\ Safe

-----------------------------------------------------------------------------
(* Types *)

\* The idle request is a request.
LEMMA IdleOK == Idle \in Request /\ \A o : ShapeOf(o, Idle)
BY ConstantsAssumption DEF Idle, Request, ShapeOf, Pcs, AllOps

\* Two records of one process: r follows a well-formed request, and no user
\* loses a token.
LEMMA BecomeOK ==
    ASSUME TypeOK, Shape, NEW p \in Procs, NEW r, r \in Request, ShapeOf(owner', r), Become(p, r),
           \A h \in Hashes : owner[h] \in Users => owner'[h] = owner[h]
    PROVE  proc' \in [Procs -> Request] /\ Shape'
<1>1. proc' \in [Procs -> Request] /\ proc'[p] = r
  BY DEF TypeOK, Become
<1>2. ASSUME NEW q \in Procs PROVE ShapeOf(owner', proc'[q])
  <2>1. CASE q = p
    BY <1>1, <2>1
  <2>2. CASE q # p
    <3>1. proc'[q] = proc[q] /\ ShapeOf(owner, proc[q])
      BY <2>2 DEF TypeOK, Become, Shape
    <3> QED
      BY <3>1 DEF ShapeOf
  <2> QED
    BY <2>1, <2>2
<1> QED
  BY <1>1, <1>2 DEF Shape

\* Advancing a request to a place its operation may be in keeps it well formed.
LEMMA GotoOK ==
    ASSUME TypeOK, Shape, NEW p \in Procs, NEW label \in Pcs,
           ShapeOf(owner, [proc[p] EXCEPT !.pc = label]), Goto(p, label), owner' = owner
    PROVE  proc' \in [Procs -> Request] /\ Shape'
<1> DEFINE r == [proc[p] EXCEPT !.pc = label]
<1>1. r \in Request
  BY DEF TypeOK, Request
<1>2. Become(p, r)
  BY DEF Goto
<1> QED
  BY <1>1, <1>2, BecomeOK

\* delete_session returning without an answer.
LEMMA SkipOK ==
    ASSUME TypeOK, Shape, NEW p \in Procs, NEW t, Skip(p, t), owner' = owner,
           proc[p].pc \in {"purge", "srem", "unlink"}
    PROVE  proc' \in [Procs -> Request] /\ Shape'
<1> DEFINE left == proc[p].todo \ {t}
           r == [proc[p] EXCEPT !.pc = AfterPurge(p, left), !.todo = left, !.key = None]
<1>1. /\ AfterPurge(p, left) \in {"purge", "insert", "flush", "commit"}
      /\ AfterPurge(p, left) = "insert" => proc[p].op = "login"
  BY DEF AfterPurge
<1>2. proc[p] \in Request /\ ShapeOf(owner, proc[p])
  BY DEF TypeOK, Shape
<1>3. r \in Request
  BY <1>1, <1>2 DEF Request, Pcs
<1>4. ShapeOf(owner', r)
  BY <1>1, <1>2 DEF Request, ShapeOf
<1>5. Become(p, r)
  BY DEF Skip
<1> QED
  BY <1>3, <1>4, <1>5, BecomeOK

\* session_service.create puts a new token in place of whatever the request was.
LEMMA CreateShape ==
    ASSUME TypeOK, Shape, NEW p \in Procs, NEW h \in Hashes,
           \/ Create(p, "anonymous", Anonymous, h, "insert")
           \/ \E u \in Users : Create(p, "login", u, h, "members")
    PROVE  proc' \in [Procs -> Request] /\ Shape'
<1> USE ConstantsAssumption
<1>1. PICK op \in {"login", "anonymous"}, u \in Users \cup {Anonymous}, label \in {"members", "insert"} :
        /\ Create(p, op, u, h, label)
        /\ op = "login" => u \in Users
        /\ label = "members" => op = "login"
  OBVIOUS
<1> DEFINE r == [Idle EXCEPT !.op = op, !.pc = label, !.h = h]
<1>2. r \in Request
  BY <1>1 DEF Idle, Request, Pcs, AllOps
<1>3. owner'[h] = u
  BY <1>1 DEF Create, TypeOK
<1>4. ShapeOf(owner', r)
  BY <1>1, <1>3 DEF Idle, ShapeOf
<1>5. \A g \in Hashes : owner[g] \in Users => owner'[g] = owner[g]
  BY <1>1 DEF Create, Issued, TypeOK
<1> QED
  BY <1>1, <1>2, <1>4, <1>5, BecomeOK DEF Create

\* Every request's own step keeps the types.  r names the record a step leaves.
LEMMA ContinueShape ==
    ASSUME TypeOK, Shape, NEW p \in Procs, Continue(p)
    PROVE  TypeOK' /\ Shape'
<1> USE ConstantsAssumption
<1> DEFINE Good == proc' \in [Procs -> Request] /\ Shape'
<1>0. proc[p] \in Request /\ ShapeOf(owner, proc[p])
  BY DEF TypeOK, Shape
<1>idle. Become(p, Idle) /\ owner' = owner => Good
  BY IdleOK, BecomeOK
<1>1. CASE Members(p)
  <2> DEFINE members == index[owner[proc[p].h]]
             r == [proc[p] EXCEPT !.pc = "ages", !.todo = members, !.unread = members]
  <2>1. members \subseteq Hashes
    BY <1>0, <1>1 DEF Members, At, ShapeOf, TypeOK
  <2>2. r \in Request /\ ShapeOf(owner, r)
    BY <1>0, <1>1, <2>1 DEF Members, At, Request, Pcs, ShapeOf
  <2>3. ShapeOf(owner, [proc[p] EXCEPT !.pc = "insert"])
    BY <1>0, <1>1 DEF Members, At, Request, ShapeOf
  <2>4. (Become(p, r) \/ Goto(p, "insert")) /\ owner' = owner
    BY <1>1 DEF Members, issue
  <2>5. Good
    BY <2>2, <2>3, <2>4, BecomeOK, GotoOK DEF Pcs
  <2> QED
    BY <1>1, <2>5 DEF Members, TypeOK, issue, store, ghost
<1>2. CASE ReadAge(p)
  <2>1. PICK t \in proc[p].unread :
          IF redisUp
          THEN Become(p, [proc[p] EXCEPT !.unread = @ \ {t},
                          !.blank = IF hashKey[t] = "full" THEN @ ELSE @ \cup {t}])
          ELSE Become(p, [proc[p] EXCEPT !.pc = "insert", !.todo = {}, !.unread = {}, !.blank = {}])
    BY <1>2 DEF ReadAge
  <2> DEFINE r1 == [proc[p] EXCEPT !.unread = @ \ {t},
                          !.blank = IF hashKey[t] = "full" THEN @ ELSE @ \cup {t}]
             r2 == [proc[p] EXCEPT !.pc = "insert", !.todo = {}, !.unread = {}, !.blank = {}]
  <2>2. t \in Hashes
    BY <1>0, <2>1 DEF Request
  <2>3. r1 \in Request /\ ShapeOf(owner, r1)
    BY <1>0, <2>2 DEF Request, ShapeOf
  <2>4. r2 \in Request /\ ShapeOf(owner, r2)
    BY <1>0, <1>2 DEF ReadAge, At, Request, Pcs, ShapeOf
  <2>5. (Become(p, r1) \/ Become(p, r2)) /\ owner' = owner
    BY <1>2, <2>1 DEF ReadAge, issue
  <2>6. Good
    BY <2>3, <2>4, <2>5, BecomeOK
  <2> QED
    BY <1>2, <2>6 DEF ReadAge, TypeOK, issue, store, ghost
<1>3. CASE ChooseEvicted(p)
  <2>1. PICK evicted \in SUBSET proc[p].todo : Become(p, [proc[p] EXCEPT !.pc = "purge", !.todo = evicted])
    BY <1>3 DEF ChooseEvicted
  <2> DEFINE r == [proc[p] EXCEPT !.pc = "purge", !.todo = evicted]
  <2>2. r \in Request /\ ShapeOf(owner, r)
    BY <1>0, <2>1 DEF Request, Pcs, ShapeOf
  <2>3. Good
    BY <1>3, <2>1, <2>2, BecomeOK DEF ChooseEvicted, issue
  <2> QED
    BY <1>3, <2>3 DEF ChooseEvicted, TypeOK, issue, store, ghost
<1>4. CASE Insert(p)
  <2> DEFINE r == [proc[p] EXCEPT !.pc = "hset", !.blank = {}, !.done = {}]
  <2>1. r \in Request /\ ShapeOf(owner, r)
    BY <1>0, <1>4 DEF Insert, At, Request, Pcs, ShapeOf
  <2>2. Good
    BY <1>4, <1>idle, <2>1, BecomeOK DEF Insert, issue
  <2> QED
    BY <1>4, <2>2 DEF Insert, TypeOK, issue, store, ghost
<1>respond. Respond(p) /\ owner' = owner => Good /\ held' = (IF proc[p].op = "login" THEN held \cup {proc[p].h} ELSE held)
  <2>1. ShapeOf(owner, [proc[p] EXCEPT !.pc = "commit"])
    BY <1>0 DEF Request, ShapeOf
  <2> QED
    BY <2>1, GotoOK DEF Respond, Pcs
<1>held. proc[p].op = "login" => proc[p].h \in Hashes
  BY <1>0 DEF ShapeOf
<1>5. CASE WriteHash(p)
  <2>1. ShapeOf(owner, [proc[p] EXCEPT !.pc = "ttl"])
    BY <1>0, <1>5 DEF WriteHash, At, Request, ShapeOf
  <2>2. Good /\ held' \subseteq Hashes
    BY <1>5, <1>respond, <1>held, <2>1, GotoOK DEF WriteHash, Pcs, TypeOK
  <2> QED
    BY <1>5, <2>2 DEF WriteHash, TypeOK, ghost
<1>6. CASE WriteTtl(p)
  <2>1. proc[p].op = "login" => ShapeOf(owner, [proc[p] EXCEPT !.pc = "sadd"])
    BY <1>0 DEF Request, ShapeOf
  <2>2. Good /\ held' \subseteq Hashes
    BY <1>6, <1>respond, <1>held, <2>1, GotoOK DEF WriteTtl, Pcs, TypeOK
  <2>3. ttl' \subseteq Hashes
    BY <1>0, <1>6 DEF WriteTtl, At, ShapeOf, WithTtl, TypeOK
  <2> QED
    BY <1>6, <2>2, <2>3 DEF WriteTtl, TypeOK, ghost
<1>7. CASE AddToIndex(p)
  <2>1. Good /\ held' \subseteq Hashes
    BY <1>7, <1>respond, <1>held DEF AddToIndex, TypeOK
  <2>2. proc[p].h \in Hashes
    BY <1>0, <1>7 DEF AddToIndex, At, ShapeOf
  <2>3. index' \in [Users -> SUBSET Hashes]
    BY <1>7, <2>2 DEF AddToIndex, Indexed, TypeOK
  <2> QED
    BY <1>7, <2>1, <2>3 DEF AddToIndex, TypeOK, ghost
<1>8. CASE \E t \in Hashes : PurgeRead(p, t)
  <2>1. PICK t \in Hashes : PurgeRead(p, t)
    BY <1>8
  <2> DEFINE r == [proc[p] EXCEPT !.key = t,
                       !.pc = IF hashKey[t] = "full" /\ owner[t] \in Users THEN "srem" ELSE "unlink"]
  <2>2. r \in Request /\ ShapeOf(owner, r)
    BY <1>0 DEF Request, Pcs, ShapeOf
  <2>3. (Become(p, r) \/ Skip(p, t)) /\ owner' = owner /\ proc[p].pc = "purge"
    BY <2>1 DEF PurgeRead, At, issue
  <2>4. Good
    BY <2>2, <2>3, BecomeOK, SkipOK
  <2> QED
    BY <2>1, <2>4 DEF PurgeRead, TypeOK, issue, store, ghost
<1>9. CASE RemoveFromIndex(p)
  <2>1. ShapeOf(owner, [proc[p] EXCEPT !.pc = "unlink"])
    BY <1>0, <1>9 DEF RemoveFromIndex, At, Request, ShapeOf
  <2>2. (Goto(p, "unlink") \/ Skip(p, proc[p].key)) /\ owner' = owner /\ proc[p].pc = "srem"
    BY <1>9 DEF RemoveFromIndex, At, issue
  <2>3. Good
    BY <2>1, <2>2, GotoOK, SkipOK DEF Pcs
  <2>4. index' \in [Users -> SUBSET Hashes]
    BY <1>9 DEF RemoveFromIndex, TypeOK
  <2> QED
    BY <1>9, <2>3, <2>4 DEF RemoveFromIndex, TypeOK, issue, ghost
<1>10. CASE Unlink(p)
  <2> DEFINE t == proc[p].key
             left == proc[p].todo \ {t}
             r == [proc[p] EXCEPT !.pc = AfterPurge(p, left), !.todo = left,
                              !.key = None, !.done = @ \cup {t}]
  <2>1. /\ AfterPurge(p, left) \in {"purge", "insert", "flush", "commit"}
        /\ AfterPurge(p, left) = "insert" => proc[p].op = "login"
    BY DEF AfterPurge
  <2>2. t \in Hashes
    BY <1>0, <1>10 DEF Unlink, At, ShapeOf
  <2>3. r \in Request
    BY <1>0, <2>1, <2>2 DEF Request, Pcs
  <2>4. ShapeOf(owner, r)
    BY <1>0, <2>1 DEF Request, ShapeOf
  <2>5. (Become(p, r) \/ Skip(p, t)) /\ owner' = owner /\ proc[p].pc = "unlink"
    BY <1>10 DEF Unlink, At, issue
  <2>6. Good
    BY <2>3, <2>4, <2>5, BecomeOK, SkipOK
  <2> QED
    BY <1>10, <2>6 DEF Unlink, TypeOK, issue, ghost
<1>11. CASE Flush(p)
  <2>1. ShapeOf(owner, [proc[p] EXCEPT !.pc = "commit"]) /\ ShapeOf(owner, [proc[p] EXCEPT !.pc = "purge"])
    BY <1>0 DEF Request, ShapeOf
  <2>2. (Goto(p, "commit") \/ Goto(p, "purge")) /\ owner' = owner
    BY <1>11 DEF Flush, issue
  <2>3. Good
    BY <2>1, <2>2, GotoOK DEF Pcs
  <2> QED
    BY <1>11, <2>3 DEF Flush, TypeOK, issue, store, ghost
<1>12. CASE Commit(p)
  <2>1. Good
    BY <1>12, <1>idle DEF Commit
  <2>2. proc[p].covers \subseteq Hashes /\ proc[p].del \subseteq Hashes
    BY <1>0 DEF Request
  <2> QED
    BY <1>12, <2>1, <2>2 DEF Commit, RowsAfter, TypeOK
<1>13. CASE CommitFails(p)
  BY <1>13, <1>idle DEF CommitFails, TypeOK, issue, store, ghost
<1>14. CASE ReadKey(p)
  <2>1. ShapeOf(owner, [proc[p] EXCEPT !.pc = "touch"]) /\ ShapeOf(owner, [proc[p] EXCEPT !.pc = "select"])
    BY <1>0, <1>14 DEF ReadKey, At, Request, ShapeOf
  <2>2. (Goto(p, "touch") \/ Goto(p, "select")) /\ owner' = owner
    BY <1>14 DEF ReadKey, issue
  <2>3. Good
    BY <2>1, <2>2, GotoOK DEF Pcs
  <2> QED
    BY <1>14, <2>3 DEF ReadKey, TypeOK, issue, store, ghost
<1>15. CASE Touch(p)
  <2>1. ShapeOf(owner, [proc[p] EXCEPT !.pc = "extend"])
    BY <1>0, <1>15 DEF Touch, At, Request, ShapeOf
  <2>2. (Goto(p, "extend") \/ Become(p, Idle)) /\ owner' = owner
    BY <1>15 DEF Touch, issue
  <2>3. Good
    BY <1>idle, <2>1, <2>2, GotoOK DEF Pcs
  <2>4. hashKey' \in [Hashes -> {"absent", "full", "stub"}]
    BY <1>15 DEF Touch, Touched, TypeOK
  <2> QED
    BY <1>15, <2>3, <2>4 DEF Touch, TypeOK, issue, ghost
<1>16. CASE Extend(p)
  <2>1. ttl' \subseteq Hashes
    BY <1>0, <1>16 DEF Extend, At, ShapeOf, WithTtl, TypeOK
  <2> QED
    BY <1>16, <1>idle, <2>1 DEF Extend, TypeOK, issue, ghost
<1>17. CASE SelectRow(p)
  BY <1>17, <1>idle DEF SelectRow, TypeOK, issue, store, ghost
<1>18. CASE \E h \in Hashes : ReplaceUnknown(p, h)
  <2>1. PICK h \in Hashes : ReplaceUnknown(p, h)
    BY <1>18
  <2>2. Good
    BY <2>1, CreateShape DEF ReplaceUnknown
  <2> QED
    BY <2>1, <2>2 DEF ReplaceUnknown, Create, TypeOK, store, ghost
<1>19. CASE OutOfTokens(p)
  BY <1>19, <1>idle DEF OutOfTokens, TypeOK, issue, store, ghost
<1> QED
  BY <1>1, <1>2, <1>3, <1>4, <1>5, <1>6, <1>7, <1>8, <1>9, <1>10, <1>11, <1>12, <1>13,
     <1>14, <1>15, <1>16, <1>17, <1>18, <1>19 DEF Continue

\* A request that starts is well formed.
LEMMA BeginShape ==
    ASSUME TypeOK, Shape, NEW p \in Procs, Begin(p)
    PROVE  TypeOK' /\ Shape'
<1> USE ConstantsAssumption
<1>1. CASE \E u \in Users, h \in Hashes : BeginLogin(p, u, h)
  <2>1. PICK u \in Users, h \in Hashes : BeginLogin(p, u, h)
    BY <1>1
  <2>2. proc' \in [Procs -> Request] /\ Shape'
    BY <2>1, CreateShape DEF BeginLogin
  <2> QED
    BY <2>1, <2>2 DEF BeginLogin, Create, TypeOK, store, ghost
<1>2. CASE \E h \in Hashes : BeginAnonymous(p, h)
  <2>1. PICK h \in Hashes : BeginAnonymous(p, h)
    BY <1>2
  <2>2. proc' \in [Procs -> Request] /\ Shape'
    BY <2>1, CreateShape DEF BeginAnonymous
  <2> QED
    BY <2>1, <2>2 DEF BeginAnonymous, Create, TypeOK, store, ghost
<1>3. CASE \E h \in Hashes : BeginResolve(p, h)
  <2>1. PICK h \in Hashes : BeginResolve(p, h)
    BY <1>3
  <2> DEFINE r == [Idle EXCEPT !.op = "resolve", !.pc = "get", !.h = h]
  <2>2. r \in Request /\ ShapeOf(owner, r)
    BY DEF Idle, Request, Pcs, AllOps, ShapeOf
  <2>3. proc' \in [Procs -> Request] /\ Shape'
    BY <2>1, <2>2, BecomeOK DEF BeginResolve, issue
  <2> QED
    BY <2>1, <2>3 DEF BeginResolve, TypeOK, issue, store, ghost
<1>4. CASE \E h \in Hashes : BeginLogout(p, h)
  <2>1. PICK h \in Hashes : BeginLogout(p, h)
    BY <1>4
  <2> DEFINE r == [Idle EXCEPT !.op = "logout", !.pc = IF h \in rows THEN "flush" ELSE "purge",
                  !.del = {h} \cap rows, !.todo = {h}, !.covers = {h}]
  <2>2. r \in Request /\ ShapeOf(owner, r)
    BY DEF Idle, Request, Pcs, AllOps, ShapeOf
  <2>3. proc' \in [Procs -> Request] /\ Shape'
    BY <2>1, <2>2, BecomeOK DEF BeginLogout, issue
  <2> QED
    BY <2>1, <2>3 DEF BeginLogout, TypeOK, issue, store, ghost
<1>5. CASE \E h \in Hashes : BeginRevoke(p, h)
  <2>1. PICK h \in Hashes : BeginRevoke(p, h)
    BY <1>5
  <2> DEFINE r == [Idle EXCEPT !.op = "revoke", !.pc = "flush",
                  !.del = {h}, !.todo = {h}, !.covers = {h}]
  <2>2. r \in Request /\ ShapeOf(owner, r)
    BY DEF Idle, Request, Pcs, AllOps, ShapeOf
  <2>3. proc' \in [Procs -> Request] /\ Shape'
    BY <2>1, <2>2, BecomeOK DEF BeginRevoke, issue
  <2> QED
    BY <2>1, <2>3 DEF BeginRevoke, TypeOK, issue, store, ghost
<1>6. CASE \E u \in Users : BeginReset(p, u)
  <2>1. PICK u \in Users : BeginReset(p, u)
    BY <1>6
  <2> DEFINE mine == {h \in rows : owner[h] = u}
             r == [Idle EXCEPT !.op = "reset", !.pc = IF mine = {} THEN "flush" ELSE "purge",
                      !.del = mine, !.todo = mine, !.covers = {h \in Hashes : owner[h] = u}]
  <2>2. mine \subseteq Hashes
    BY DEF TypeOK
  <2>3. r \in Request /\ ShapeOf(owner, r)
    BY <2>2 DEF Idle, Request, Pcs, AllOps, ShapeOf
  <2>4. proc' \in [Procs -> Request] /\ Shape'
    BY <2>1, <2>3, BecomeOK DEF BeginReset, issue
  <2> QED
    BY <2>1, <2>4 DEF BeginReset, TypeOK, issue, store, ghost
<1> QED
  BY <1>1, <1>2, <1>3, <1>4, <1>5, <1>6 DEF Begin

\* The environment leaves the requests alone, or ends them all.
LEMMA EnvironmentShape ==
    ASSUME TypeOK, Shape, Environment
    PROVE  TypeOK' /\ Shape'
<1>1. CASE Outage
  BY <1>1 DEF Outage, TypeOK, Shape, issue, ghost
<1>2. CASE Crash
  <2>1. proc' \in [Procs -> Request] /\ Shape'
    BY <1>2, IdleOK DEF Crash, Shape
  <2> QED
    BY <1>2, <2>1 DEF Crash, TypeOK, issue, store, ghost
<1>3. CASE \E h \in Hashes : Lapse(h)
  BY <1>3 DEF Lapse, TypeOK, Shape, issue, ghost
<1>4. CASE \E h \in Hashes : Expire(h)
  BY <1>4 DEF Expire, TypeOK, Shape, issue, ghost
<1>5. CASE CleanupExpiredAnonymous
  BY <1>5 DEF CleanupExpiredAnonymous, TypeOK, Shape, issue, ghost
<1>6. CASE \E u \in Users : DeleteUser(u)
  BY <1>6 DEF DeleteUser, TypeOK, Shape, issue, ghost
<1> QED
  BY <1>1, <1>2, <1>3, <1>4, <1>5, <1>6 DEF Environment

\* TypeOK and Shape hold together at the start and are kept by every step.
LEMMA ShapeInductive ==
    /\ Init => TypeOK /\ Shape
    /\ TypeOK /\ Shape /\ [Next]_vars => TypeOK' /\ Shape'
<1>1. ASSUME Init PROVE TypeOK /\ Shape
  BY <1>1, IdleOK, ConstantsAssumption DEF Init, TypeOK, Shape
<1>2. ASSUME TypeOK, Shape, [Next]_vars PROVE TypeOK' /\ Shape'
  <2>1. CASE \E p \in Procs : Begin(p)
    BY <1>2, <2>1, BeginShape
  <2>2. CASE \E p \in Procs : Continue(p)
    BY <1>2, <2>2, ContinueShape
  <2>3. CASE Environment
    BY <1>2, <2>3, EnvironmentShape
  <2>4. CASE UNCHANGED vars
    BY <1>2, <2>4 DEF TypeOK, Shape, vars, issue, store, ghost
  <2> QED
    BY <1>2, <2>1, <2>2, <2>3, <2>4 DEF Next
<1> QED
  BY <1>1, <1>2

\* Every variable of the session store keeps its type: no request leaves the
\* places its code can be in, and no index or key refers to an unknown token.
THEOREM TypeCorrect == Spec => []TypeOK
<1>1. Spec => [](TypeOK /\ Shape)
  BY ShapeInductive, PTL DEF Spec
<1> QED
  BY <1>1, PTL

-----------------------------------------------------------------------------
(* A purged token stays purged *)

\* What a step may do to tokens: it leaves less of some of them, or issues one.
OneLife ==
    \/ /\ owner' = owner
       /\ \A h \in Hashes : Live(h)' => Live(h)
    \/ \E h \in Hashes :
          /\ ~Issued(h) /\ Issued(h)' /\ Live(h)'
          /\ \A g \in Hashes \ {h} : owner'[g] = owner[g] /\ (Live(g)' <=> Live(g))

\* No request takes on a token, a row to delete or a deleted key.
Smaller ==
    \A q \in Procs :
        /\ \A h \in Hashes : Creates(q, h)' => Creates(q, h)
        /\ proc'[q].del \subseteq proc[q].del
        /\ proc'[q].done \subseteq proc[q].done

\* A step that only takes away keeps the invariant.
LEMMA SmallerSafe ==
    ASSUME TypeOK, Safe, Smaller, owner' = owner, purged' = purged, rows' \subseteq rows,
           \A h \in Hashes : hashKey'[h] = "full" => hashKey[h] = "full"
    PROVE  Safe' /\ OneLife
<1>1. StoredIssued'
  BY DEF Safe, StoredIssued, Issued
<1>2. SoleCreator'
  BY DEF Safe, SoleCreator, Smaller, Issued
<1>3. \A h \in Hashes : InFlight(h)' => InFlight(h)
  BY DEF Smaller, InFlight
<1>4. Selected'
  <2> SUFFICES ASSUME NEW q \in Procs, NEW h \in proc'[q].del
               PROVE  /\ owner'[h] # None
                      /\ ~InFlight(h)'
                      /\ h \in proc'[q].done => hashKey'[h] # "full"
    BY DEF Selected, Issued
  <2>1. h \in proc[q].del /\ h \in Hashes
    BY DEF Smaller, TypeOK, Request
  <2> QED
    BY <1>3, <2>1 DEF Safe, Selected, Smaller, Issued
<1>5. PurgedStaysPurged'
  <2>1. \A h \in purged : h \in Hashes
    BY DEF TypeOK
  <2> QED
    BY <1>3, <2>1 DEF Safe, PurgedStaysPurged
<1>6. OneLife
  BY <1>3 DEF OneLife, Live
<1> QED
  BY <1>1, <1>2, <1>4, <1>5, <1>6 DEF Safe

\* One request that goes on with less, or the same.
LEMMA BecomeSmaller ==
    ASSUME TypeOK, NEW p \in Procs, NEW r, Become(p, r),
           r.op \in {"login", "anonymous"} => r.op = proc[p].op /\ r.h = proc[p].h,
           r.del \subseteq proc[p].del, r.done \subseteq proc[p].done
    PROVE  Smaller
BY DEF TypeOK, Become, Smaller, Creates

\* Moving on, ending, and delete_session without an answer are such steps.
LEMMA GotoSmaller ==
    ASSUME TypeOK, NEW p \in Procs, NEW label,
           Goto(p, label) \/ Become(p, Idle)
    PROVE  Smaller
<1>1. CASE Goto(p, label)
  <2>1. proc[p] \in Request
    BY DEF TypeOK
  <2> QED
    BY <1>1, <2>1, BecomeSmaller DEF Goto, Request
<1>2. CASE Become(p, Idle)
  BY <1>2, BecomeSmaller DEF Idle
<1> QED
  BY <1>1, <1>2

LEMMA SkipSmaller ==
    ASSUME TypeOK, NEW p \in Procs, NEW t, Skip(p, t)
    PROVE  Smaller
<1>1. proc[p] \in Request
  BY DEF TypeOK
<1> QED
  BY <1>1, BecomeSmaller DEF Skip, Request

\* A request that becomes r, which creates nothing and selects committed rows.
LEMMA SelectSafe ==
    ASSUME TypeOK, Safe, NEW p \in Procs, NEW r, Become(p, r),
           r.op \notin {"login", "anonymous"}, r.del \subseteq rows, r.done = {},
           UNCHANGED <<issue, store, ghost>>
    PROVE  Safe' /\ OneLife
<1>1. \A q \in Procs, h \in Hashes : Creates(q, h)' => Creates(q, h)
  BY DEF TypeOK, Become, Creates
<1>2. StoredIssued' /\ SoleCreator'
  BY <1>1 DEF Safe, StoredIssued, SoleCreator, Issued, issue, store, ghost
<1>3. \A h \in Hashes : InFlight(h)' => InFlight(h)
  BY <1>1 DEF InFlight
<1>4. \A h \in rows : Issued(h) /\ ~InFlight(h)
  BY DEF Safe, StoredIssued, SoleCreator, InFlight, TypeOK
<1>5. Selected'
  <2> SUFFICES ASSUME NEW q \in Procs, NEW h \in proc'[q].del
               PROVE  /\ owner'[h] # None
                      /\ ~InFlight(h)'
                      /\ h \in proc'[q].done => hashKey'[h] # "full"
    BY DEF Selected, Issued
  <2>1. CASE q = p
    <3>1. h \in rows /\ h \in Hashes /\ proc'[q].done = {}
      BY <2>1 DEF TypeOK, Become
    <3> QED
      BY <1>3, <1>4, <3>1 DEF Issued, issue
  <2>2. CASE q # p
    <3>1. proc'[q] = proc[q] /\ h \in Hashes
      BY <2>2 DEF TypeOK, Become, Request
    <3> QED
      BY <1>3, <3>1 DEF Safe, Selected, Issued, issue, store
  <2> QED
    BY <2>1, <2>2
<1>6. PurgedStaysPurged'
  BY <1>3 DEF Safe, PurgedStaysPurged, TypeOK, store, ghost
<1>7. OneLife
  BY <1>3 DEF OneLife, Live, issue, store
<1> QED
  BY <1>2, <1>5, <1>6, <1>7 DEF Safe

\* session_service.create takes a token nobody has heard of.
LEMMA CreateSafe ==
    ASSUME TypeOK, Safe, NEW p \in Procs, NEW h \in Hashes, NEW op, NEW u, NEW label, u # None,
           proc[p].op \notin {"login", "anonymous"}, op \in {"login", "anonymous"},
           Create(p, op, u, h, label), UNCHANGED <<store, ghost>>
    PROVE  Safe' /\ OneLife
<1>1. /\ ~Issued(h) /\ owner' = [owner EXCEPT ![h] = u]
      /\ proc' = [proc EXCEPT ![p] = [Idle EXCEPT !.op = op, !.pc = label, !.h = h]]
  BY DEF Create, Become
<1>2. \A g \in Hashes : Issued(g) => Issued(g)' /\ g # h
  BY <1>1 DEF Issued, TypeOK
<1>3. \A q \in Procs : \A g \in Hashes : Creates(q, g)' => Creates(q, g) \/ (q = p /\ g = h)
  BY <1>1 DEF Creates, TypeOK, Idle
<1>4. \A g \in Hashes : Issued(g) => (InFlight(g)' => InFlight(g))
  BY <1>2, <1>3 DEF InFlight
<1>5. StoredIssued'
  BY <1>2 DEF Safe, StoredIssued, store, ghost
<1>6. SoleCreator'
  <2> SUFFICES ASSUME NEW q \in Procs, NEW g \in Hashes, Creates(q, g)'
               PROVE  /\ Issued(g)'
                      /\ g \notin rows'
                      /\ \A q2 \in Procs : Creates(q2, g)' => q2 = q
    BY DEF SoleCreator
  <2>1. CASE g = h
    <3>1. Issued(h)' /\ h \notin rows
      BY <1>1 DEF Issued, TypeOK, Safe, StoredIssued
    <3>2. \A q2 \in Procs : ~Creates(q2, h)
      BY <1>1 DEF Safe, SoleCreator
    <3> QED
      BY <1>3, <2>1, <3>1, <3>2 DEF store
  <2>2. CASE g # h
    BY <1>2, <1>3, <2>2 DEF Safe, SoleCreator, store
  <2> QED
    BY <2>1, <2>2
<1>7. Selected'
  <2> SUFFICES ASSUME NEW q \in Procs, NEW g \in proc'[q].del
               PROVE  /\ Issued(g)'
                      /\ ~InFlight(g)'
                      /\ g \in proc'[q].done => hashKey'[g] # "full"
    BY DEF Selected
  <2>1. q # p
    BY <1>1 DEF TypeOK, Idle
  <2>2. proc'[q] = proc[q] /\ g \in Hashes
    BY <1>1, <2>1 DEF TypeOK, Request
  <2> QED
    BY <1>2, <1>4, <2>2 DEF Safe, Selected, store
<1>8. PurgedStaysPurged'
  <2>1. \A g \in purged : g \in Hashes /\ Issued(g)
    BY DEF TypeOK, Safe, StoredIssued
  <2> QED
    BY <1>4, <2>1 DEF Safe, PurgedStaysPurged, store, ghost
<1>9. OneLife
  <2>1. ~Issued(h) /\ Issued(h)'
    BY <1>1 DEF Issued, TypeOK
  <2>2. Live(h)'
    <3>1. Creates(p, h)'
      BY <1>1 DEF Creates, TypeOK, Idle
    <3> QED
      BY <3>1 DEF Live, InFlight
  <2>3. ASSUME NEW g \in Hashes \ {h}
        PROVE  owner'[g] = owner[g] /\ (Live(g)' <=> Live(g))
    <3>1. \A q \in Procs : Creates(q, g)' <=> Creates(q, g)
      BY <1>1 DEF Creates, TypeOK, Idle
    <3> QED
      BY <1>1, <3>1 DEF Live, InFlight, TypeOK, store
  <2> QED
    BY <2>1, <2>2, <2>3 DEF OneLife
<1> QED
  BY <1>5, <1>6, <1>7, <1>8, <1>9 DEF Safe

\* The three steps that give something: a request writes the key of the token it
\* creates, deletes a key, commits.
LEMMA WriteHashSafe ==
    ASSUME IInv, NEW p \in Procs, WriteHash(p)
    PROVE  Safe' /\ OneLife
<1> USE DEF IInv
<1>1. proc[p] \in Request /\ ShapeOf(owner, proc[p])
  BY DEF TypeOK, Shape
<1>2. Creates(p, proc[p].h) /\ proc[p].h \in Hashes
  BY <1>1 DEF WriteHash, At, ShapeOf, Creates
<1>3. Smaller
  BY GotoSmaller DEF WriteHash, Respond
<1>4. CASE redisUp
  <2> DEFINE h == proc[p].h
  <2>1. /\ hashKey' = [hashKey EXCEPT ![h] = "full"]
        /\ owner' = owner /\ rows' = rows /\ purged' = purged
    BY <1>4 DEF WriteHash, ghost
  <2>2. Issued(h) /\ InFlight(h)
    BY <1>2 DEF Safe, SoleCreator, InFlight
  <2>3. StoredIssued' /\ SoleCreator'
    BY <1>2, <1>3, <2>1, <2>2 DEF Safe, StoredIssued, SoleCreator, Smaller, Issued, TypeOK
  <2>4. \A g \in Hashes : InFlight(g)' => InFlight(g)
    BY <1>3 DEF Smaller, InFlight
  <2>5. Selected'
    <3> SUFFICES ASSUME NEW q \in Procs, NEW g \in proc'[q].del
                 PROVE  /\ owner'[g] # None
                        /\ ~InFlight(g)'
                        /\ g \in proc'[q].done => hashKey'[g] # "full"
      BY DEF Selected, Issued
    <3>1. g \in proc[q].del /\ g \in Hashes
      BY <1>3 DEF Smaller, TypeOK, Request
    <3>2. Issued(g) /\ ~InFlight(g) /\ (g \in proc[q].done => hashKey[g] # "full")
      BY <3>1 DEF Safe, Selected
    <3> QED
      BY <1>3, <2>1, <2>2, <2>4, <3>1, <3>2 DEF Smaller, Issued, TypeOK
  <2>6. PurgedStaysPurged'
    BY <2>1, <2>2, <2>4 DEF Safe, PurgedStaysPurged, TypeOK
  <2>7. OneLife
    BY <2>1, <2>2, <2>4 DEF OneLife, Live, TypeOK
  <2> QED
    BY <2>3, <2>5, <2>6, <2>7 DEF Safe
<1>5. CASE ~redisUp
  BY <1>3, <1>5, SmallerSafe DEF WriteHash, ghost
<1> QED
  BY <1>4, <1>5

LEMMA UnlinkSafe ==
    ASSUME IInv, NEW p \in Procs, Unlink(p)
    PROVE  Safe' /\ OneLife
<1> USE DEF IInv
<1> DEFINE t == proc[p].key
<1>1. CASE redisUp
  <2>1. /\ hashKey' = [hashKey EXCEPT ![t] = "absent"]
        /\ owner' = owner /\ rows' = rows /\ purged' = purged
    BY <1>1 DEF Unlink, issue, ghost
  <2>2. /\ proc'[p].op = proc[p].op /\ proc'[p].h = proc[p].h /\ proc'[p].del = proc[p].del
        /\ proc'[p].done = proc[p].done \cup {t}
        /\ \A q \in Procs \ {p} : proc'[q] = proc[q]
    <3> DEFINE left == proc[p].todo \ {t}
               r == [proc[p] EXCEPT !.pc = AfterPurge(p, left), !.todo = left,
                              !.key = None, !.done = @ \cup {t}]
    <3>1. proc[p] \in Request
      BY DEF TypeOK
    <3>2. proc' = [proc EXCEPT ![p] = r]
      BY <1>1 DEF Unlink, Become
    <3>3. r.op = proc[p].op /\ r.h = proc[p].h /\ r.del = proc[p].del /\ r.done = proc[p].done \cup {t}
      BY <3>1 DEF Request
    <3> HIDE DEF r
    <3> QED
      BY <3>2, <3>3 DEF TypeOK
  <2>3. \A q \in Procs, h \in Hashes : Creates(q, h)' => Creates(q, h)
    BY <2>2 DEF Creates
  <2>4. \A h \in Hashes : InFlight(h)' => InFlight(h)
    BY <2>3 DEF InFlight
  <2>5. StoredIssued' /\ SoleCreator'
    BY <2>1, <2>3 DEF Safe, StoredIssued, SoleCreator, Issued, TypeOK
  <2>6. Selected'
    <3> SUFFICES ASSUME NEW q \in Procs, NEW h \in proc'[q].del
                 PROVE  /\ owner'[h] # None
                        /\ ~InFlight(h)'
                        /\ h \in proc'[q].done => hashKey'[h] # "full"
      BY DEF Selected, Issued
    <3>1. h \in proc[q].del
      BY <2>2
    <3>2. proc[q] \in Request
      BY DEF TypeOK
    <3>3. h \in Hashes
      BY <3>1, <3>2 DEF Request
    <3>4. Issued(h) /\ ~InFlight(h) /\ (h \in proc[q].done => hashKey[h] # "full")
      BY <3>1 DEF Safe, Selected
    <3>5. h \in proc'[q].done => hashKey'[h] # "full"
      BY <2>1, <2>2, <3>3, <3>4 DEF TypeOK
    <3> QED
      BY <2>1, <2>4, <3>3, <3>4, <3>5 DEF Issued
  <2>7. PurgedStaysPurged'
    BY <2>1, <2>4 DEF Safe, PurgedStaysPurged, TypeOK
  <2>8. OneLife
    BY <2>1, <2>4 DEF OneLife, Live, TypeOK
  <2> QED
    BY <2>5, <2>6, <2>7, <2>8 DEF Safe
<1>2. CASE ~redisUp
  <2>1. Smaller
    BY <1>2, SkipSmaller DEF Unlink
  <2> QED
    BY <1>2, <2>1, SmallerSafe DEF Unlink, issue, ghost
<1> QED
  BY <1>1, <1>2

LEMMA CommitSafe ==
    ASSUME IInv, NEW p \in Procs, Commit(p)
    PROVE  Safe' /\ OneLife
<1> USE DEF IInv
<1> DEFINE made == {h \in Hashes : Creates(p, h)}
           r == proc[p]
<1>1. /\ owner' = owner /\ hashKey' = hashKey
      /\ rows' = (rows \ r.del) \cup made
      /\ purged' = purged \cup (r.del \cap r.done)
  BY DEF Commit, RowsAfter
<1>2. Smaller
  BY GotoSmaller DEF Commit
<1>3. \A h \in Hashes : ~Creates(p, h)'
  BY DEF Commit, Become, Creates, Idle, TypeOK
<1>4. \A h \in Hashes : InFlight(h)' => InFlight(h) /\ h \notin made
  BY <1>2, <1>3 DEF Smaller, InFlight, Safe, SoleCreator
<1>5. r.del \subseteq Hashes
  BY DEF TypeOK, Request
<1>6. \A h \in r.del : Issued(h) /\ ~InFlight(h) /\ h \notin made /\ (h \in r.done => hashKey[h] # "full")
  BY <1>5 DEF Safe, Selected, InFlight
<1>7. \A h \in made : Issued(h)
  BY DEF Safe, SoleCreator
<1>8. StoredIssued'
  BY <1>1, <1>6, <1>7 DEF Safe, StoredIssued, Issued
<1>9. SoleCreator'
  BY <1>1, <1>2, <1>4 DEF Safe, SoleCreator, Smaller, Issued, InFlight
<1>10. Selected'
  <2> SUFFICES ASSUME NEW q \in Procs, NEW h \in proc'[q].del
               PROVE  /\ owner'[h] # None
                      /\ ~InFlight(h)'
                      /\ h \in proc'[q].done => hashKey'[h] # "full"
    BY DEF Selected, Issued
  <2>1. h \in proc[q].del /\ h \in Hashes
    BY <1>2 DEF Smaller, TypeOK, Request
  <2> QED
    BY <1>1, <1>2, <1>4, <2>1 DEF Safe, Selected, Smaller, Issued
<1>11. PurgedStaysPurged'
  <2> SUFFICES ASSUME NEW h \in purged'
               PROVE  h \notin rows' /\ hashKey'[h] # "full" /\ ~InFlight(h)'
    BY DEF PurgedStaysPurged
  <2>1. CASE h \in purged
    <3>1. h \in Hashes /\ h \notin rows /\ hashKey[h] # "full" /\ ~InFlight(h)
      BY <2>1 DEF Safe, PurgedStaysPurged, TypeOK
    <3>2. h \notin made
      BY <3>1 DEF InFlight
    <3> QED
      BY <1>1, <1>4, <3>1, <3>2
  <2>2. CASE h \in r.del \cap r.done
    BY <1>1, <1>4, <1>5, <1>6, <2>2
  <2> QED
    BY <1>1, <2>1, <2>2
<1>12. OneLife
  BY <1>1, <1>4 DEF OneLife, Live, InFlight
<1> QED
  BY <1>8, <1>9, <1>10, <1>11, <1>12 DEF Safe

\* Every other step of a request only takes away.
LEMMA ContinueSafe ==
    ASSUME IInv, NEW p \in Procs, Continue(p)
    PROVE  Safe' /\ OneLife
<1> USE DEF IInv
<1>0. proc[p] \in Request /\ ShapeOf(owner, proc[p])
  BY DEF TypeOK, Shape
<1> DEFINE Quiet == /\ owner' = owner /\ purged' = purged /\ rows' = rows
                    /\ \A h \in Hashes : hashKey'[h] = "full" => hashKey[h] = "full"
<1>quiet. Smaller /\ Quiet => Safe' /\ OneLife
  BY SmallerSafe
<1>record. ASSUME NEW r, Become(p, r), r.op = proc[p].op, r.h = proc[p].h,
                  r.del = proc[p].del, r.done = proc[p].done
           PROVE  Smaller
  BY <1>record, BecomeSmaller
<1>1. CASE Members(p)
  <2> DEFINE members == index[owner[proc[p].h]]
             r == [proc[p] EXCEPT !.pc = "ages", !.todo = members, !.unread = members]
  <2>1. r.op = proc[p].op /\ r.h = proc[p].h /\ r.del = proc[p].del /\ r.done = proc[p].done
    BY <1>0 DEF Request
  <2>2. Become(p, r) \/ Goto(p, "insert")
    BY <1>1 DEF Members
  <2>3. Smaller
    BY <1>record, <2>1, <2>2, GotoSmaller
  <2> QED
    BY <1>1, <1>quiet, <2>3 DEF Members, issue, store, ghost
<1>2. CASE ReadAge(p)
  <2>1. PICK t \in proc[p].unread :
          \/ Become(p, [proc[p] EXCEPT !.unread = @ \ {t},
                          !.blank = IF hashKey[t] = "full" THEN @ ELSE @ \cup {t}])
          \/ Become(p, [proc[p] EXCEPT !.pc = "insert", !.todo = {}, !.unread = {}, !.blank = {}])
    BY <1>2 DEF ReadAge
  <2> DEFINE r1 == [proc[p] EXCEPT !.unread = @ \ {t},
                          !.blank = IF hashKey[t] = "full" THEN @ ELSE @ \cup {t}]
             r2 == [proc[p] EXCEPT !.pc = "insert", !.todo = {}, !.unread = {}, !.blank = {}]
  <2>2. r1.op = proc[p].op /\ r1.h = proc[p].h /\ r1.del = proc[p].del /\ r1.done = proc[p].done
    BY <1>0 DEF Request
  <2>3. r2.op = proc[p].op /\ r2.h = proc[p].h /\ r2.del = proc[p].del /\ r2.done = proc[p].done
    BY <1>0 DEF Request
  <2>4. Smaller
    BY <1>record, <2>1, <2>2, <2>3
  <2> QED
    BY <1>2, <1>quiet, <2>4 DEF ReadAge, issue, store, ghost
<1>3. CASE ChooseEvicted(p)
  <2>1. PICK evicted : Become(p, [proc[p] EXCEPT !.pc = "purge", !.todo = evicted])
    BY <1>3 DEF ChooseEvicted
  <2> DEFINE r == [proc[p] EXCEPT !.pc = "purge", !.todo = evicted]
  <2>2. r.op = proc[p].op /\ r.h = proc[p].h /\ r.del = proc[p].del /\ r.done = proc[p].done
    BY <1>0 DEF Request
  <2>3. Smaller
    BY <1>record, <2>1, <2>2
  <2> QED
    BY <1>3, <1>quiet, <2>3 DEF ChooseEvicted, issue, store, ghost
<1>4. CASE Insert(p)
  <2> DEFINE r == [proc[p] EXCEPT !.pc = "hset", !.blank = {}, !.done = {}]
  <2>1. r.op = proc[p].op /\ r.h = proc[p].h /\ r.del = proc[p].del /\ r.done = {}
    BY <1>0 DEF Request
  <2>2. Become(p, r) \/ Become(p, Idle)
    BY <1>4 DEF Insert
  <2>3. ASSUME Become(p, r) PROVE Smaller
    <3> HIDE DEF r
    <3> QED
      BY <2>1, <2>3, BecomeSmaller
  <2>4. Smaller
    BY <2>2, <2>3, GotoSmaller
  <2> QED
    BY <1>4, <1>quiet, <2>4 DEF Insert, issue, store, ghost
<1>5. CASE WriteHash(p)
  BY <1>5, WriteHashSafe
<1>6. CASE WriteTtl(p)
  <2>1. Smaller
    BY <1>6, GotoSmaller DEF WriteTtl, Respond
  <2> QED
    BY <1>6, <1>quiet, <2>1 DEF WriteTtl, ghost
<1>7. CASE AddToIndex(p)
  <2>1. Smaller
    BY <1>7, GotoSmaller DEF AddToIndex, Respond
  <2> QED
    BY <1>7, <1>quiet, <2>1 DEF AddToIndex, ghost
<1>8. CASE \E t \in Hashes : PurgeRead(p, t)
  <2>1. PICK t \in Hashes : PurgeRead(p, t)
    BY <1>8
  <2> DEFINE r == [proc[p] EXCEPT !.key = t,
                       !.pc = IF hashKey[t] = "full" /\ owner[t] \in Users THEN "srem" ELSE "unlink"]
  <2>2. r.op = proc[p].op /\ r.h = proc[p].h /\ r.del = proc[p].del /\ r.done = proc[p].done
    BY <1>0 DEF Request
  <2>3. Become(p, r) \/ Skip(p, t)
    BY <2>1 DEF PurgeRead
  <2>4. Smaller
    BY <1>record, <2>2, <2>3, SkipSmaller
  <2> QED
    BY <1>quiet, <2>1, <2>4 DEF PurgeRead, issue, store, ghost
<1>9. CASE RemoveFromIndex(p)
  <2>1. Smaller
    BY <1>9, GotoSmaller, SkipSmaller DEF RemoveFromIndex
  <2> QED
    BY <1>9, <1>quiet, <2>1 DEF RemoveFromIndex, issue, ghost
<1>10. CASE Unlink(p)
  BY <1>10, UnlinkSafe
<1>11. CASE Flush(p)
  <2>1. Smaller
    BY <1>11, GotoSmaller DEF Flush
  <2> QED
    BY <1>11, <1>quiet, <2>1 DEF Flush, issue, store, ghost
<1>12. CASE Commit(p)
  BY <1>12, CommitSafe
<1>13. CASE CommitFails(p)
  <2>1. Smaller
    BY <1>13, GotoSmaller DEF CommitFails
  <2> QED
    BY <1>13, <1>quiet, <2>1 DEF CommitFails, issue, store, ghost
<1>14. CASE ReadKey(p)
  <2>1. Smaller
    BY <1>14, GotoSmaller DEF ReadKey
  <2> QED
    BY <1>14, <1>quiet, <2>1 DEF ReadKey, issue, store, ghost
<1>15. CASE Touch(p)
  <2>1. Smaller
    BY <1>15, GotoSmaller DEF Touch
  <2>2. \A h \in Hashes : hashKey'[h] = "full" => hashKey[h] = "full"
    BY <1>15 DEF Touch, Touched, TypeOK
  <2> QED
    BY <1>15, <1>quiet, <2>1, <2>2 DEF Touch, issue, ghost
<1>16. CASE Extend(p) \/ SelectRow(p) \/ OutOfTokens(p)
  <2>1. Smaller
    BY <1>16, GotoSmaller DEF Extend, SelectRow, OutOfTokens
  <2> QED
    BY <1>16, <1>quiet, <2>1 DEF Extend, SelectRow, OutOfTokens, issue, store, ghost
<1>17. CASE \E h \in Hashes : ReplaceUnknown(p, h)
  <2>1. proc[p].op = "resolve"
    BY <1>0, <1>17 DEF ReplaceUnknown, At, ShapeOf
  <2> QED
    BY <1>17, <2>1, CreateSafe, ConstantsAssumption DEF ReplaceUnknown
<1> QED
  BY <1>1, <1>2, <1>3, <1>4, <1>5, <1>6, <1>7, <1>8, <1>9, <1>10, <1>11, <1>12, <1>13,
     <1>14, <1>15, <1>16, <1>17 DEF Continue

\* A request that starts creates a new token, or selects committed rows.
LEMMA BeginSafe ==
    ASSUME IInv, NEW p \in Procs, Begin(p)
    PROVE  Safe' /\ OneLife
<1> USE DEF IInv
<1>0. proc[p].pc = "idle" => proc[p].op = "idle"
  BY DEF Shape, ShapeOf
<1>1. CASE \E u \in Users, h \in Hashes : BeginLogin(p, u, h)
  BY <1>0, <1>1, CreateSafe, ConstantsAssumption DEF BeginLogin, At
<1>2. CASE \E h \in Hashes : BeginAnonymous(p, h)
  BY <1>0, <1>2, CreateSafe, ConstantsAssumption DEF BeginAnonymous, At
<1>3. CASE \E h \in Hashes : BeginResolve(p, h)
  BY <1>3, SelectSafe DEF BeginResolve, Idle
<1>4. CASE \E h \in Hashes : BeginLogout(p, h)
  BY <1>4, SelectSafe DEF BeginLogout, Idle
<1>5. CASE \E h \in Hashes : BeginRevoke(p, h)
  BY <1>5, SelectSafe DEF BeginRevoke, Idle
<1>6. CASE \E u \in Users : BeginReset(p, u)
  BY <1>6, SelectSafe DEF BeginReset, Idle
<1> QED
  BY <1>1, <1>2, <1>3, <1>4, <1>5, <1>6 DEF Begin

\* The environment only takes away.
LEMMA EnvironmentSafe ==
    ASSUME IInv, Environment
    PROVE  Safe' /\ OneLife
<1> USE DEF IInv
<1>1. CASE Crash
  <2>1. Smaller
    BY <1>1 DEF Crash, Smaller, Creates, Idle
  <2> QED
    BY <1>1, <2>1, SmallerSafe DEF Crash, issue, store, ghost
<1>2. CASE proc' = proc
  <2>1. Smaller
    BY <1>2 DEF Smaller, Creates
  <2>2. CASE Outage
    BY <2>1, <2>2, SmallerSafe DEF Outage, issue, ghost
  <2>3. CASE \E h \in Hashes : Lapse(h)
    BY <2>1, <2>3, SmallerSafe DEF Lapse, TypeOK, issue, ghost
  <2>4. CASE \E h \in Hashes : Expire(h)
    BY <2>1, <2>4, SmallerSafe DEF Expire, issue, ghost
  <2>5. CASE CleanupExpiredAnonymous
    BY <2>1, <2>5, SmallerSafe DEF CleanupExpiredAnonymous, issue, ghost
  <2>6. CASE \E u \in Users : DeleteUser(u)
    BY <2>1, <2>6, SmallerSafe DEF DeleteUser, issue, ghost
  <2>7. CASE Crash
    BY <1>1, <2>7
  <2> QED
    BY <2>2, <2>3, <2>4, <2>5, <2>6, <2>7 DEF Environment
<1> QED
  BY <1>1, <1>2 DEF Environment, Outage, Lapse, Expire, CleanupExpiredAnonymous, DeleteUser

\* The invariant holds at the start and is kept by every step.
LEMMA Inductive ==
    /\ Init => IInv
    /\ IInv /\ [Next]_vars => IInv' /\ OneLife
<1>1. ASSUME Init PROVE IInv
  <2>1. Safe
    BY <1>1 DEF Init, Safe, StoredIssued, SoleCreator, Selected, PurgedStaysPurged, Creates, Idle
  <2> QED
    BY <1>1, <2>1, ShapeInductive DEF IInv
<1>2. ASSUME IInv, [Next]_vars PROVE IInv' /\ OneLife
  <2>1. TypeOK' /\ Shape'
    BY <1>2, ShapeInductive DEF IInv
  <2>2. Safe' /\ OneLife
    <3>1. CASE \E p \in Procs : Begin(p)
      BY <1>2, <3>1, BeginSafe
    <3>2. CASE \E p \in Procs : Continue(p)
      BY <1>2, <3>2, ContinueSafe
    <3>3. CASE Environment
      BY <1>2, <3>3, EnvironmentSafe
    <3>4. CASE UNCHANGED vars
      <4>1. Smaller
        BY <3>4 DEF Smaller, Creates, vars
      <4> QED
        BY <1>2, <3>4, <4>1, SmallerSafe DEF IInv, vars, issue, store, ghost
    <3> QED
      BY <1>2, <3>1, <3>2, <3>3, <3>4 DEF Next
  <2> QED
    BY <2>1, <2>2 DEF IInv
<1> QED
  BY <1>1, <1>2

\* A token whose row and key a committed logout, revocation or password reset
\* removed never names a user again, whatever runs beside it and whatever fails.
THEOREM PurgeIsFinal == Spec => []PurgedStaysPurged
<1>1. IInv => PurgedStaysPurged
  BY DEF IInv, Safe
<1> QED
  BY <1>1, Inductive, PTL DEF Spec

-----------------------------------------------------------------------------
(* Refinement *)

\* What OneLife says of the abstract status: stutter, End or Issue.
LEMMA OneLifeRefines ==
    ASSUME OneLife
    PROVE  [Lifecycle!Next]_TokenStatus
<1> USE DEF TokenStatus
<1>1. CASE owner' = owner /\ \A h \in Hashes : Live(h)' => Live(h)
  <2> DEFINE ending == {h \in Hashes : Issued(h) /\ Live(h) /\ ~Live(h)'}
  <2>1. \A h \in Hashes : Issued(h)' <=> Issued(h)
    BY <1>1 DEF Issued
  <2>2. TokenStatus' = [h \in Hashes |-> IF h \in ending THEN "ended" ELSE TokenStatus[h]]
    BY <1>1, <2>1
  <2>3. \A h \in ending : TokenStatus[h] = "active"
    OBVIOUS
  <2>4. CASE ending = {}
    BY <2>2, <2>4
  <2>5. CASE ending # {}
    <3>1. Lifecycle!End(ending)
      BY <2>2, <2>3, <2>5 DEF Lifecycle!End
    <3> QED
      BY <3>1 DEF Lifecycle!Next
  <2> QED
    BY <2>4, <2>5
<1>2. ASSUME NEW h \in Hashes,
             ~Issued(h), Issued(h)', Live(h)',
             \A g \in Hashes \ {h} : owner'[g] = owner[g] /\ (Live(g)' <=> Live(g))
      PROVE  Lifecycle!Next
  <2>1. \A g \in Hashes \ {h} : Issued(g)' <=> Issued(g)
    BY <1>2 DEF Issued
  <2>2. TokenStatus' = [TokenStatus EXCEPT ![h] = "active"]
    BY <1>2, <2>1
  <2>3. Lifecycle!Issue(h)
    BY <1>2, <2>2 DEF Lifecycle!Issue
  <2> QED
    BY <2>3 DEF Lifecycle!Next
<1> QED
  BY <1>1, <1>2 DEF OneLife

\* The two stores together give every token one life: whatever fails and in
\* whatever order requests interleave, no token that neither a row, nor a key,
\* nor its own login keeps alive ever comes back.
THEOREM StoreRefinesLifecycle == Spec => ImplementsLifecycle
<1>1. Init => Lifecycle!Init
  BY DEF Init, Lifecycle!Init, TokenStatus, Issued
<1>2. IInv /\ [Next]_vars => [Lifecycle!Next]_TokenStatus
  BY Inductive, OneLifeRefines
<1> QED
  BY <1>1, <1>2, Inductive, PTL DEF Spec, ImplementsLifecycle, Lifecycle!Spec

=============================================================================
