------------------------- MODULE SessionStoreCalmProofs -------------------------
(***************************************************************************)
(* Proofs of what SessionStore promises only under conditions: while Redis *)
(* answers, while the backend stays up, or while nobody ends a session on  *)
(* purpose.  The theorems say which events are excluded; keys that lapse,  *)
(* rows that expire or are cleaned up and users that are deleted are not.  *)
(*                                                                         *)
(* The first three: every key has a TTL or is about to get one, the index  *)
(* holds every session the limit should count, and, if no commit fails     *)
(* either, a user's key has its row.  Each is broken in the middle of a    *)
(* request and names the place where: only the request that made the gap   *)
(* leaves that place, and the command it leaves it with closes the gap.    *)
(*                                                                         *)
(* The limit.  Put the logins of a user that evict in the order in which   *)
(* they read the index.  One of them and all before it add at most one     *)
(* session each, and what the index lists beyond what it still has to      *)
(* evict is at most the limit and those before it; so, once it is done,    *)
(* is all that is listed.  The order starts again at the last that has     *)
(* done.                                                                   *)
(*                                                                         *)
(* Who is evicted.  What a login has read is in the index, or went because *)
(* a login chose it with MaxSessions younger ones there; what it chooses   *)
(* is older than what it keeps, so it has as many younger ones itself.     *)
(***************************************************************************)
EXTENDS SessionStoreProofs, FiniteSetTheorems

NoOutage == Env \cap {"outage", "crash"} = {}

NoFailure == Env \cap {"outage", "crash", "commitfail"} = {}

\* A visitor's request creates a visitor's token.
Visitors ==
    \A p \in Procs : proc[p].op = "anonymous" => owner[proc[p].h] = Anonymous

\* delete_session has been called for every token: reset_password flushes and
\* commits after it, the others only commit.
Deleted(r) == r.pc = "commit" \/ (r.op = "reset" /\ r.pc = "flush")

\* A request that deletes rows has their whole keys still to delete, and none
\* left when it commits: no answer of Redis is missing.
Settled ==
    \A p \in Procs :
        /\ \A h \in proc[p].del : hashKey[h] = "full" => h \in proc[p].todo
        /\ proc[p].del # {} /\ Deleted(proc[p]) => proc[p].todo = {}

UpInv == redisUp = TRUE /\ Visitors /\ EveryKeyExpires /\ IndexCoversSessions

CalmInv == UpInv /\ Settled /\ CacheImpliesRow

-----------------------------------------------------------------------------
(* Steps that leave both stores alone *)

\* One request moves and the others do not.
LEMMA BecomeIs ==
    ASSUME TypeOK, NEW p \in Procs, NEW r, Become(p, r)
    PROVE  proc'[p] = r /\ \A q \in Procs \ {p} : proc'[q] = proc[q]
BY DEF TypeOK, Become

\* The request goes on, with the same rows to delete and keys still to delete.
GoesOn(p, r) ==
    /\ r.op = proc[p].op /\ r.h = proc[p].h /\ r.del = proc[p].del
    /\ r.del = {} \/ r.todo = proc[p].todo
    /\ r.pc \in {"commit", "flush"} => proc[p].op = "reset" /\ proc[p].pc = "flush"

\* It ends without having created anything its user could still use.
GivesUp(p, r) ==
    r = Idle /\ (proc[p].op = "resolve" \/ owner[proc[p].h] \in removed)

\* While Redis answers, the steps a request only reads in, or writes to its own
\* transaction.
QuietStep(p) ==
    \/ Members(p) \/ ReadAge(p) \/ ChooseEvicted(p) \/ Insert(p)
    \/ \E t \in Hashes : PurgeRead(p, t)
    \/ Flush(p) \/ ReadKey(p) \/ SelectRow(p) \/ OutOfTokens(p)

LEMMA QuietSteps ==
    ASSUME TypeOK, Shape, redisUp, NEW p \in Procs, QuietStep(p)
    PROVE  /\ UNCHANGED <<issue, store>>
           /\ proc[p].pc \notin {"ttl", "extend", "unlink", "sadd", "commit", "idle"}
           /\ \E r : Become(p, r) /\ (GoesOn(p, r) \/ GivesUp(p, r))
<1>0. proc[p] \in Request /\ ShapeOf(owner, proc[p])
  BY DEF TypeOK, Shape
<1> DEFINE Goal == \E r : Become(p, r) /\ (GoesOn(p, r) \/ GivesUp(p, r))
<1> SUFFICES UNCHANGED <<issue, store>>
             /\ proc[p].pc \notin {"ttl", "extend", "unlink", "sadd", "commit", "idle"} /\ Goal
  OBVIOUS
<1>1. CASE Members(p)
  <2> DEFINE members == index[owner[proc[p].h]]
             r1 == [proc[p] EXCEPT !.pc = "ages", !.todo = members, !.unread = members]
             r2 == [proc[p] EXCEPT !.pc = "insert"]
  <2>1. GoesOn(p, r1) /\ GoesOn(p, r2)
    BY <1>0, <1>1 DEF Members, At, ShapeOf, Request, GoesOn
  <2>2. Become(p, r1) \/ Become(p, r2)
    BY <1>1 DEF Members, Goto
  <2>3. Goal
    BY <2>1, <2>2
  <2> QED
    BY <1>1, <2>3 DEF Members, At
<1>2. CASE ReadAge(p)
  <2>1. PICK t \in proc[p].unread :
          Become(p, [proc[p] EXCEPT !.unread = @ \ {t},
                          !.blank = IF hashKey[t] = "full" THEN @ ELSE @ \cup {t}])
    BY <1>2 DEF ReadAge
  <2> DEFINE r == [proc[p] EXCEPT !.unread = @ \ {t},
                          !.blank = IF hashKey[t] = "full" THEN @ ELSE @ \cup {t}]
  <2>2. GoesOn(p, r)
    BY <1>0, <1>2 DEF ReadAge, At, ShapeOf, Request, GoesOn
  <2>3. Goal
    BY <2>1, <2>2
  <2> QED
    BY <1>2, <2>3 DEF ReadAge, At
<1>3. CASE ChooseEvicted(p)
  <2>1. PICK evicted : Become(p, [proc[p] EXCEPT !.pc = "purge", !.todo = evicted])
    BY <1>3 DEF ChooseEvicted
  <2> DEFINE r == [proc[p] EXCEPT !.pc = "purge", !.todo = evicted]
  <2>2. GoesOn(p, r)
    BY <1>0, <1>3 DEF ChooseEvicted, At, ShapeOf, Request, GoesOn
  <2>3. Goal
    BY <2>1, <2>2
  <2> QED
    BY <1>3, <2>3 DEF ChooseEvicted, At
<1>4. CASE Insert(p)
  <2> DEFINE r == [proc[p] EXCEPT !.pc = "hset", !.blank = {}, !.done = {}]
  <2>1. GoesOn(p, r)
    BY <1>0 DEF Request, GoesOn
  <2>2. Become(p, r) \/ (Become(p, Idle) /\ GivesUp(p, Idle))
    BY <1>4 DEF Insert, GivesUp
  <2>3. Goal
    BY <2>1, <2>2
  <2> QED
    BY <1>4, <2>3 DEF Insert, At
<1>5. CASE \E t \in Hashes : PurgeRead(p, t)
  <2>1. PICK t \in Hashes : PurgeRead(p, t)
    BY <1>5
  <2> DEFINE r == [proc[p] EXCEPT !.key = t,
                       !.pc = IF hashKey[t] = "full" /\ owner[t] \in Users THEN "srem" ELSE "unlink"]
  <2>2. GoesOn(p, r)
    BY <1>0 DEF Request, GoesOn
  <2>3. Goal
    BY <2>1, <2>2 DEF PurgeRead
  <2> QED
    BY <2>1, <2>3 DEF PurgeRead, At
<1>6. CASE Flush(p)
  <2> DEFINE label == IF proc[p].op = "reset" THEN "commit" ELSE "purge"
             r == [proc[p] EXCEPT !.pc = label]
  <2>1. GoesOn(p, r)
    BY <1>0, <1>6 DEF Flush, At, Request, GoesOn
  <2>2. Goal
    BY <1>6, <2>1 DEF Flush, Goto
  <2> QED
    BY <1>6, <2>2 DEF Flush, At
<1>7. CASE ReadKey(p)
  <2> DEFINE label == IF redisUp /\ hashKey[proc[p].h] # "absent" THEN "touch" ELSE "select"
             r == [proc[p] EXCEPT !.pc = label]
  <2>1. GoesOn(p, r)
    BY <1>0 DEF Request, GoesOn
  <2>2. Goal
    BY <1>7, <2>1 DEF ReadKey, Goto
  <2> QED
    BY <1>7, <2>2 DEF ReadKey, At
<1>8. CASE SelectRow(p) \/ OutOfTokens(p)
  <2>1. proc[p].op = "resolve"
    BY <1>0, <1>8 DEF SelectRow, OutOfTokens, At, ShapeOf
  <2>2. Goal
    BY <1>8, <2>1 DEF SelectRow, OutOfTokens, GivesUp
  <2> QED
    BY <1>8, <2>2 DEF SelectRow, OutOfTokens, At
<1> QED
  BY <1>1, <1>2, <1>3, <1>4, <1>5, <1>6, <1>7, <1>8 DEF QuietStep

\* A request that starts without creating a token takes all it will delete as
\* still to delete.
Selects(p, r) ==
    /\ r.op \in {"resolve", "logout", "revoke", "reset"}
    /\ r.del \subseteq r.todo
    /\ r.pc \in {"get", "purge", "flush"}
    /\ r.op = "reset" /\ r.pc = "flush" => r.todo = {}

LEMMA SelectSteps ==
    ASSUME NEW p \in Procs,
           \/ \E h \in Hashes : BeginResolve(p, h) \/ BeginLogout(p, h) \/ BeginRevoke(p, h)
           \/ \E u \in Users : BeginReset(p, u)
    PROVE  /\ UNCHANGED <<issue, store>>
           /\ proc[p].pc = "idle"
           /\ \E r : Become(p, r) /\ Selects(p, r)
<1>1. CASE \E h \in Hashes : BeginResolve(p, h)
  <2>1. PICK h \in Hashes : BeginResolve(p, h)
    BY <1>1
  <2> DEFINE r == [Idle EXCEPT !.op = "resolve", !.pc = "get", !.h = h]
  <2>2. Selects(p, r)
    BY DEF Selects, Idle
  <2>3. Become(p, r)
    BY <2>1 DEF BeginResolve
  <2> HIDE DEF r
  <2> QED
    BY <2>1, <2>2, <2>3 DEF BeginResolve, At
<1>2. CASE \E h \in Hashes : BeginLogout(p, h)
  <2>1. PICK h \in Hashes : BeginLogout(p, h)
    BY <1>2
  <2> DEFINE r == [Idle EXCEPT !.op = "logout", !.pc = IF h \in rows THEN "flush" ELSE "purge",
                  !.del = {h} \cap rows, !.todo = {h}, !.covers = {h}]
  <2>2. Selects(p, r)
    BY DEF Selects, Idle
  <2>3. Become(p, r)
    BY <2>1 DEF BeginLogout
  <2> HIDE DEF r
  <2> QED
    BY <2>1, <2>2, <2>3 DEF BeginLogout, At
<1>3. CASE \E h \in Hashes : BeginRevoke(p, h)
  <2>1. PICK h \in Hashes : BeginRevoke(p, h)
    BY <1>3
  <2> DEFINE r == [Idle EXCEPT !.op = "revoke", !.pc = "flush",
                  !.del = {h}, !.todo = {h}, !.covers = {h}]
  <2>2. Selects(p, r)
    BY DEF Selects, Idle
  <2>3. Become(p, r)
    BY <2>1 DEF BeginRevoke
  <2> HIDE DEF r
  <2> QED
    BY <2>1, <2>2, <2>3 DEF BeginRevoke, At
<1>4. CASE \E u \in Users : BeginReset(p, u)
  <2>1. PICK u \in Users : BeginReset(p, u)
    BY <1>4
  <2> DEFINE mine == {h \in rows : owner[h] = u}
             covered == {h \in Hashes : owner[h] = u}
             r == [Idle EXCEPT !.op = "reset", !.pc = IF mine = {} THEN "flush" ELSE "purge",
                      !.del = mine, !.todo = mine, !.covers = covered]
  <2>3. Become(p, r)
    BY <2>1 DEF BeginReset
  <2>2. Selects(p, r)
    <3> HIDE DEF mine, covered
    <3> QED
      BY DEF Selects, Idle
  <2> HIDE DEF r
  <2> QED
    BY <2>1, <2>2, <2>3 DEF BeginReset, At
<1> QED
  BY <1>1, <1>2, <1>3, <1>4

\* A new token: no whole key is its own yet, and whoever creates it did not create
\* another before.
Issues(p, h, u, r) ==
    /\ Become(p, r)
    /\ r.op \in {"login", "anonymous"} /\ r.h = h /\ r.del = {}
    /\ r.op = "anonymous" => u = Anonymous
    /\ owner' = [owner EXCEPT ![h] = u]
    /\ hashKey[h] # "full" /\ ~Issued(h)
    /\ proc[p].op \in {"idle", "resolve"} /\ proc[p].pc \in {"idle", "select"}
    /\ UNCHANGED store

LEMMA IssueSteps ==
    ASSUME IInv, NEW p \in Procs,
           \/ \E u \in Users, h \in Hashes : BeginLogin(p, u, h)
           \/ \E h \in Hashes : BeginAnonymous(p, h) \/ ReplaceUnknown(p, h)
    PROVE  \E h \in Hashes, u \in Users \cup {Anonymous} : \E r : Issues(p, h, u, r)
<1>1. proc[p].pc = "idle" => proc[p].op = "idle"
  BY DEF IInv, Shape, ShapeOf
<1>2. proc[p].pc = "select" => proc[p].op = "resolve"
  BY DEF IInv, Shape, ShapeOf
<1>3. \A h \in Hashes : ~Issued(h) => hashKey[h] # "full"
  BY DEF IInv, Safe, StoredIssued
<1> DEFINE New(op, u, h, label) ==
             /\ Create(p, op, u, h, label)
             /\ op = "anonymous" => u = Anonymous
             /\ proc[p].pc \in {"idle", "select"}
             /\ UNCHANGED store
<1>a. ASSUME \E u \in Users, h \in Hashes : BeginLogin(p, u, h)
      PROVE  \E u \in Users \cup {Anonymous}, h \in Hashes : New("login", u, h, "members")
  <2>1. PICK u \in Users, h \in Hashes : BeginLogin(p, u, h)
    BY <1>a
  <2>2. New("login", u, h, "members")
    BY <2>1 DEF BeginLogin, At
  <2> QED
    BY <2>2
<1>b. ASSUME \E h \in Hashes : BeginAnonymous(p, h) \/ ReplaceUnknown(p, h)
      PROVE  \E u \in Users \cup {Anonymous}, h \in Hashes : New("anonymous", u, h, "insert")
  <2>1. PICK h \in Hashes : BeginAnonymous(p, h) \/ ReplaceUnknown(p, h)
    BY <1>b
  <2>2. New("anonymous", Anonymous, h, "insert")
    BY <2>1 DEF BeginAnonymous, ReplaceUnknown, At
  <2> QED
    BY <2>2
<1>4. PICK op \in {"login", "anonymous"}, label \in Pcs, u \in Users \cup {Anonymous}, h \in Hashes :
        New(op, u, h, label)
  <2> HIDE DEF New
  <2>1. "members" \in Pcs /\ "insert" \in Pcs
    BY DEF Pcs
  <2> QED
    BY <1>a, <1>b, <2>1
<1> DEFINE r == [Idle EXCEPT !.op = op, !.pc = label, !.h = h]
<1>5. r.op = op /\ r.h = h /\ r.del = {}
  BY DEF Idle
<1>6. Issues(p, h, u, r)
  BY <1>1, <1>2, <1>3, <1>4, <1>5 DEF Issues, Create
<1> QED
  BY <1>6

-----------------------------------------------------------------------------
(* While Redis answers and the backend stays up *)

\* A request in the middle of setting a TTL or of taking a token out of the index
\* is where it was, with the same token.
Waits(q, places) == proc[q].pc \in places =>
    proc'[q].pc = proc[q].pc /\ proc'[q].h = proc[q].h /\ proc'[q].op = proc[q].op /\ proc'[q].key = proc[q].key

\* Steps that neither write a key nor end the wait for a TTL.
LEMMA KeysFrame ==
    ASSUME EveryKeyExpires,
           \A h \in Hashes : hashKey'[h] # "absent" => hashKey[h] # "absent" /\ (h \in ttl => h \in ttl'),
           \A q \in Procs : Waits(q, {"ttl", "extend"})
    PROVE  EveryKeyExpires'
BY DEF EveryKeyExpires, Waits

LEMMA IndexFrame ==
    ASSUME IndexCoversSessions,
           \A h \in Hashes : hashKey'[h] = "full" /\ owner'[h] \in Users =>
              /\ hashKey[h] = "full" /\ owner'[h] = owner[h]
              /\ h \in index[owner[h]] => h \in index'[owner[h]],
           \A q \in Procs : Waits(q, {"ttl", "sadd", "unlink"})
    PROVE  IndexCoversSessions'
BY DEF IndexCoversSessions, Waits, At, Creates

\* A step in which one request leaves another place, and no others move.
LEMMA OthersWait ==
    ASSUME TypeOK, NEW p \in Procs, NEW r, Become(p, r), NEW places, proc[p].pc \notin places
    PROVE  \A q \in Procs : Waits(q, places)
<1>1. \A q \in Procs \ {p} : proc'[q] = proc[q]
  BY BecomeIs
<1> QED
  BY <1>1 DEF Waits

LEMMA QuietUp ==
    ASSUME TypeOK, Shape, UpInv, NEW p \in Procs, QuietStep(p)
    PROVE  UpInv'
<1> USE DEF UpInv
<1>1. /\ UNCHANGED <<owner, redisUp, hashKey, ttl, index>>
      /\ proc[p].pc \notin {"ttl", "extend", "unlink", "sadd", "commit", "idle"}
  BY QuietSteps DEF issue, store
<1>2. PICK r : Become(p, r) /\ (GoesOn(p, r) \/ GivesUp(p, r))
  BY QuietSteps
<1>3. proc'[p] = r /\ \A q \in Procs \ {p} : proc'[q] = proc[q]
  BY <1>2, BecomeIs
<1>4. Visitors'
  BY <1>1, <1>2, <1>3 DEF Visitors, GoesOn, GivesUp, Idle
<1>5. /\ \A q \in Procs : Waits(q, {"ttl", "extend"})
      /\ \A q \in Procs : Waits(q, {"ttl", "sadd", "unlink"})
  BY <1>1, <1>2, OthersWait
<1>6. EveryKeyExpires' /\ IndexCoversSessions'
  BY <1>1, <1>5, KeysFrame, IndexFrame
<1> QED
  BY <1>1, <1>4, <1>6

LEMMA BeginUp ==
    ASSUME IInv, UpInv, NEW p \in Procs, Begin(p) \/ \E h \in Hashes : ReplaceUnknown(p, h)
    PROVE  UpInv'
<1> USE DEF UpInv
<1>1. CASE \/ \E h \in Hashes : BeginResolve(p, h) \/ BeginLogout(p, h) \/ BeginRevoke(p, h)
           \/ \E u \in Users : BeginReset(p, u)
  <2>1. UNCHANGED <<owner, redisUp, hashKey, ttl, index>> /\ proc[p].pc = "idle"
    BY <1>1, SelectSteps DEF issue, store
  <2>2. PICK r : Become(p, r) /\ Selects(p, r)
    BY <1>1, SelectSteps
  <2>3. proc'[p] = r /\ \A q \in Procs \ {p} : proc'[q] = proc[q]
    BY <2>2, BecomeIs DEF IInv
  <2>4. Visitors'
    BY <2>1, <2>2, <2>3 DEF Visitors, Selects
  <2>5. /\ \A q \in Procs : Waits(q, {"ttl", "extend"})
        /\ \A q \in Procs : Waits(q, {"ttl", "sadd", "unlink"})
    BY <2>1, <2>2, OthersWait DEF IInv
  <2>6. EveryKeyExpires' /\ IndexCoversSessions'
    BY <2>1, <2>5, KeysFrame, IndexFrame
  <2> QED
    BY <2>1, <2>4, <2>6
<1>2. CASE \/ \E u \in Users, h \in Hashes : BeginLogin(p, u, h)
           \/ \E h \in Hashes : BeginAnonymous(p, h) \/ ReplaceUnknown(p, h)
  <2>0. PICK h \in Hashes, u \in Users \cup {Anonymous} : \E r : Issues(p, h, u, r)
    BY <1>2, IssueSteps
  <2>1. PICK r : Issues(p, h, u, r)
    BY <2>0
  <2>2. proc'[p] = r /\ \A q \in Procs \ {p} : proc'[q] = proc[q]
    BY <2>1, BecomeIs DEF IInv, Issues
  <2>3. UNCHANGED <<redisUp, hashKey, ttl, index>>
    BY <2>1 DEF Issues, store
  <2>4. owner'[h] = u /\ \A g \in Hashes \ {h} : owner'[g] = owner[g]
    BY <2>1 DEF Issues, IInv, TypeOK
  <2>5. ASSUME NEW q \in Procs, proc'[q].op = "anonymous" PROVE owner'[proc'[q].h] = Anonymous
    <3>1. CASE q = p
      BY <2>1, <2>2, <2>4, <2>5, <3>1 DEF Issues
    <3>2. CASE q # p
      <4>1. proc'[q] = proc[q] /\ owner[proc[q].h] = Anonymous
        BY <2>2, <2>5, <3>2 DEF Visitors
      <4>2. proc[q].h \in Hashes
        BY <2>5, <4>1 DEF IInv, Shape, ShapeOf
      <4>3. proc[q].h # h
        BY <2>1, <4>1, ConstantsAssumption DEF Issues, Issued
      <4> QED
        BY <2>4, <4>1, <4>2, <4>3
    <3> QED
      BY <3>1, <3>2
  <2>6. /\ \A q \in Procs : Waits(q, {"ttl", "extend"})
        /\ \A q \in Procs : Waits(q, {"ttl", "sadd", "unlink"})
    BY <2>1, OthersWait DEF Issues, IInv
  <2>7. EveryKeyExpires'
    BY <2>3, <2>6, KeysFrame
  <2>8. hashKey[h] # "full"
    BY <2>1 DEF Issues
  <2>9. IndexCoversSessions'
    BY <2>3, <2>4, <2>6, <2>8, IndexFrame
  <2> QED
    BY <2>3, <2>5, <2>7, <2>9 DEF Visitors
<1> QED
  BY <1>1, <1>2 DEF Begin

\* A request that moves on to a place, its owner and token unchanged.
LEMMA MovesTo ==
    ASSUME TypeOK, NEW p \in Procs, NEW label, Goto(p, label)
    PROVE  /\ proc'[p].pc = label /\ proc'[p].op = proc[p].op /\ proc'[p].h = proc[p].h
           /\ proc'[p].key = proc[p].key /\ proc'[p].del = proc[p].del /\ proc'[p].todo = proc[p].todo
           /\ \A q \in Procs \ {p} : proc'[q] = proc[q]
<1>1. proc[p] \in Request
  BY DEF TypeOK
<1>2. /\ proc'[p] = [proc[p] EXCEPT !.pc = label]
      /\ \A q \in Procs \ {p} : proc'[q] = proc[q]
  BY BecomeIs DEF Goto
<1> QED
  BY <1>1, <1>2 DEF Request

\* delete_session has its answer: the token is off the list.
LEMMA UnlinkMoves ==
    ASSUME TypeOK, NEW p \in Procs, redisUp, Unlink(p)
    PROVE  LET left == proc[p].todo \ {proc[p].key}
           IN  /\ proc'[p].pc = AfterPurge(p, left) /\ proc'[p].op = proc[p].op /\ proc'[p].h = proc[p].h
               /\ proc'[p].del = proc[p].del /\ proc'[p].todo = left
               /\ \A q \in Procs \ {p} : proc'[q] = proc[q]
<1> DEFINE left == proc[p].todo \ {proc[p].key}
           label == AfterPurge(p, left)
           r == [proc[p] EXCEPT !.pc = label, !.todo = left,
                              !.key = None, !.done = @ \cup {proc[p].key}]
<1>1. proc[p] \in Request
  BY DEF TypeOK
<1>2. Become(p, r)
  BY DEF Unlink
<1>3. proc'[p] = r /\ \A q \in Procs \ {p} : proc'[q] = proc[q]
  BY <1>2, BecomeIs
<1>4. r.pc = label /\ r.op = proc[p].op /\ r.h = proc[p].h /\ r.del = proc[p].del /\ r.todo = left
  <2> HIDE DEF label, left
  <2> QED
    BY <1>1 DEF Request
<1> QED
  BY <1>3, <1>4

\* The steps that write a key, its TTL or the index, and the ends of a request.
LEMMA WritingUp ==
    ASSUME IInv, UpInv, NEW p \in Procs,
           \/ WriteHash(p) \/ WriteTtl(p) \/ AddToIndex(p)
           \/ RemoveFromIndex(p) \/ Unlink(p) \/ Touch(p) \/ Extend(p)
           \/ Commit(p) \/ CommitFails(p)
    PROVE  UpInv'
<1> USE DEF UpInv
<1>0. TypeOK /\ ShapeOf(owner, proc[p])
  BY DEF IInv, Shape
<1> DEFINE h == proc[p].h
<1> DEFINE Still == owner' = owner /\ redisUp' = redisUp
<1>goto. ASSUME NEW label, Goto(p, label), Still PROVE Visitors' /\ Still
  BY <1>0, <1>goto, MovesTo DEF Visitors
<1>idle. ASSUME Become(p, Idle), Still PROVE Visitors' /\ Still
  BY <1>0, <1>idle, BecomeIs DEF Visitors, Idle
<1>1. CASE WriteHash(p)
  <2>1. Goto(p, "ttl") /\ Still /\ UNCHANGED <<ttl, index>> /\ hashKey' = [hashKey EXCEPT ![h] = "full"]
    BY <1>1 DEF WriteHash
  <2>2. proc[p].pc = "hset" /\ h \in Hashes /\ proc[p].op \in {"login", "anonymous"}
    BY <1>0, <1>1 DEF WriteHash, At, ShapeOf
  <2>3. proc'[p].pc = "ttl" /\ proc'[p].h = h /\ proc'[p].op = proc[p].op
    BY <1>0, <2>1, MovesTo
  <2>4. /\ \A q \in Procs : Waits(q, {"ttl", "extend"})
        /\ \A q \in Procs : Waits(q, {"ttl", "sadd", "unlink"})
    BY <1>0, <2>1, <2>2, OthersWait DEF Goto
  <2>5. \A g \in Hashes \ {h} : hashKey'[g] = hashKey[g]
    BY <1>0, <2>1 DEF TypeOK
  <2>6. EveryKeyExpires'
    BY <2>1, <2>3, <2>4, <2>5 DEF EveryKeyExpires, Waits
  <2>7. IndexCoversSessions'
    BY <2>1, <2>2, <2>3, <2>4, <2>5 DEF IndexCoversSessions, Waits, At, Creates
  <2> QED
    BY <1>goto, <2>1, <2>6, <2>7
<1>2. CASE WriteTtl(p)
  <2>1. /\ Still /\ UNCHANGED <<hashKey, index>> /\ ttl' = WithTtl(h)
        /\ proc[p].op = "login" => Goto(p, "sadd")
        /\ proc[p].op # "login" => Goto(p, "commit")
    BY <1>2 DEF WriteTtl, Respond
  <2>2. proc[p].pc = "ttl" /\ h \in Hashes /\ proc[p].op \in {"login", "anonymous"}
    BY <1>0, <1>2 DEF WriteTtl, At, ShapeOf
  <2>3. PICK label \in {"sadd", "commit"} : Goto(p, label) /\ (proc[p].op = "login" => label = "sadd")
    BY <2>1
  <2>4. /\ proc'[p].pc = label /\ proc'[p].h = h /\ proc'[p].op = proc[p].op
        /\ \A q \in Procs \ {p} : proc'[q] = proc[q]
    BY <1>0, <2>3, MovesTo
  <2>5. EveryKeyExpires'
    <3> SUFFICES ASSUME NEW g \in Hashes, hashKey'[g] # "absent", g \notin ttl'
                 PROVE  \E q \in Procs : proc'[q].h = g /\ proc'[q].pc \in {"ttl", "extend"}
      BY DEF EveryKeyExpires
    <3>1. g # h /\ g \notin ttl
      BY <2>1 DEF WithTtl
    <3>2. PICK q \in Procs : proc[q].h = g /\ proc[q].pc \in {"ttl", "extend"}
      BY <2>1, <3>1 DEF EveryKeyExpires
    <3> QED
      BY <2>4, <3>1, <3>2
  <2>6. IndexCoversSessions'
    <3> SUFFICES ASSUME NEW g \in Hashes, hashKey[g] = "full", owner[g] \in Users, g \notin index[owner[g]]
                 PROVE  \E q \in Procs : \/ At(q, "unlink")' /\ proc'[q].key = g
                                         \/ Creates(q, g)' /\ proc'[q].pc \in {"ttl", "sadd"}
      BY <2>1 DEF IndexCoversSessions
    <3>1. PICK q \in Procs : \/ At(q, "unlink") /\ proc[q].key = g
                             \/ Creates(q, g) /\ proc[q].pc \in {"ttl", "sadd"}
      BY DEF IndexCoversSessions
    <3>2. CASE q = p
      <4>1. h = g /\ proc[p].op # "anonymous"
        BY <2>2, <3>1, <3>2, ConstantsAssumption DEF At, Creates, Visitors
      <4> QED
        BY <2>2, <2>3, <2>4, <4>1 DEF Creates
    <3>3. CASE q # p
      BY <2>4, <3>1, <3>3 DEF At, Creates
    <3> QED
      BY <3>2, <3>3
  <2> QED
    BY <1>goto, <2>1, <2>3, <2>5, <2>6
<1>3. CASE AddToIndex(p)
  <2>1. Still /\ UNCHANGED <<hashKey, ttl>> /\ index' = Indexed(h) /\ Goto(p, "commit")
    BY <1>3 DEF AddToIndex, Respond
  <2>2. proc[p].pc = "sadd" /\ h \in Hashes /\ owner[h] \in Users
    BY <1>0, <1>3 DEF AddToIndex, At, ShapeOf
  <2>3. \A q \in Procs \ {p} : proc'[q] = proc[q]
    BY <1>0, <2>1, MovesTo
  <2>4. h \in index'[owner[h]] /\ \A u \in Users : index[u] \subseteq index'[u]
    BY <1>0, <2>1, <2>2 DEF Indexed, TypeOK
  <2>5. \A q \in Procs : Waits(q, {"ttl", "extend"})
    BY <1>0, <2>1, <2>2, OthersWait DEF Goto
  <2>6. EveryKeyExpires'
    BY <2>1, <2>5, KeysFrame
  <2>7. IndexCoversSessions'
    <3> SUFFICES ASSUME NEW g \in Hashes, hashKey[g] = "full", owner[g] \in Users, g \notin index'[owner[g]]
                 PROVE  \E q \in Procs : \/ At(q, "unlink")' /\ proc'[q].key = g
                                         \/ Creates(q, g)' /\ proc'[q].pc \in {"ttl", "sadd"}
      BY <2>1 DEF IndexCoversSessions
    <3>1. PICK q \in Procs : \/ At(q, "unlink") /\ proc[q].key = g
                             \/ Creates(q, g) /\ proc[q].pc \in {"ttl", "sadd"}
      BY <2>4 DEF IndexCoversSessions
    <3>2. q # p
      BY <2>2, <2>4, <3>1 DEF At, Creates
    <3> QED
      BY <2>3, <3>1, <3>2 DEF At, Creates
  <2> QED
    BY <1>goto, <2>1, <2>6, <2>7
<1>4. CASE RemoveFromIndex(p)
  <2> DEFINE t == proc[p].key
  <2>1. /\ Still /\ UNCHANGED <<hashKey, ttl>> /\ Goto(p, "unlink")
        /\ index' = [index EXCEPT ![owner[t]] = @ \ {t}]
    BY <1>4 DEF RemoveFromIndex, issue
  <2>2. proc[p].pc = "srem"
    BY <1>4 DEF RemoveFromIndex, At
  <2>3. proc'[p].pc = "unlink" /\ proc'[p].key = t
    BY <1>0, <2>1, MovesTo
  <2>4. /\ \A q \in Procs : Waits(q, {"ttl", "extend"})
        /\ \A q \in Procs : Waits(q, {"ttl", "sadd", "unlink"})
    BY <1>0, <2>1, <2>2, OthersWait DEF Goto
  <2>5. \A u \in Users, g \in Hashes \ {t} : g \in index[u] => g \in index'[u]
    BY <1>0, <2>1 DEF TypeOK
  <2>6. EveryKeyExpires'
    BY <2>1, <2>4, KeysFrame
  <2>7. IndexCoversSessions'
    BY <2>1, <2>3, <2>4, <2>5 DEF IndexCoversSessions, Waits, At, Creates
  <2> QED
    BY <1>goto, <2>1, <2>6, <2>7
<1>5. CASE Unlink(p)
  <2> DEFINE t == proc[p].key
  <2>1. /\ Still /\ index' = index /\ hashKey' = [hashKey EXCEPT ![t] = "absent"] /\ ttl' = ttl \ {t}
    BY <1>5 DEF Unlink, issue
  <2>2. proc[p].pc = "unlink"
    BY <1>5 DEF Unlink, At
  <2>3. proc'[p].op = proc[p].op /\ proc'[p].h = h /\ \A q \in Procs \ {p} : proc'[q] = proc[q]
    BY <1>0, <1>5, UnlinkMoves
  <2>4. \A g \in Hashes : hashKey'[g] # "absent" => g # t /\ hashKey'[g] = hashKey[g]
    BY <1>0, <2>1 DEF TypeOK
  <2>5. \A q \in Procs : Waits(q, {"ttl", "extend"})
    BY <2>2, <2>3 DEF Waits
  <2>6. EveryKeyExpires'
    BY <2>1, <2>4, <2>5, KeysFrame
  <2>7. IndexCoversSessions'
    <3> SUFFICES ASSUME NEW g \in Hashes, hashKey'[g] = "full", owner[g] \in Users, g \notin index[owner[g]]
                 PROVE  \E q \in Procs : \/ At(q, "unlink")' /\ proc'[q].key = g
                                         \/ Creates(q, g)' /\ proc'[q].pc \in {"ttl", "sadd"}
      BY <2>1 DEF IndexCoversSessions
    <3>1. hashKey[g] = "full" /\ g # t
      BY <2>4
    <3>2. PICK q \in Procs : \/ At(q, "unlink") /\ proc[q].key = g
                             \/ Creates(q, g) /\ proc[q].pc \in {"ttl", "sadd"}
      BY <3>1 DEF IndexCoversSessions
    <3>3. q # p
      BY <2>2, <3>1, <3>2
    <3> QED
      BY <2>3, <3>2, <3>3 DEF At, Creates
  <2>8. Visitors'
    BY <2>1, <2>3 DEF Visitors
  <2> QED
    BY <2>1, <2>6, <2>7, <2>8
<1>6. CASE Touch(p)
  <2>1. /\ Still /\ UNCHANGED <<ttl, index>> /\ Goto(p, "extend")
        /\ hashKey' = [hashKey EXCEPT ![h] = Touched(@)]
    BY <1>6 DEF Touch, issue
  <2>2. proc[p].pc = "touch" /\ h \in Hashes
    BY <1>0, <1>6 DEF Touch, At, ShapeOf
  <2>3. proc'[p].pc = "extend" /\ proc'[p].h = h
    BY <1>0, <2>1, MovesTo
  <2>4. /\ \A q \in Procs : Waits(q, {"ttl", "extend"})
        /\ \A q \in Procs : Waits(q, {"ttl", "sadd", "unlink"})
    BY <1>0, <2>1, <2>2, OthersWait DEF Goto
  <2>5. /\ \A g \in Hashes \ {h} : hashKey'[g] = hashKey[g]
        /\ \A g \in Hashes : hashKey'[g] = "full" => hashKey[g] = "full"
    BY <1>0, <2>1, <2>2 DEF TypeOK, Touched
  <2>6. EveryKeyExpires'
    BY <2>1, <2>3, <2>4, <2>5 DEF EveryKeyExpires, Waits
  <2>7. IndexCoversSessions'
    BY <2>1, <2>4, <2>5, IndexFrame
  <2> QED
    BY <1>goto, <2>1, <2>6, <2>7
<1>7. CASE Extend(p)
  <2>1. Still /\ UNCHANGED <<hashKey, index>> /\ Become(p, Idle) /\ ttl' = WithTtl(h)
    BY <1>7 DEF Extend, issue
  <2>2. proc[p].pc = "extend"
    BY <1>7 DEF Extend, At
  <2>3. \A q \in Procs \ {p} : proc'[q] = proc[q]
    BY <1>0, <2>1, BecomeIs
  <2>4. \A q \in Procs : Waits(q, {"ttl", "sadd", "unlink"})
    BY <1>0, <2>1, <2>2, OthersWait
  <2>5. EveryKeyExpires'
    <3> SUFFICES ASSUME NEW g \in Hashes, hashKey'[g] # "absent", g \notin ttl'
                 PROVE  \E q \in Procs : proc'[q].h = g /\ proc'[q].pc \in {"ttl", "extend"}
      BY DEF EveryKeyExpires
    <3>1. g # h /\ g \notin ttl
      BY <2>1 DEF WithTtl
    <3>2. PICK q \in Procs : proc[q].h = g /\ proc[q].pc \in {"ttl", "extend"}
      BY <2>1, <3>1 DEF EveryKeyExpires
    <3> QED
      BY <2>3, <3>1, <3>2
  <2>6. IndexCoversSessions'
    BY <2>1, <2>4, IndexFrame
  <2> QED
    BY <1>idle, <2>1, <2>5, <2>6
<1>8. CASE Commit(p) \/ CommitFails(p)
  <2>1. Still /\ UNCHANGED <<hashKey, ttl, index>> /\ Become(p, Idle) /\ proc[p].pc = "commit"
    BY <1>8 DEF Commit, CommitFails, At, issue, store
  <2>2. /\ \A q \in Procs : Waits(q, {"ttl", "extend"})
        /\ \A q \in Procs : Waits(q, {"ttl", "sadd", "unlink"})
    BY <1>0, <2>1, OthersWait
  <2>3. EveryKeyExpires' /\ IndexCoversSessions'
    BY <2>1, <2>2, KeysFrame, IndexFrame
  <2> QED
    BY <1>idle, <2>1, <2>3
<1> QED
  BY <1>1, <1>2, <1>3, <1>4, <1>5, <1>6, <1>7, <1>8

\* Keys that lapse go with their TTL; the rest of the environment leaves Redis alone.
LEMMA EnvironmentUp ==
    ASSUME NoOutage, IInv, UpInv, Environment
    PROVE  UpInv'
<1> USE DEF UpInv
<1>1. ~Outage /\ ~Crash
  BY DEF NoOutage, Outage, Crash
<1>2. UNCHANGED <<owner, redisUp, index, proc>>
  BY <1>1 DEF Environment, Lapse, Expire, CleanupExpiredAnonymous, DeleteUser, issue
<1>3. /\ \A h \in Hashes : hashKey'[h] # "absent" => hashKey'[h] = hashKey[h] /\ (h \in ttl => h \in ttl')
  <2>1. CASE \E h \in Hashes : Lapse(h)
    BY <2>1 DEF Lapse, IInv, TypeOK
  <2>2. CASE ~\E h \in Hashes : Lapse(h)
    BY <1>1, <2>2 DEF Environment, Expire, CleanupExpiredAnonymous, DeleteUser
  <2> QED
    BY <2>1, <2>2
<1>4. \A q \in Procs : Waits(q, {"ttl", "extend"}) /\ Waits(q, {"ttl", "sadd", "unlink"})
  BY <1>2 DEF Waits
<1>5. EveryKeyExpires'
  BY <1>2, <1>3, <1>4, KeysFrame
<1>6. IndexCoversSessions'
  BY <1>2, <1>3, <1>4, IndexFrame
<1> QED
  BY <1>2, <1>5, <1>6 DEF Visitors

LEMMA UpInductive ==
    ASSUME NoOutage
    PROVE  /\ Init => IInv /\ UpInv
           /\ IInv /\ UpInv /\ [Next]_vars => IInv' /\ UpInv'
<1>1. ASSUME Init PROVE IInv /\ UpInv
  <2>1. Visitors /\ EveryKeyExpires /\ IndexCoversSessions /\ redisUp = TRUE
    BY <1>1 DEF Init, Visitors, EveryKeyExpires, IndexCoversSessions, Idle
  <2> QED
    BY <1>1, <2>1, Inductive DEF UpInv
<1>2. ASSUME IInv, UpInv, [Next]_vars PROVE IInv' /\ UpInv'
  <2>1. ASSUME NEW p \in Procs, Begin(p) PROVE UpInv'
    BY <1>2, <2>1, BeginUp
  <2>2. ASSUME NEW p \in Procs, Continue(p) PROVE UpInv'
    <3>1. CASE QuietStep(p)
      BY <1>2, <3>1, QuietUp DEF IInv
    <3>2. CASE \E h \in Hashes : ReplaceUnknown(p, h)
      BY <1>2, <3>2, BeginUp
    <3>3. CASE \/ WriteHash(p) \/ WriteTtl(p) \/ AddToIndex(p)
               \/ RemoveFromIndex(p) \/ Unlink(p) \/ Touch(p) \/ Extend(p)
               \/ Commit(p) \/ CommitFails(p)
      BY <1>2, <3>3, WritingUp
    <3> QED
      BY <2>2, <3>1, <3>2, <3>3 DEF Continue, QuietStep
  <2>3. ASSUME Environment PROVE UpInv'
    BY <1>2, <2>3, EnvironmentUp
  <2>4. ASSUME UNCHANGED vars PROVE UpInv'
    <3>1. UNCHANGED <<owner, redisUp, hashKey, ttl, index, proc>>
      BY <2>4 DEF vars, issue, store
    <3>2. \A q \in Procs : Waits(q, {"ttl", "extend"}) /\ Waits(q, {"ttl", "sadd", "unlink"})
      BY <3>1 DEF Waits
    <3> QED
      BY <1>2, <3>1, <3>2, KeysFrame, IndexFrame DEF UpInv, Visitors
  <2>5. UpInv'
    BY <1>2, <2>1, <2>2, <2>3, <2>4 DEF Next
  <2> QED
    BY <1>2, <2>5, Inductive
<1> QED
  BY <1>1, <1>2

\* While Redis answers and the backend stays up, every session key has a TTL or
\* the request that wrote it is about to set one, whatever overlaps.
THEOREM KeysExpire == ASSUME NoOutage PROVE Spec => []EveryKeyExpires
<1>1. UpInv => EveryKeyExpires
  BY DEF UpInv
<1> QED
  BY <1>1, UpInductive, PTL DEF Spec

\* While Redis answers and the backend stays up, the limit counts every session:
\* a user's whole key is in the index but for one being added or removed.
THEOREM IndexIsComplete == ASSUME NoOutage PROVE Spec => []IndexCoversSessions
<1>1. UpInv => IndexCoversSessions
  BY DEF UpInv
<1> QED
  BY <1>1, UpInductive, PTL DEF Spec

-----------------------------------------------------------------------------
(* While no commit fails either *)

\* Steps that leave users' whole keys, rows and creators at least as they were.
LEMMA RowFrame ==
    ASSUME CacheImpliesRow,
           \A h \in Hashes : hashKey'[h] = "full" /\ owner'[h] \in Users \ removed' =>
              /\ hashKey[h] = "full" /\ owner'[h] = owner[h] /\ owner[h] \notin removed
              /\ h \in rows => h \in rows'
              /\ \A q \in Procs : Creates(q, h) => Creates(q, h)'
    PROVE  CacheImpliesRow'
BY DEF CacheImpliesRow, InFlight

\* One request moves, from a settled place to a settled place, and no key is
\* written that another one deletes.
LEMMA SettledFrame ==
    ASSUME TypeOK, Settled, NEW p \in Procs, NEW r, Become(p, r),
           \A h \in Hashes : hashKey'[h] = "full" => hashKey[h] = "full",
           \A h \in r.del : hashKey'[h] = "full" => h \in r.todo,
           r.del # {} /\ Deleted(r) => r.todo = {}
    PROVE  Settled'
<1>1. proc'[p] = r /\ \A q \in Procs \ {p} : proc'[q] = proc[q]
  BY BecomeIs
<1>2. \A q \in Procs : proc[q].del \subseteq Hashes
  BY DEF TypeOK, Request
<1> QED
  BY <1>1, <1>2 DEF Settled

LEMMA QuietCalm ==
    ASSUME TypeOK, Shape, CalmInv, NEW p \in Procs, QuietStep(p)
    PROVE  Settled' /\ CacheImpliesRow'
<1> USE DEF CalmInv, UpInv
<1>1. UNCHANGED <<owner, rows, removed, hashKey>>
  BY QuietSteps DEF issue, store
<1>2. PICK r : Become(p, r) /\ (GoesOn(p, r) \/ GivesUp(p, r))
  BY QuietSteps
<1>3. proc'[p] = r /\ \A q \in Procs \ {p} : proc'[q] = proc[q]
  BY <1>2, BecomeIs
<1>4. Settled'
  <2>1. \A h \in r.del : hashKey[h] = "full" => h \in r.todo
    BY <1>2 DEF GoesOn, GivesUp, Settled, Idle
  <2>2. r.del # {} /\ Deleted(r) => r.todo = {}
    BY <1>2 DEF GoesOn, GivesUp, Deleted, Settled, Idle
  <2> QED
    BY <1>1, <1>2, <2>1, <2>2, SettledFrame
<1>5. ASSUME NEW h \in Hashes, owner[h] \notin removed, NEW q \in Procs, Creates(q, h)
      PROVE  Creates(q, h)'
  BY <1>2, <1>3, <1>5 DEF GoesOn, GivesUp, Creates
<1>6. CacheImpliesRow'
  BY <1>1, <1>5, RowFrame
<1> QED
  BY <1>4, <1>6

LEMMA BeginCalm ==
    ASSUME IInv, CalmInv, NEW p \in Procs, Begin(p) \/ \E h \in Hashes : ReplaceUnknown(p, h)
    PROVE  Settled' /\ CacheImpliesRow'
<1> USE DEF CalmInv
<1>1. CASE \/ \E h \in Hashes : BeginResolve(p, h) \/ BeginLogout(p, h) \/ BeginRevoke(p, h)
           \/ \E u \in Users : BeginReset(p, u)
  <2>1. UNCHANGED <<owner, rows, removed, hashKey>> /\ proc[p].pc = "idle"
    BY <1>1, SelectSteps DEF issue, store
  <2>2. PICK r : Become(p, r) /\ Selects(p, r)
    BY <1>1, SelectSteps
  <2>3. proc'[p] = r /\ \A q \in Procs \ {p} : proc'[q] = proc[q]
    BY <2>2, BecomeIs DEF IInv
  <2>4. Settled'
    <3>1. \A h \in r.del : hashKey'[h] = "full" => h \in r.todo
      BY <2>2 DEF Selects
    <3>2. r.del # {} /\ Deleted(r) => r.todo = {}
      BY <2>2 DEF Selects, Deleted
    <3> QED
      BY <2>1, <2>2, <3>1, <3>2, SettledFrame DEF IInv
  <2>5. proc[p].op = "idle"
    BY <2>1 DEF IInv, Shape, ShapeOf
  <2>6. \A h \in Hashes, q \in Procs : Creates(q, h) => Creates(q, h)'
    BY <2>3, <2>5 DEF Creates
  <2>7. CacheImpliesRow'
    BY <2>1, <2>6, RowFrame
  <2> QED
    BY <2>4, <2>7
<1>2. CASE \/ \E u \in Users, h \in Hashes : BeginLogin(p, u, h)
           \/ \E h \in Hashes : BeginAnonymous(p, h) \/ ReplaceUnknown(p, h)
  <2>0. PICK h \in Hashes, u \in Users \cup {Anonymous} : \E r : Issues(p, h, u, r)
    BY <1>2, IssueSteps
  <2>1. PICK r : Issues(p, h, u, r)
    BY <2>0
  <2>2. proc'[p] = r /\ \A q \in Procs \ {p} : proc'[q] = proc[q]
    BY <2>1, BecomeIs DEF IInv, Issues
  <2>3. UNCHANGED <<rows, removed, hashKey>>
    BY <2>1 DEF Issues, store
  <2>4. \A g \in Hashes \ {h} : owner'[g] = owner[g]
    BY <2>1 DEF Issues, IInv, TypeOK
  <2>5. Become(p, r) /\ r.op \in {"login", "anonymous"} /\ r.del = {}
    BY <2>1 DEF Issues
  <2>6. Settled'
    BY <2>3, <2>5, SettledFrame DEF IInv
  <2>7. proc[p].op \in {"idle", "resolve"} /\ hashKey[h] # "full"
    BY <2>1 DEF Issues
  <2>8. \A g \in Hashes, q \in Procs : Creates(q, g) => Creates(q, g)'
    BY <2>2, <2>7 DEF Creates
  <2>9. CacheImpliesRow'
    BY <2>3, <2>4, <2>7, <2>8, RowFrame
  <2> QED
    BY <2>6, <2>9
<1> QED
  BY <1>1, <1>2 DEF Begin

\* A request that creates a token, or only tidies the index, moves on.
LEMMA MovesCalm ==
    ASSUME IInv, CalmInv, NEW p \in Procs, NEW label, Goto(p, label),
           UNCHANGED <<owner, rows, removed>>,
           \A h \in Hashes : hashKey'[h] = "full" => hashKey[h] = "full",
           proc[p].del = {} \/ label \notin {"commit", "flush"}
    PROVE  Settled' /\ CacheImpliesRow'
<1> USE DEF CalmInv
<1>1. /\ proc'[p].pc = label /\ proc'[p].op = proc[p].op /\ proc'[p].h = proc[p].h
      /\ proc'[p].del = proc[p].del /\ proc'[p].todo = proc[p].todo
      /\ \A q \in Procs \ {p} : proc'[q] = proc[q]
  BY MovesTo DEF IInv
<1>2. \A q \in Procs : proc[q].del \subseteq Hashes
  BY DEF IInv, TypeOK, Request
<1>3. Settled'
  BY <1>1, <1>2 DEF Settled, Deleted
<1>4. \A h \in Hashes, q \in Procs : Creates(q, h) => Creates(q, h)'
  BY <1>1 DEF Creates
<1>5. CacheImpliesRow'
  BY <1>4, RowFrame
<1> QED
  BY <1>3, <1>5

LEMMA WritingCalm ==
    ASSUME NoFailure, IInv, CalmInv, NEW p \in Procs,
           \/ WriteHash(p) \/ WriteTtl(p) \/ AddToIndex(p)
           \/ RemoveFromIndex(p) \/ Unlink(p) \/ Touch(p) \/ Extend(p)
           \/ Commit(p) \/ CommitFails(p)
    PROVE  Settled' /\ CacheImpliesRow'
<1> USE DEF CalmInv, UpInv
<1>0. TypeOK /\ proc[p] \in Request /\ ShapeOf(owner, proc[p])
  BY DEF IInv, Shape, TypeOK
<1> DEFINE h == proc[p].h
<1>1. CASE WriteHash(p)
  <2>1. /\ Goto(p, "ttl") /\ UNCHANGED <<owner, rows, removed>>
        /\ hashKey' = [hashKey EXCEPT ![h] = "full"]
    BY <1>1 DEF WriteHash
  <2>2. h \in Hashes /\ proc[p].op \in {"login", "anonymous"} /\ proc[p].del = {}
    BY <1>0, <1>1 DEF WriteHash, At, ShapeOf
  <2>3. Creates(p, h)
    BY <2>2 DEF Creates
  <2>4. /\ proc'[p].pc = "ttl" /\ proc'[p].op = proc[p].op /\ proc'[p].h = h /\ proc'[p].del = {}
        /\ \A q \in Procs \ {p} : proc'[q] = proc[q]
    BY <1>0, <2>1, <2>2, MovesTo
  <2>5. \A g \in Hashes \ {h} : hashKey'[g] = hashKey[g]
    BY <1>0, <2>1 DEF TypeOK
  <2>6. \A q \in Procs : h \notin proc[q].del /\ proc[q].del \subseteq Hashes
    BY <1>0, <2>3 DEF IInv, Safe, Selected, InFlight, TypeOK, Request
  <2>7. Settled'
    BY <2>2, <2>4, <2>5, <2>6 DEF Settled, Deleted
  <2>8. \A q \in Procs : \A g \in Hashes : Creates(q, g) => Creates(q, g)'
    BY <2>4 DEF Creates
  <2>9. CacheImpliesRow'
    BY <2>1, <2>3, <2>5, <2>8 DEF CacheImpliesRow, InFlight
  <2> QED
    BY <2>7, <2>9
<1>2. CASE WriteTtl(p) \/ AddToIndex(p)
  <2>1. UNCHANGED <<owner, rows, removed, hashKey>> /\ \E label : Goto(p, label)
    BY <1>2 DEF WriteTtl, AddToIndex, Respond
  <2>2. proc[p].op \in {"login", "anonymous"} /\ proc[p].del = {}
    BY <1>0, <1>2 DEF WriteTtl, AddToIndex, At, ShapeOf
  <2> QED
    BY <2>1, <2>2, MovesCalm
<1>3. CASE RemoveFromIndex(p)
  <2>1. UNCHANGED <<owner, rows, removed, hashKey>> /\ Goto(p, "unlink")
    BY <1>3 DEF RemoveFromIndex, issue
  <2> QED
    BY <2>1, MovesCalm
<1>4. CASE Unlink(p)
  <2> DEFINE t == proc[p].key
             left == proc[p].todo \ {t}
  <2>1. UNCHANGED <<owner, rows, removed>> /\ hashKey' = [hashKey EXCEPT ![t] = "absent"]
    BY <1>4 DEF Unlink, issue
  <2>2. /\ proc'[p].pc = AfterPurge(p, left) /\ proc'[p].op = proc[p].op /\ proc'[p].h = h
        /\ proc'[p].del = proc[p].del /\ proc'[p].todo = left
        /\ \A q \in Procs \ {p} : proc'[q] = proc[q]
    BY <1>0, <1>4, UnlinkMoves
  <2>3. \A g \in Hashes : hashKey'[g] = "full" => hashKey[g] = "full" /\ g # t
    BY <1>0, <2>1 DEF TypeOK
  <2>4. \A q \in Procs : proc[q].del \subseteq Hashes
    BY <1>0 DEF TypeOK, Request
  <2>5. Settled'
    <3>1. ASSUME NEW q \in Procs, NEW g \in proc'[q].del, hashKey'[g] = "full"
          PROVE  g \in proc'[q].todo
      <4>1. g \in proc[q].del /\ hashKey[g] = "full" /\ g # t
        BY <2>2, <2>3, <2>4, <3>1
      <4>2. g \in proc[q].todo
        BY <4>1 DEF Settled
      <4> QED
        BY <2>2, <4>1, <4>2
    <3>2. AfterPurge(p, left) \in {"commit", "flush"} => left = {}
      BY DEF AfterPurge
    <3> QED
      BY <2>2, <3>1, <3>2 DEF Settled, Deleted
  <2>6. \A g \in Hashes, q \in Procs : Creates(q, g) => Creates(q, g)'
    BY <2>2 DEF Creates
  <2>7. CacheImpliesRow'
    BY <2>1, <2>3, <2>6, RowFrame
  <2> QED
    BY <2>5, <2>7
<1>5. CASE Touch(p)
  <2>1. /\ UNCHANGED <<owner, rows, removed>> /\ Goto(p, "extend")
        /\ hashKey' = [hashKey EXCEPT ![h] = Touched(@)]
    BY <1>5 DEF Touch, issue
  <2>2. \A g \in Hashes : hashKey'[g] = "full" => hashKey[g] = "full"
    BY <1>0, <2>1 DEF TypeOK, Touched
  <2> QED
    BY <2>1, <2>2, MovesCalm
<1>6. CASE Extend(p)
  <2>1. UNCHANGED <<owner, rows, removed, hashKey>> /\ Become(p, Idle) /\ proc[p].op = "resolve"
    BY <1>0, <1>6 DEF Extend, At, ShapeOf, issue
  <2>2. Settled'
    BY <1>0, <2>1, SettledFrame DEF Idle
  <2>3. \A q \in Procs \ {p} : proc'[q] = proc[q]
    BY <1>0, <2>1, BecomeIs
  <2>4. \A g \in Hashes, q \in Procs : Creates(q, g) => Creates(q, g)'
    BY <2>1, <2>3 DEF Creates
  <2>5. CacheImpliesRow'
    BY <2>1, <2>4, RowFrame
  <2> QED
    BY <2>2, <2>5
<1>7. CASE Commit(p)
  <2> DEFINE made == {g \in Hashes : Creates(p, g)}
  <2>1. /\ UNCHANGED <<owner, removed, hashKey>> /\ Become(p, Idle) /\ proc[p].pc = "commit"
        /\ rows' = (rows \ proc[p].del) \cup made
    BY <1>7 DEF Commit, RowsAfter, At
  <2>2. Settled'
    BY <1>0, <2>1, SettledFrame DEF Idle
  <2>3. \A g \in proc[p].del : hashKey[g] # "full"
    BY <2>1 DEF Settled, Deleted
  <2>4. \A q \in Procs \ {p} : proc'[q] = proc[q]
    BY <1>0, <2>1, BecomeIs
  <2>5. CacheImpliesRow'
    BY <2>1, <2>3, <2>4 DEF CacheImpliesRow, InFlight, Creates
  <2> QED
    BY <2>2, <2>5
<1>8. CASE CommitFails(p)
  BY <1>8 DEF CommitFails, NoFailure
<1> QED
  BY <1>1, <1>2, <1>3, <1>4, <1>5, <1>6, <1>7, <1>8

\* Rows go for expired visitors and for deleted users; keys only lapse.
LEMMA EnvironmentCalm ==
    ASSUME NoFailure, IInv, CalmInv, Environment
    PROVE  Settled' /\ CacheImpliesRow'
<1> USE DEF CalmInv
<1>1. ~Outage /\ ~Crash
  BY DEF NoFailure, Outage, Crash
<1>2. UNCHANGED <<owner, proc>> /\ removed \subseteq removed'
  BY <1>1 DEF Environment, Lapse, Expire, CleanupExpiredAnonymous, DeleteUser, issue
<1>3. \A h \in Hashes : hashKey'[h] = "full" => hashKey[h] = "full"
  BY <1>1 DEF Environment, Lapse, Expire, CleanupExpiredAnonymous, DeleteUser, IInv, TypeOK
<1>4. \A h \in Hashes : owner[h] \in Users \ removed' /\ h \in rows => h \in rows'
  BY <1>1, ConstantsAssumption
     DEF Environment, Lapse, Expire, CleanupExpiredAnonymous, DeleteUser, IInv, TypeOK
<1>5. Settled'
  <2>1. \A q \in Procs : proc[q].del \subseteq Hashes
    BY DEF IInv, TypeOK, Request
  <2> QED
    BY <1>2, <1>3, <2>1 DEF Settled
<1>6. CacheImpliesRow'
  BY <1>2, <1>3, <1>4, RowFrame DEF Creates
<1> QED
  BY <1>5, <1>6

LEMMA CalmInductive ==
    ASSUME NoFailure
    PROVE  /\ Init => IInv /\ CalmInv
           /\ IInv /\ CalmInv /\ [Next]_vars => IInv' /\ CalmInv'
<1>0. NoOutage
  BY DEF NoFailure, NoOutage
<1>1. ASSUME Init PROVE IInv /\ CalmInv
  <2>1. Settled /\ CacheImpliesRow
    BY <1>1 DEF Init, Settled, Deleted, CacheImpliesRow, Idle
  <2> QED
    BY <1>0, <1>1, <2>1, UpInductive DEF CalmInv
<1>2. ASSUME IInv, CalmInv, [Next]_vars PROVE IInv' /\ CalmInv'
  <2>1. ASSUME NEW p \in Procs, Begin(p) PROVE Settled' /\ CacheImpliesRow'
    BY <1>2, <2>1, BeginCalm
  <2>2. ASSUME NEW p \in Procs, Continue(p) PROVE Settled' /\ CacheImpliesRow'
    <3>1. CASE QuietStep(p)
      BY <1>2, <3>1, QuietCalm DEF IInv
    <3>2. CASE \E h \in Hashes : ReplaceUnknown(p, h)
      BY <1>2, <3>2, BeginCalm
    <3>3. CASE \/ WriteHash(p) \/ WriteTtl(p) \/ AddToIndex(p)
               \/ RemoveFromIndex(p) \/ Unlink(p) \/ Touch(p) \/ Extend(p)
               \/ Commit(p) \/ CommitFails(p)
      BY <1>2, <3>3, WritingCalm
    <3> QED
      BY <2>2, <3>1, <3>2, <3>3 DEF Continue, QuietStep
  <2>3. ASSUME Environment PROVE Settled' /\ CacheImpliesRow'
    BY <1>2, <2>3, EnvironmentCalm
  <2>4. ASSUME UNCHANGED vars PROVE Settled' /\ CacheImpliesRow'
    <3>1. UNCHANGED <<owner, rows, removed, hashKey, proc>>
      BY <2>4 DEF vars, issue, store
    <3>2. Settled'
      BY <1>2, <3>1 DEF CalmInv, Settled
    <3>3. CacheImpliesRow'
      BY <1>2, <3>1, RowFrame DEF CalmInv, Creates
    <3> QED
      BY <3>2, <3>3
  <2>5. Settled' /\ CacheImpliesRow'
    BY <1>2, <2>1, <2>2, <2>3, <2>4 DEF Next
  <2>6. IInv' /\ UpInv'
    BY <1>0, <1>2, UpInductive DEF CalmInv
  <2> QED
    BY <2>5, <2>6 DEF CalmInv
<1> QED
  BY <1>1, <1>2

\* While nothing fails, a user's session in Redis has its row or the login that
\* makes it is still open, though revoke, reset and login write the two stores in
\* different orders and any of them may overlap.
THEOREM CacheHasRow == ASSUME NoFailure PROVE Spec => []CacheImpliesRow
<1>1. CalmInv => CacheImpliesRow
  BY DEF CalmInv
<1> QED
  BY <1>1, CalmInductive, PTL DEF Spec

-----------------------------------------------------------------------------
(* Counting sessions and logins *)

\* The logins that read the index no later than p, among those of D.
Older(D, rank, p) == {q \in D \ {p} : rank[q] <= rank[p]}

\* A login that reads ages has still to leave MaxSessions of what it read.
Room(r) == IF r.pc = "ages" THEN 0 ELSE MaxSessions

\* L: the sessions listed; C: the logins that will add one; D: those that evict, and
\* ps[p].todo what p has still to evict.  rank is the order in which they read the
\* index, b the last login of those that have done with it.
Ranked(L, C, D, ps, rank, b) ==
    /\ Cardinality(L) + Cardinality(C \cup {q \in D : rank[q] < b}) <= MaxSessions + Cardinality(Procs)
    /\ \A p \in D : rank[p] >= b =>
         Cardinality(L \ ps[p].todo) + Cardinality(C \cup Older(D, rank, p)) + 1
            <= Room(ps[p]) + Cardinality(Procs)

Bounded(L, C, D, ps) ==
    \E rank \in [Procs -> Nat], b, n \in Nat :
        (\A q \in Procs : rank[q] < n) /\ Ranked(L, C, D, ps, rank, b)

\* A part of a finite set has no more elements.
LEMMA Fewer ==
    ASSUME NEW S, NEW T, T \subseteq S, IsFiniteSet(S)
    PROVE  IsFiniteSet(T) /\ Cardinality(S) \in Nat /\ Cardinality(T) \in Nat /\ Cardinality(T) <= Cardinality(S)
<1>1. IsFiniteSet(T) /\ Cardinality(T) <= Cardinality(S)
  BY FS_Subset
<1> QED
  BY <1>1, FS_CardinalityType

\* A part of a union has no more elements than the two sets together.
LEMMA Both ==
    ASSUME NEW S, NEW T, NEW A, A \subseteq S \cup T, IsFiniteSet(S), IsFiniteSet(T)
    PROVE  /\ IsFiniteSet(A) /\ Cardinality(A) \in Nat /\ Cardinality(S) \in Nat /\ Cardinality(T) \in Nat
           /\ Cardinality(A) <= Cardinality(S) + Cardinality(T)
<1> DEFINE U == S \cup T
<1>1. IsFiniteSet(U) /\ Cardinality(U) = Cardinality(S) + Cardinality(T) - Cardinality(S \cap T)
  BY FS_Union
<1>2. IsFiniteSet(S \cap T)
  BY FS_Intersection
<1>3. Cardinality(S) \in Nat /\ Cardinality(T) \in Nat /\ Cardinality(S \cap T) \in Nat
  BY <1>2, FS_CardinalityType
<1>4. A \subseteq U
  OBVIOUS
<1> HIDE DEF U
<1>5. IsFiniteSet(A) /\ Cardinality(A) \in Nat /\ Cardinality(A) <= Cardinality(U) /\ Cardinality(U) \in Nat
  BY <1>1, <1>4, Fewer
<1> QED
  BY <1>1, <1>3, <1>5

\* At most one element is new.
LEMMA OneMore ==
    ASSUME NEW S, NEW x, NEW A, A \subseteq S \cup {x}, IsFiniteSet(S)
    PROVE  IsFiniteSet(A) /\ Cardinality(A) \in Nat /\ Cardinality(S) \in Nat /\ Cardinality(A) <= Cardinality(S) + 1
<1>1. IsFiniteSet({x}) /\ Cardinality({x}) = 1
  BY FS_Singleton
<1> QED
  BY <1>1, Both

\* At least one element is gone.
LEMMA OneLess ==
    ASSUME NEW S, NEW x \in S, NEW A, A \subseteq S \ {x}, IsFiniteSet(S)
    PROVE  IsFiniteSet(A) /\ Cardinality(A) \in Nat /\ Cardinality(S) \in Nat /\ Cardinality(A) + 1 <= Cardinality(S)
<1> DEFINE R == S \ {x}
<1>1. IsFiniteSet(R) /\ Cardinality(R) = Cardinality(S) - 1
  BY FS_RemoveElement
<1>2. Cardinality(S) \in Nat
  BY FS_CardinalityType
<1> HIDE DEF R
<1>3. IsFiniteSet(A) /\ Cardinality(A) \in Nat /\ Cardinality(A) <= Cardinality(R) /\ Cardinality(R) \in Nat
  BY <1>1, Fewer DEF R
<1> QED
  BY <1>1, <1>2, <1>3

\* Fewer sessions, fewer logins, or a login that has evicted one.
LEMMA BoundedLess ==
    ASSUME IsFiniteSet(Procs), NEW L, IsFiniteSet(L), NEW L2, L2 \subseteq L,
           NEW C \in SUBSET Procs, NEW C2 \in SUBSET C, NEW D \in SUBSET Procs, NEW D2 \in SUBSET D,
           NEW ps, NEW ps2,
           \A p \in D2 : L2 \ ps2[p].todo \subseteq L \ ps[p].todo /\ Room(ps2[p]) >= Room(ps[p]),
           Bounded(L, C, D, ps)
    PROVE  Bounded(L2, C2, D2, ps2)
<1>1. PICK rank \in [Procs -> Nat], b \in Nat, n \in Nat :
          (\A q \in Procs : rank[q] < n) /\ Ranked(L, C, D, ps, rank, b)
  BY DEF Bounded
<1>0. MaxSessions \in Nat /\ Cardinality(Procs) \in Nat /\ \A r : Room(r) \in Nat
  BY ConstantsAssumption, FS_CardinalityType DEF Room
<1>2. Cardinality(L2) + Cardinality(C2 \cup {q \in D2 : rank[q] < b}) <= MaxSessions + Cardinality(Procs)
  <2> DEFINE W == C \cup {q \in D : rank[q] < b}
             W2 == C2 \cup {q \in D2 : rank[q] < b}
  <2>1. W \subseteq Procs /\ W2 \subseteq W
    OBVIOUS
  <2>2. Cardinality(L) + Cardinality(W) <= MaxSessions + Cardinality(Procs)
    BY <1>1 DEF Ranked
  <2> HIDE DEF W, W2
  <2>3. IsFiniteSet(W) /\ Cardinality(W) \in Nat
    BY <2>1, Fewer
  <2>4. Cardinality(W2) \in Nat /\ Cardinality(W2) <= Cardinality(W)
    BY <2>1, <2>3, Fewer
  <2>5. Cardinality(L2) \in Nat /\ Cardinality(L) \in Nat /\ Cardinality(L2) <= Cardinality(L)
    BY Fewer
  <2>6. Cardinality(L2) + Cardinality(W2) <= MaxSessions + Cardinality(Procs)
    BY <1>0, <2>2, <2>3, <2>4, <2>5
  <2> QED
    BY <2>6 DEF W2
<1>3. ASSUME NEW p \in D2, rank[p] >= b
      PROVE  Cardinality(L2 \ ps2[p].todo) + Cardinality(C2 \cup Older(D2, rank, p)) + 1 <= Room(ps2[p]) + Cardinality(Procs)
  <2> DEFINE W == C \cup Older(D, rank, p)
             W2 == C2 \cup Older(D2, rank, p)
             M == L \ ps[p].todo
             M2 == L2 \ ps2[p].todo
  <2>1. W \subseteq Procs /\ W2 \subseteq W /\ M \subseteq L /\ M2 \subseteq M
    BY DEF Older
  <2>2. Cardinality(M) + Cardinality(W) + 1 <= Room(ps[p]) + Cardinality(Procs)
    BY <1>1, <1>3 DEF Ranked
  <2> HIDE DEF W, W2, M, M2
  <2>3. IsFiniteSet(W) /\ Cardinality(W) \in Nat /\ IsFiniteSet(M) /\ Cardinality(M) \in Nat
    BY <2>1, Fewer
  <2>4. Cardinality(W2) \in Nat /\ Cardinality(W2) <= Cardinality(W) /\ Cardinality(M2) \in Nat /\ Cardinality(M2) <= Cardinality(M)
    BY <2>1, <2>3, Fewer
  <2>5. Room(ps2[p]) >= Room(ps[p]) /\ Room(ps2[p]) \in Nat /\ Room(ps[p]) \in Nat
    BY <1>0
  <2>6. Cardinality(M2) + Cardinality(W2) + 1 <= Room(ps2[p]) + Cardinality(Procs)
    BY <1>0, <2>2, <2>3, <2>4, <2>5
  <2> QED
    BY <2>6 DEF W2, M2
<1>4. Ranked(L2, C2, D2, ps2, rank, b)
  BY <1>2, <1>3 DEF Ranked
<1> QED
  BY <1>1, <1>4 DEF Bounded

\* A login reads the index: it is the last, and all that is listed is on its list.
LEMMA BoundedRead ==
    ASSUME IsFiniteSet(Procs), NEW L, IsFiniteSet(L),
           NEW C \in SUBSET Procs, NEW D \in SUBSET Procs, NEW p \in Procs, p \notin C, p \notin D,
           NEW ps, NEW ps2, \A q \in Procs \ {p} : ps2[q] = ps[q],
           L \subseteq ps2[p].todo,
           Bounded(L, C, D, ps)
    PROVE  Bounded(L, C, D \cup {p}, ps2)
<1>1. PICK rank \in [Procs -> Nat], b \in Nat, n \in Nat :
          (\A q \in Procs : rank[q] < n) /\ Ranked(L, C, D, ps, rank, b)
  BY DEF Bounded
<1>0. MaxSessions \in Nat /\ Cardinality(Procs) \in Nat /\ \A r : Room(r) \in Nat
  BY ConstantsAssumption, FS_CardinalityType DEF Room
<1> DEFINE top == IF b <= n THEN n ELSE b
           rank2 == [rank EXCEPT ![p] = top]
           D2 == D \cup {p}
<1>2. top \in Nat /\ top >= b /\ top >= n /\ rank2 \in [Procs -> Nat] /\ rank2[p] = top
  BY <1>1
<1>3. \A q \in Procs \ {p} : rank2[q] = rank[q] /\ rank2[q] < top
  BY <1>1, <1>2
<1> HIDE DEF top, rank2
<1>4. {q \in D2 : rank2[q] < b} = {q \in D : rank[q] < b}
  BY <1>2, <1>3
<1>5. \A q \in D : Older(D2, rank2, q) = Older(D, rank, q)
  <2> SUFFICES ASSUME NEW q \in D PROVE Older(D2, rank2, q) = Older(D, rank, q)
    OBVIOUS
  <2>1. q \in Procs \ {p} /\ rank2[q] = rank[q] /\ rank[q] \in Nat /\ ~(rank2[p] <= rank2[q])
    BY <1>1, <1>2, <1>3
  <2> QED
    BY <1>3, <2>1 DEF Older
<1>6. Ranked(L, C, D2, ps2, rank2, b)
  <2>1. Cardinality(L) + Cardinality(C \cup {q \in D2 : rank2[q] < b}) <= MaxSessions + Cardinality(Procs)
    BY <1>1, <1>4 DEF Ranked
  <2>2. ASSUME NEW q \in D2, rank2[q] >= b
        PROVE  Cardinality(L \ ps2[q].todo) + Cardinality(C \cup Older(D2, rank2, q)) + 1 <= Room(ps2[q]) + Cardinality(Procs)
    <3>1. CASE q = p
      <4> DEFINE W == C \cup Older(D2, rank2, p)
      <4>1. W \subseteq Procs \ {p}
        BY DEF Older
      <4> HIDE DEF W
      <4>2. Cardinality(W) \in Nat /\ Cardinality(W) + 1 <= Cardinality(Procs)
        BY <4>1, OneLess
      <4>3. Cardinality(L \ ps2[p].todo) = 0
        <5>1. L \ ps2[p].todo = {}
          OBVIOUS
        <5> QED
          BY <5>1, FS_EmptySet
      <4>4. Room(ps2[p]) \in Nat /\ Cardinality(Procs) \in Nat
        BY <1>0
      <4>5. Cardinality(L \ ps2[p].todo) + Cardinality(W) + 1 <= Room(ps2[p]) + Cardinality(Procs)
        BY <4>2, <4>3, <4>4
      <4> QED
        BY <3>1, <4>5 DEF W
    <3>2. CASE q # p
      <4>1. q \in D /\ rank[q] >= b /\ ps2[q] = ps[q]
        BY <1>3, <2>2, <3>2
      <4> QED
        BY <1>1, <1>5, <4>1 DEF Ranked
    <3> QED
      BY <3>1, <3>2
  <2> QED
    BY <2>1, <2>2 DEF Ranked
<1>7. \A q \in Procs : rank2[q] < top + 1
  BY <1>2, <1>3
<1> QED
  BY <1>2, <1>6, <1>7 DEF Bounded

\* A login that finds no more than the limit is through.
LEMMA BoundedPass ==
    ASSUME IsFiniteSet(Procs), NEW L, IsFiniteSet(L), Cardinality(L) <= MaxSessions,
           NEW C \in SUBSET Procs, NEW D \in SUBSET Procs, NEW ps,
           Bounded(L, {}, D, ps)
    PROVE  Bounded(L, C, D, ps)
<1>1. PICK rank \in [Procs -> Nat], b \in Nat, n \in Nat :
          (\A q \in Procs : rank[q] < n) /\ Ranked(L, {}, D, ps, rank, b)
  BY DEF Bounded
<1> DEFINE W == C \cup {q \in D : rank[q] < n}
<1>2. W \subseteq Procs
  OBVIOUS
<1> HIDE DEF W
<1>3. Cardinality(W) \in Nat /\ Cardinality(Procs) \in Nat /\ Cardinality(W) <= Cardinality(Procs) /\ Cardinality(L) \in Nat
  BY <1>2, Fewer
<1>4. Cardinality(L) + Cardinality(W) <= MaxSessions + Cardinality(Procs)
  BY <1>3, ConstantsAssumption
<1>5. \A q \in D : ~(rank[q] >= n)
  BY <1>1
<1> QED
  BY <1>1, <1>4, <1>5 DEF Ranked, Bounded, W

\* It chooses what to evict, and keeps MaxSessions of what it read.
LEMMA BoundedChoose ==
    ASSUME IsFiniteSet(Procs), NEW L, IsFiniteSet(L),
           NEW C \in SUBSET Procs, NEW D \in SUBSET Procs, NEW p \in D,
           NEW ps, NEW ps2, \A q \in Procs \ {p} : ps2[q] = ps[q],
           ps[p].pc = "ages", ps2[p].pc # "ages",
           IsFiniteSet(ps[p].todo \ ps2[p].todo), Cardinality(ps[p].todo \ ps2[p].todo) = MaxSessions,
           Bounded(L, C, D, ps)
    PROVE  Bounded(L, C, D, ps2)
<1>1. PICK rank \in [Procs -> Nat], b \in Nat, n \in Nat :
          (\A q \in Procs : rank[q] < n) /\ Ranked(L, C, D, ps, rank, b)
  BY DEF Bounded
<1>2. ASSUME NEW q \in D, rank[q] >= b
      PROVE  Cardinality(L \ ps2[q].todo) + Cardinality(C \cup Older(D, rank, q)) + 1 <= Room(ps2[q]) + Cardinality(Procs)
  <2>1. Cardinality(L \ ps[q].todo) + Cardinality(C \cup Older(D, rank, q)) + 1 <= Room(ps[q]) + Cardinality(Procs)
    BY <1>1, <1>2 DEF Ranked
  <2>2. CASE q # p
    BY <2>1, <2>2
  <2>3. CASE q = p
    <3> DEFINE W == C \cup Older(D, rank, p)
               K == ps[p].todo \ ps2[p].todo
               M == L \ ps[p].todo
               M2 == L \ ps2[p].todo
    <3>1. W \subseteq Procs /\ M \subseteq L /\ M2 \subseteq M \cup K
      BY DEF Older
    <3>2. Cardinality(M) + Cardinality(W) + 1 <= Cardinality(Procs)
      <4>1. Cardinality(Procs) \in Nat /\ Room(ps[p]) = 0
        BY FS_CardinalityType DEF Room
      <4> QED
        BY <2>1, <2>3, <4>1
    <3>3. IsFiniteSet(K) /\ Cardinality(K) = MaxSessions
      OBVIOUS
    <3> HIDE DEF W, K, M, M2
    <3>4. Cardinality(W) \in Nat /\ Cardinality(Procs) \in Nat /\ IsFiniteSet(M) /\ Cardinality(M) \in Nat
      BY <3>1, Fewer
    <3>5. Cardinality(M2) \in Nat /\ Cardinality(M2) <= Cardinality(M) + MaxSessions
      BY <3>1, <3>3, <3>4, Both
    <3>6. Cardinality(M2) + Cardinality(W) + 1 <= MaxSessions + Cardinality(Procs)
      BY <3>2, <3>4, <3>5, ConstantsAssumption
    <3>7. Room(ps2[p]) = MaxSessions
      BY DEF Room
    <3> QED
      BY <2>3, <3>6, <3>7 DEF M2, W
  <2> QED
    BY <2>2, <2>3
<1> QED
  BY <1>1, <1>2 DEF Ranked, Bounded

\* It has evicted them all, and will add its own: if it read the index after the last
\* that had done, it is the last now.
LEMMA BoundedDone ==
    ASSUME IsFiniteSet(Procs), NEW L, IsFiniteSet(L), NEW L2, L2 \subseteq L,
           NEW C \in SUBSET Procs, NEW D \in SUBSET Procs, NEW p \in D,
           NEW ps, NEW ps2, \A q \in Procs \ {p} : ps2[q] = ps[q],
           ps[p].pc # "ages", L2 \subseteq L \ ps[p].todo,
           Bounded(L, C, D, ps)
    PROVE  Bounded(L2, C \cup {p}, D \ {p}, ps2)
<1>1. PICK rank \in [Procs -> Nat], b \in Nat, n \in Nat :
          (\A q \in Procs : rank[q] < n) /\ Ranked(L, C, D, ps, rank, b)
  BY DEF Bounded
<1> DEFINE C2 == C \cup {p}
           D2 == D \ {p}
<1>0. MaxSessions \in Nat /\ Cardinality(Procs) \in Nat
  BY ConstantsAssumption, FS_CardinalityType
\* Who read the index after p counts p among the older, before and now.
<1>2. ASSUME NEW q \in D2, rank[q] >= b, rank[q] >= rank[p]
      PROVE  Cardinality(L2 \ ps2[q].todo) + Cardinality(C2 \cup Older(D2, rank, q)) + 1 <= Room(ps2[q]) + Cardinality(Procs)
  <2>1. Cardinality(L \ ps[q].todo) + Cardinality(C \cup Older(D, rank, q)) + 1 <= Room(ps[q]) + Cardinality(Procs)
    BY <1>1, <1>2 DEF Ranked
  <2>2. C2 \cup Older(D2, rank, q) = C \cup Older(D, rank, q)
    <3>1. p \in Older(D, rank, q)
      BY <1>1, <1>2 DEF Older
    <3> QED
      BY <3>1 DEF Older
  <2>3. ps2[q] = ps[q]
    OBVIOUS
  <2> DEFINE W == C \cup Older(D, rank, q)
             M == L \ ps[q].todo
             M2 == L2 \ ps[q].todo
  <2>4. W \subseteq Procs /\ M \subseteq L /\ M2 \subseteq M
    BY DEF Older
  <2>5. Room(ps[q]) \in Nat
    BY <1>0 DEF Room
  <2> HIDE DEF W, M, M2
  <2>6. Cardinality(W) \in Nat /\ IsFiniteSet(M) /\ Cardinality(M) \in Nat
    BY <2>4, Fewer
  <2>7. Cardinality(M2) \in Nat /\ Cardinality(M2) <= Cardinality(M)
    BY <2>4, <2>6, Fewer
  <2>8. Cardinality(M2) + Cardinality(W) + 1 <= Room(ps[q]) + Cardinality(Procs)
    BY <1>0, <2>1, <2>5, <2>6, <2>7 DEF M, W
  <2> QED
    BY <2>2, <2>3, <2>8 DEF M2, W
<1>3. CASE rank[p] < b
  <2>1. C2 \cup {q \in D2 : rank[q] < b} = C \cup {q \in D : rank[q] < b}
    BY <1>3
  <2>2. Cardinality(L2) + Cardinality(C2 \cup {q \in D2 : rank[q] < b}) <= MaxSessions + Cardinality(Procs)
    <3> DEFINE W == C \cup {q \in D : rank[q] < b}
    <3>1. W \subseteq Procs /\ Cardinality(L) + Cardinality(W) <= MaxSessions + Cardinality(Procs)
      BY <1>1 DEF Ranked
    <3> HIDE DEF W
    <3>2. Cardinality(W) \in Nat /\ Cardinality(L) \in Nat /\ Cardinality(L2) \in Nat /\ Cardinality(L2) <= Cardinality(L)
      BY <3>1, Fewer
    <3>3. Cardinality(L2) + Cardinality(W) <= MaxSessions + Cardinality(Procs)
      BY <1>0, <3>1, <3>2
    <3> QED
      BY <2>1, <3>3 DEF W
  <2>3. \A q \in D2 : rank[q] >= b => rank[q] >= rank[p]
    BY <1>1, <1>3
  <2>4. Ranked(L2, C2, D2, ps2, rank, b)
    BY <1>2, <2>2, <2>3 DEF Ranked
  <2> QED
    BY <1>1, <2>4 DEF Bounded
<1>4. CASE rank[p] >= b
  <2> DEFINE W == C2 \cup {q \in D2 : rank[q] < rank[p]}
             V == C \cup Older(D, rank, p)
             M == L \ ps[p].todo
  <2>1. Cardinality(M) + Cardinality(V) + 1 <= MaxSessions + Cardinality(Procs)
    <3>1. Room(ps[p]) = MaxSessions
      BY DEF Room
    <3> QED
      BY <1>1, <1>4, <3>1 DEF Ranked
  <2>2. V \subseteq Procs /\ W \subseteq V \cup {p} /\ M \subseteq L /\ L2 \subseteq M
    <3>1. {q \in D2 : rank[q] < rank[p]} \subseteq Older(D, rank, p)
      BY <1>1 DEF Older
    <3> QED
      BY <3>1 DEF Older
  <2> HIDE DEF W, V, M
  <2>3. IsFiniteSet(V) /\ Cardinality(V) \in Nat /\ IsFiniteSet(M) /\ Cardinality(M) \in Nat
    BY <2>2, Fewer
  <2>4. Cardinality(W) \in Nat /\ Cardinality(W) <= Cardinality(V) + 1
    BY <2>2, <2>3, OneMore
  <2>5. Cardinality(L2) \in Nat /\ Cardinality(L2) <= Cardinality(M)
    BY <2>2, <2>3, Fewer
  <2>6. Cardinality(L2) + Cardinality(W) <= MaxSessions + Cardinality(Procs)
    BY <1>0, <2>1, <2>3, <2>4, <2>5
  <2>7. \A q \in D2 : rank[q] >= rank[p] => rank[q] >= b
    BY <1>1, <1>4
  <2>8. Ranked(L2, C2, D2, ps2, rank, rank[p])
    BY <1>2, <2>6, <2>7 DEF Ranked, W
  <2> QED
    BY <1>1, <2>8 DEF Bounded
<1> QED
  BY <1>1, <1>3, <1>4

\* A login adds its session.
LEMMA BoundedAdd ==
    ASSUME IsFiniteSet(Procs), NEW L, IsFiniteSet(L), NEW L2, NEW h, L2 \subseteq L \cup {h},
           NEW C \in SUBSET Procs, NEW D \in SUBSET Procs, NEW p \in C, p \notin D,
           NEW ps, NEW ps2, \A q \in Procs \ {p} : ps2[q] = ps[q],
           Bounded(L, C, D, ps)
    PROVE  Bounded(L2, C \ {p}, D, ps2)
<1>1. PICK rank \in [Procs -> Nat], b \in Nat, n \in Nat :
          (\A q \in Procs : rank[q] < n) /\ Ranked(L, C, D, ps, rank, b)
  BY DEF Bounded
<1>0. MaxSessions \in Nat /\ Cardinality(Procs) \in Nat
  BY ConstantsAssumption, FS_CardinalityType
\* One session more, one login less.
<1>2. ASSUME NEW X, X \subseteq D, NEW M, IsFiniteSet(M), NEW M2, M2 \subseteq M \cup {h}
      PROVE  /\ Cardinality(M2) \in Nat /\ Cardinality(M) \in Nat
             /\ Cardinality((C \ {p}) \cup X) \in Nat /\ Cardinality(C \cup X) \in Nat
             /\ Cardinality(M2) + Cardinality((C \ {p}) \cup X) <= Cardinality(M) + Cardinality(C \cup X)
  <2> DEFINE W == C \cup X
             W2 == (C \ {p}) \cup X
  <2>1. W \subseteq Procs /\ p \in W /\ W2 \subseteq W \ {p}
    BY <1>2
  <2> HIDE DEF W, W2
  <2>2. IsFiniteSet(W)
    BY <2>1, Fewer
  <2>3. Cardinality(W2) \in Nat /\ Cardinality(W) \in Nat /\ Cardinality(W2) + 1 <= Cardinality(W)
    BY <2>1, <2>2, OneLess
  <2>4. Cardinality(M2) \in Nat /\ Cardinality(M) \in Nat /\ Cardinality(M2) <= Cardinality(M) + 1
    BY <1>2, OneMore
  <2>5. Cardinality(M2) + Cardinality(W2) <= Cardinality(M) + Cardinality(W)
    BY <2>3, <2>4
  <2> QED
    BY <2>3, <2>4, <2>5 DEF W, W2
<1>3. Cardinality(L2) + Cardinality((C \ {p}) \cup {q \in D : rank[q] < b}) <= MaxSessions + Cardinality(Procs)
  <2> DEFINE X == {q \in D : rank[q] < b}
  <2>1. X \subseteq D /\ Cardinality(L) + Cardinality(C \cup X) <= MaxSessions + Cardinality(Procs)
    BY <1>1 DEF Ranked
  <2> HIDE DEF X
  <2>2. /\ Cardinality(L2) \in Nat /\ Cardinality(L) \in Nat
        /\ Cardinality((C \ {p}) \cup X) \in Nat /\ Cardinality(C \cup X) \in Nat
        /\ Cardinality(L2) + Cardinality((C \ {p}) \cup X) <= Cardinality(L) + Cardinality(C \cup X)
    BY <1>2, <2>1
  <2>3. Cardinality(L2) + Cardinality((C \ {p}) \cup X) <= MaxSessions + Cardinality(Procs)
    BY <1>0, <2>1, <2>2
  <2> QED
    BY <2>3 DEF X
<1>4. ASSUME NEW q \in D, rank[q] >= b
      PROVE  Cardinality(L2 \ ps2[q].todo) + Cardinality((C \ {p}) \cup Older(D, rank, q)) + 1 <= Room(ps2[q]) + Cardinality(Procs)
  <2> DEFINE X == Older(D, rank, q)
             M == L \ ps[q].todo
             M2 == L2 \ ps[q].todo
             R == Room(ps[q])
  <2>1. Cardinality(M) + Cardinality(C \cup X) + 1 <= R + Cardinality(Procs)
    BY <1>1, <1>4 DEF Ranked
  <2>2. ps2[q] = ps[q]
    OBVIOUS
  <2>3. X \subseteq D /\ M \subseteq L /\ M2 \subseteq M \cup {h} /\ R \in Nat
    BY <1>0 DEF Older, Room
  <2> HIDE DEF X, M, M2, R
  <2>4. IsFiniteSet(M)
    BY <2>3, Fewer
  <2>5. /\ Cardinality(M2) \in Nat /\ Cardinality(M) \in Nat
        /\ Cardinality((C \ {p}) \cup X) \in Nat /\ Cardinality(C \cup X) \in Nat
        /\ Cardinality(M2) + Cardinality((C \ {p}) \cup X) <= Cardinality(M) + Cardinality(C \cup X)
    BY <1>2, <2>3, <2>4
  <2>6. Cardinality(M2) + Cardinality((C \ {p}) \cup X) + 1 <= R + Cardinality(Procs)
    BY <1>0, <2>1, <2>3, <2>5
  <2> QED
    BY <2>2, <2>6 DEF X, M2, R
<1>5. Ranked(L2, C \ {p}, D, ps2, rank, b)
  BY <1>3, <1>4 DEF Ranked
<1> QED
  BY <1>1, <1>5 DEF Bounded

-----------------------------------------------------------------------------
(* Steps, as far as the limit is concerned *)

Deciding == {"ages", "purge", "srem", "unlink"}
Arriving == {"insert", "hset", "ttl", "sadd"}

\* The places of each operation.
PlaceOf(r) ==
    /\ r.op = "login" => r.pc \in {"members", "commit"} \cup Deciding \cup Arriving
    /\ r.op = "anonymous" => r.pc \in {"insert", "hset", "ttl", "commit"}
    /\ r.op = "resolve" => r.pc \in {"get", "touch", "extend", "select"}
    /\ r.op = "idle" => r.pc = "idle"

Places == \A p \in Procs : PlaceOf(proc[p])

OthersStay(p) == \A q \in Procs \ {p} : proc'[q] = proc[q]

Kept == UNCHANGED <<owner, born, clock>>

NoneFilled == \A h \in Hashes : hashKey'[h] = "full" => hashKey[h] = "full"

\* A request that creates a session goes from its insert to its commit; any other
\* goes on without one, and either may end.
Follows(r, s) ==
    \/ s.op = "idle" \/ (s.op = r.op /\ r.op \notin {"login", "anonymous"})
    \/ /\ s.op = r.op /\ s.h = r.h /\ s.todo = r.todo /\ s.unread = r.unread /\ s.blank \subseteq r.blank
       /\ r.pc \in Arriving /\ s.pc \in {"hset", "ttl", "sadd", "commit"}

\* Steps that neither read what the limit counts nor add to it.
TameStep(p) ==
    /\ Kept /\ OthersStay(p) /\ NoneFilled /\ redisUp' = redisUp
    /\ \/ index' = index
       \/ proc[p].pc = "srem" /\ proc[p].op # "login" /\ \A u \in Users : index'[u] \subseteq index[u]
    /\ Follows(proc[p], proc'[p])

\* The steps of enforce_concurrent_limit.
LimitStep(p) ==
    /\ proc[p].op = "login"
    /\ \/ Members(p) \/ ReadAge(p) \/ ChooseEvicted(p)
       \/ \E t \in Hashes : PurgeRead(p, t)
       \/ RemoveFromIndex(p) \/ Unlink(p)

\* What Skip leaves of the request.
LEMMA SkipIs ==
    ASSUME TypeOK, NEW p \in Procs, NEW t, Skip(p, t)
    PROVE  LET left == proc[p].todo \ {t}
               s == proc'[p]
           IN  /\ s.op = proc[p].op /\ s.h = proc[p].h /\ s.todo = left /\ s.pc = AfterPurge(p, left)
               /\ s.unread = proc[p].unread /\ s.blank = proc[p].blank
               /\ OthersStay(p)
<1> DEFINE left == proc[p].todo \ {t}
           label == AfterPurge(p, left)
           r == [proc[p] EXCEPT !.pc = label, !.todo = left, !.key = None]
<1>1. Become(p, r) /\ proc[p] \in Request
  BY DEF Skip, TypeOK
<1>2. proc'[p] = r /\ OthersStay(p)
  BY <1>1, BecomeIs DEF OthersStay
<1> HIDE DEF label, left
<1> QED
  BY <1>1, <1>2 DEF Request, label, left

\* What Goto leaves of the request.
LEMMA GotoIs ==
    ASSUME TypeOK, NEW p \in Procs, NEW label, Goto(p, label)
    PROVE  LET s == proc'[p]
           IN  /\ s.pc = label /\ s.op = proc[p].op /\ s.h = proc[p].h /\ s.todo = proc[p].todo /\ s.key = proc[p].key
               /\ s.unread = proc[p].unread /\ s.blank = proc[p].blank
               /\ OthersStay(p)
<1>1. proc[p] \in Request /\ Become(p, [proc[p] EXCEPT !.pc = label])
  BY DEF TypeOK, Goto
<1>2. proc'[p] = [proc[p] EXCEPT !.pc = label] /\ OthersStay(p)
  BY <1>1, BecomeIs DEF OthersStay
<1> QED
  BY <1>1, <1>2 DEF Request

\* A request that ends is tame.
LEMMA IdleIs ==
    ASSUME TypeOK, NEW p \in Procs, Become(p, Idle)
    PROVE  proc'[p] = Idle /\ OthersStay(p) /\ Follows(proc[p], proc'[p]) /\ PlaceOf(proc'[p])
<1>1. proc'[p] = Idle /\ OthersStay(p)
  BY BecomeIs DEF OthersStay
<1> QED
  BY <1>1 DEF Follows, PlaceOf, Idle

\* delete_session, called by a request that is no login.
LEMMA OtherPurgeTame ==
    ASSUME IInv, Places, NEW p \in Procs, proc[p].op # "login",
           (\E t \in Hashes : PurgeRead(p, t)) \/ RemoveFromIndex(p) \/ Unlink(p)
    PROVE  TameStep(p) /\ PlaceOf(proc'[p])
<1>0. TypeOK /\ proc[p] \in Request /\ PlaceOf(proc[p])
  BY DEF IInv, TypeOK, Places
<1>1. proc[p].pc \in {"purge", "srem", "unlink"}
  BY DEF PurgeRead, RemoveFromIndex, Unlink, At
<1>2. proc[p].op \notin {"login", "anonymous", "resolve", "idle"}
  BY <1>0, <1>1 DEF PlaceOf
<1>skip. ASSUME NEW t, Skip(p, t) PROVE proc'[p].op = proc[p].op /\ OthersStay(p)
  BY <1>0, <1>skip, SkipIs
<1>3. CASE \E t \in Hashes : PurgeRead(p, t)
  <2>1. PICK t \in Hashes : PurgeRead(p, t)
    BY <1>3
  <2> DEFINE label == IF hashKey[t] = "full" /\ owner[t] \in Users THEN "srem" ELSE "unlink"
             r == [proc[p] EXCEPT !.key = t, !.pc = label]
  <2>2. r.op = proc[p].op
    BY <1>0 DEF Request
  <2>3. Become(p, r) \/ Skip(p, t)
    BY <2>1 DEF PurgeRead
  <2> HIDE DEF r
  <2>4. proc'[p].op = proc[p].op /\ OthersStay(p)
    BY <1>0, <1>skip, <2>2, <2>3, BecomeIs DEF OthersStay
  <2>5. UNCHANGED <<issue, store>>
    BY <2>1 DEF PurgeRead
  <2> QED
    BY <1>2, <2>4, <2>5 DEF TameStep, Follows, PlaceOf, Kept, NoneFilled, issue, store
<1>4. CASE RemoveFromIndex(p)
  <2>1. proc'[p].op = proc[p].op /\ OthersStay(p)
    BY <1>0, <1>4, <1>skip, GotoIs DEF RemoveFromIndex
  <2>2. UNCHANGED <<issue, hashKey, redisUp>>
    BY <1>4 DEF RemoveFromIndex
  <2>3. index' = index \/ index' = [index EXCEPT ![owner[proc[p].key]] = @ \ {proc[p].key}]
    BY <1>4 DEF RemoveFromIndex
  <2>4. \A u \in Users : index'[u] \subseteq index[u]
    BY <1>0, <2>3 DEF TypeOK
  <2>5. proc[p].pc = "srem"
    BY <1>4 DEF RemoveFromIndex, At
  <2> QED
    BY <1>2, <2>1, <2>2, <2>4, <2>5 DEF TameStep, Follows, PlaceOf, Kept, NoneFilled, issue
<1>5. CASE Unlink(p)
  <2> DEFINE t == proc[p].key
             left == proc[p].todo \ {t}
             label == AfterPurge(p, left)
             r == [proc[p] EXCEPT !.pc = label, !.todo = left, !.key = None, !.done = @ \cup {t}]
  <2>1. Become(p, r) \/ Skip(p, t)
    BY <1>5 DEF Unlink
  <2>2. r.op = proc[p].op
    <3> HIDE DEF label, left, t
    <3> QED
      BY <1>0 DEF Request
  <2> HIDE DEF r
  <2>3. proc'[p].op = proc[p].op /\ OthersStay(p)
    BY <1>0, <1>skip, <2>1, <2>2, BecomeIs DEF OthersStay
  <2>4. UNCHANGED <<issue, index, redisUp>>
    BY <1>5 DEF Unlink
  <2>5. NoneFilled
    <3>1. hashKey' = hashKey \/ hashKey' = [hashKey EXCEPT ![t] = "absent"]
      BY <1>5 DEF Unlink
    <3> QED
      BY <1>0, <3>1 DEF NoneFilled, TypeOK
  <2> QED
    BY <1>2, <2>3, <2>4, <2>5 DEF TameStep, Follows, PlaceOf, Kept, issue
<1> QED
  BY <1>3, <1>4, <1>5

\* The handler returns.
LEMMA RespondIs ==
    ASSUME TypeOK, NEW p \in Procs, Respond(p), proc[p].pc \in Arriving
    PROVE  OthersStay(p) /\ Follows(proc[p], proc'[p]) /\ (PlaceOf(proc[p]) => PlaceOf(proc'[p]))
<1>1. Goto(p, "commit")
  BY DEF Respond
<1> QED
  BY <1>1, GotoIs DEF Follows, PlaceOf, Arriving

\* Every step but those of the limit, of delete_session, and the two writes of a
\* new session that the limit counts.
LEMMA OtherTame ==
    ASSUME IInv, Places, NEW p \in Procs,
           \/ Insert(p) \/ WriteTtl(p) \/ Flush(p) \/ Commit(p) \/ CommitFails(p)
           \/ ReadKey(p) \/ Touch(p) \/ Extend(p) \/ SelectRow(p) \/ OutOfTokens(p)
           \/ ~redisUp /\ (WriteHash(p) \/ AddToIndex(p))
    PROVE  TameStep(p) /\ PlaceOf(proc'[p])
<1>0. TypeOK /\ proc[p] \in Request /\ PlaceOf(proc[p]) /\ ShapeOf(owner, proc[p])
  BY DEF IInv, TypeOK, Places, Shape
<1> USE DEF TameStep, Kept, NoneFilled, issue, store
<1>goto. ASSUME NEW label, Goto(p, label),
                \/ proc[p].op \notin {"login", "anonymous"}
                \/ proc[p].pc \in Arriving /\ label \in {"hset", "ttl", "sadd", "commit"},
                PlaceOf([proc[p] EXCEPT !.pc = label])
         PROVE  OthersStay(p) /\ Follows(proc[p], proc'[p]) /\ PlaceOf(proc'[p])
  <2>1. /\ OthersStay(p)
        /\ LET s == proc'[p] IN s.op = proc[p].op /\ s.h = proc[p].h /\ s.todo = proc[p].todo
                                /\ s.unread = proc[p].unread /\ s.blank = proc[p].blank /\ s.pc = label
    BY <1>0, <1>goto, GotoIs
  <2>2. PlaceOf(proc'[p])
    BY <1>0, <1>goto, <2>1 DEF PlaceOf, Request
  <2> QED
    BY <1>goto, <2>1, <2>2 DEF Follows
<1>1. CASE Insert(p)
  <2> DEFINE r == [proc[p] EXCEPT !.pc = "hset", !.blank = {}, !.done = {}]
  <2>1. Become(p, Idle) \/ Become(p, r)
    BY <1>1 DEF Insert
  <2>2. CASE Become(p, r)
    <3>1. proc'[p] = r /\ OthersStay(p)
      BY <1>0, <2>2, BecomeIs DEF OthersStay
    <3>2. proc[p].pc = "insert" /\ proc[p].op \in {"login", "anonymous"}
      BY <1>0, <1>1 DEF Insert, At, ShapeOf
    <3>3. Follows(proc[p], r) /\ PlaceOf(r)
      BY <1>0, <3>2 DEF Follows, PlaceOf, Request, Arriving
    <3> QED
      BY <1>1, <3>1, <3>3 DEF Insert
  <2>3. CASE Become(p, Idle)
    BY <1>0, <1>1, <2>3, IdleIs DEF Insert
  <2> QED
    BY <2>1, <2>2, <2>3
<1>2. CASE WriteTtl(p)
  <2>1. proc[p].pc = "ttl" /\ proc[p].op \in {"login", "anonymous"}
    BY <1>0, <1>2 DEF WriteTtl, At, ShapeOf
  <2>2. (proc[p].op = "login" /\ Goto(p, "sadd")) \/ Respond(p)
    BY <1>2 DEF WriteTtl
  <2>3. OthersStay(p) /\ Follows(proc[p], proc'[p]) /\ PlaceOf(proc'[p])
    <3>1. CASE Respond(p)
      BY <1>0, <2>1, <3>1, RespondIs DEF Arriving
    <3>2. CASE proc[p].op = "login" /\ Goto(p, "sadd")
      <4>1. PlaceOf([proc[p] EXCEPT !.pc = "sadd"])
        BY <1>0, <3>2 DEF PlaceOf, Request, Arriving
      <4> QED
        BY <1>goto, <2>1, <3>2, <4>1 DEF Arriving
    <3> QED
      BY <2>2, <3>1, <3>2
  <2> QED
    BY <1>2, <2>3 DEF WriteTtl
<1>3. CASE Flush(p)
  <2>1. PICK label \in {"commit", "purge"} : Goto(p, label)
    BY <1>3 DEF Flush
  <2>2. proc[p].pc = "flush" /\ proc[p].op \notin {"login", "anonymous", "resolve", "idle"}
    BY <1>0, <1>3 DEF Flush, At, PlaceOf, Deciding, Arriving
  <2>3. PlaceOf([proc[p] EXCEPT !.pc = label])
    BY <1>0, <2>2 DEF PlaceOf, Request
  <2>4. OthersStay(p) /\ Follows(proc[p], proc'[p]) /\ PlaceOf(proc'[p])
    BY <1>goto, <2>1, <2>2, <2>3
  <2> QED
    BY <1>3, <2>4 DEF Flush
<1>4. CASE Commit(p) \/ CommitFails(p)
  <2>1. OthersStay(p) /\ Follows(proc[p], proc'[p]) /\ PlaceOf(proc'[p])
    BY <1>0, <1>4, IdleIs DEF Commit, CommitFails
  <2> QED
    BY <1>4, <2>1 DEF Commit, CommitFails
<1>5. CASE ReadKey(p)
  <2>1. PICK label \in {"touch", "select"} : Goto(p, label)
    BY <1>5 DEF ReadKey
  <2>2. proc[p].op = "resolve"
    BY <1>0, <1>5 DEF ReadKey, At, ShapeOf
  <2>3. PlaceOf([proc[p] EXCEPT !.pc = label])
    BY <1>0, <2>2 DEF PlaceOf, Request
  <2>4. OthersStay(p) /\ Follows(proc[p], proc'[p]) /\ PlaceOf(proc'[p])
    BY <1>goto, <2>1, <2>2, <2>3
  <2> QED
    BY <1>5, <2>4 DEF ReadKey
<1>6. CASE Touch(p)
  <2>1. proc[p].op = "resolve"
    BY <1>0, <1>6 DEF Touch, At, ShapeOf
  <2>2. PlaceOf([proc[p] EXCEPT !.pc = "extend"])
    BY <1>0, <2>1 DEF PlaceOf, Request
  <2>3. Goto(p, "extend") \/ Become(p, Idle)
    BY <1>6 DEF Touch
  <2>4. OthersStay(p) /\ Follows(proc[p], proc'[p]) /\ PlaceOf(proc'[p])
    BY <1>0, <1>goto, <2>1, <2>2, <2>3, IdleIs
  <2>5. NoneFilled
    BY <1>0, <1>6 DEF Touch, Touched, TypeOK
  <2> QED
    BY <1>6, <2>4, <2>5 DEF Touch
<1>7. CASE Extend(p) \/ SelectRow(p) \/ OutOfTokens(p)
  <2>1. OthersStay(p) /\ Follows(proc[p], proc'[p]) /\ PlaceOf(proc'[p])
    BY <1>0, <1>7, IdleIs DEF Extend, SelectRow, OutOfTokens
  <2> QED
    BY <1>7, <2>1 DEF Extend, SelectRow, OutOfTokens
<1>8. CASE ~redisUp /\ (WriteHash(p) \/ AddToIndex(p))
  <2>1. Respond(p) /\ proc[p].pc \in Arriving
    BY <1>8 DEF WriteHash, AddToIndex, At, Arriving
  <2>2. OthersStay(p) /\ Follows(proc[p], proc'[p]) /\ PlaceOf(proc'[p])
    BY <1>0, <2>1, RespondIs
  <2> QED
    BY <1>8, <2>2 DEF WriteHash, AddToIndex
<1> QED
  BY <1>1, <1>2, <1>3, <1>4, <1>5, <1>6, <1>7, <1>8

\* The steps of enforce_concurrent_limit, by what becomes of the login.
LimitMoves(p) ==
    LET r == proc[p]
        s == proc'[p]
        u == owner[r.h]
    IN  \/ \* Members
           /\ r.pc = "members" /\ UNCHANGED <<index, hashKey>> /\ s.blank = r.blank
           /\ \/ redisUp /\ Cardinality(index[u]) > MaxSessions /\ s.pc = "ages" /\ s.todo = index[u] /\ s.unread = index[u]
              \/ (redisUp => ~(Cardinality(index[u]) > MaxSessions)) /\ s.pc = "insert" /\ s.todo = r.todo /\ s.unread = r.unread
        \/ \* ReadAge
           /\ r.pc = "ages" /\ UNCHANGED <<index, hashKey>>
           /\ \/ /\ redisUp /\ s.pc = "ages" /\ s.todo = r.todo
                 /\ \E t \in r.unread : s.unread = r.unread \ {t} /\ s.blank = IF hashKey[t] = "full" THEN r.blank ELSE r.blank \cup {t}
              \/ ~redisUp /\ s.pc = "insert" /\ s.todo = {} /\ s.unread = {} /\ s.blank = {}
        \/ \* ChooseEvicted
           /\ r.pc = "ages" /\ r.unread = {} /\ s.pc = "purge" /\ UNCHANGED <<index, hashKey>> /\ s.blank = r.blank /\ s.unread = {}
           /\ s.todo \subseteq r.todo
           /\ Cardinality(s.todo) = Cardinality(r.todo) - MaxSessions
           /\ \A t \in s.todo, k \in r.todo \ s.todo : Age(p, t) <= Age(p, k)
        \/ \* PurgeRead
           /\ r.pc = "purge" /\ UNCHANGED <<index, hashKey>> /\ s.blank = r.blank /\ s.unread = r.unread
           /\ redisUp /\ s.todo = r.todo /\ s.key \in r.todo
           /\ \/ s.pc = "srem" /\ hashKey[s.key] = "full"
              \/ s.pc = "unlink" /\ ~(hashKey[s.key] = "full" /\ owner[s.key] \in Users)
        \/ \* RemoveFromIndex
           /\ r.pc = "srem" /\ s.pc = "unlink" /\ UNCHANGED hashKey /\ s.blank = r.blank /\ s.unread = r.unread
           /\ redisUp /\ s.todo = r.todo /\ s.key = r.key /\ index' = [index EXCEPT ![owner[r.key]] = @ \ {r.key}]
        \/ \* Unlink
           /\ r.pc = "unlink" /\ UNCHANGED index /\ s.blank = r.blank /\ s.unread = r.unread
           /\ redisUp /\ hashKey' = [hashKey EXCEPT ![r.key] = "absent"]
           /\ s.todo = r.todo \ {r.key} /\ s.pc = IF s.todo = {} THEN "insert" ELSE "purge"
        \/ \* no answer from Redis
           /\ ~redisUp /\ r.pc \in {"purge", "srem", "unlink"} /\ UNCHANGED <<index, hashKey>>
           /\ s.blank = r.blank /\ s.unread = r.unread
           /\ \E t : s.todo = r.todo \ {t} /\ s.pc = IF s.todo = {} THEN "insert" ELSE "purge"

\* Each step of enforce_concurrent_limit is one of the moves.
LEMMA LimitStepMoves ==
    ASSUME IInv, NEW p \in Procs, LimitStep(p)
    PROVE  /\ proc'[p].op = "login" /\ proc'[p].h = proc[p].h
           /\ OthersStay(p) /\ Kept /\ redisUp' = redisUp /\ NoneFilled
           /\ LimitMoves(p)
<1>0. TypeOK /\ proc[p] \in Request /\ ShapeOf(owner, proc[p]) /\ proc[p].op = "login"
  BY DEF IInv, TypeOK, Shape, LimitStep
<1> DEFINE Same == proc'[p].op = "login" /\ proc'[p].h = proc[p].h /\ OthersStay(p)
           Frame == Kept /\ redisUp' = redisUp /\ NoneFilled
<1>purged. \A left : AfterPurge(p, left) = IF left = {} THEN "insert" ELSE "purge"
  BY <1>0 DEF AfterPurge
<1>skip. ASSUME NEW t, Skip(p, t)
         PROVE  /\ Same /\ proc'[p].blank = proc[p].blank /\ proc'[p].unread = proc[p].unread
                /\ proc'[p].todo = proc[p].todo \ {t}
                /\ proc'[p].pc = IF proc'[p].todo = {} THEN "insert" ELSE "purge"
  BY <1>0, <1>skip, <1>purged, SkipIs
<1>1. CASE Members(p)
  <2> DEFINE members == index[owner[proc[p].h]]
             r == [proc[p] EXCEPT !.pc = "ages", !.todo = members, !.unread = members]
  <2>1. proc[p].pc = "members" /\ UNCHANGED <<issue, store>>
    BY <1>1 DEF Members, At
  <2>2. members \subseteq Hashes
    BY <1>0 DEF ShapeOf, TypeOK
  <2>4. CASE redisUp /\ Cardinality(members) > MaxSessions
    <3>1. proc'[p] = r /\ OthersStay(p)
      BY <1>0, <1>1, <2>4, BecomeIs DEF Members, OthersStay
    <3> HIDE DEF members
    <3>2. r.op = "login" /\ r.h = proc[p].h /\ r.pc = "ages" /\ r.todo = members /\ r.unread = members /\ r.blank = proc[p].blank
      BY <1>0 DEF Request
    <3> HIDE DEF r
    <3> QED
      BY <2>1, <2>4, <3>1, <3>2 DEF LimitMoves, Kept, NoneFilled, issue, store, members
  <2>5. CASE ~(redisUp /\ Cardinality(members) > MaxSessions)
    <3>1. Goto(p, "insert")
      BY <1>1, <2>5 DEF Members
    <3>2. /\ Same /\ proc'[p].pc = "insert" /\ proc'[p].todo = proc[p].todo /\ proc'[p].unread = proc[p].unread
          /\ proc'[p].blank = proc[p].blank
      BY <1>0, <3>1, GotoIs
    <3> QED
      BY <2>1, <2>5, <3>2 DEF LimitMoves, Kept, NoneFilled, issue, store
  <2> QED
    BY <2>4, <2>5
<1>2. CASE ReadAge(p)
  <2>1. proc[p].pc = "ages" /\ UNCHANGED <<issue, store>>
    BY <1>2 DEF ReadAge, At
  <2>2. PICK t \in proc[p].unread :
          IF redisUp
          THEN Become(p, [proc[p] EXCEPT !.unread = @ \ {t},
                          !.blank = IF hashKey[t] = "full" THEN @ ELSE @ \cup {t}])
          ELSE Become(p, [proc[p] EXCEPT !.pc = "insert", !.todo = {}, !.unread = {}, !.blank = {}])
    BY <1>2 DEF ReadAge
  <2>3. CASE redisUp
    <3> DEFINE r == [proc[p] EXCEPT !.unread = @ \ {t},
                          !.blank = IF hashKey[t] = "full" THEN @ ELSE @ \cup {t}]
    <3>1. proc'[p] = r /\ OthersStay(p)
      BY <1>0, <2>2, <2>3, BecomeIs DEF OthersStay
    <3>2. /\ r.op = "login" /\ r.h = proc[p].h /\ r.pc = "ages" /\ r.todo = proc[p].todo
          /\ r.unread = proc[p].unread \ {t}
          /\ r.blank = IF hashKey[t] = "full" THEN proc[p].blank ELSE proc[p].blank \cup {t}
      BY <1>0, <2>1 DEF Request
    <3> HIDE DEF r
    <3> QED
      BY <2>1, <2>3, <3>1, <3>2 DEF LimitMoves, Kept, NoneFilled, issue, store
  <2>4. CASE ~redisUp
    <3> DEFINE r == [proc[p] EXCEPT !.pc = "insert", !.todo = {}, !.unread = {}, !.blank = {}]
    <3>1. proc'[p] = r /\ OthersStay(p)
      BY <1>0, <2>2, <2>4, BecomeIs DEF OthersStay
    <3>2. r.op = "login" /\ r.h = proc[p].h /\ r.pc = "insert" /\ r.todo = {} /\ r.unread = {} /\ r.blank = {}
      BY <1>0 DEF Request
    <3> HIDE DEF r
    <3> QED
      BY <2>1, <2>4, <3>1, <3>2 DEF LimitMoves, Kept, NoneFilled, issue, store
  <2> QED
    BY <2>3, <2>4
<1>3. CASE ChooseEvicted(p)
  <2>1. proc[p].pc = "ages" /\ proc[p].unread = {} /\ UNCHANGED <<issue, store>>
    BY <1>3 DEF ChooseEvicted, At
  <2>2. PICK evicted \in SUBSET proc[p].todo :
          /\ Cardinality(evicted) = Cardinality(proc[p].todo) - MaxSessions
          /\ \A t \in evicted, k \in proc[p].todo \ evicted : Age(p, t) <= Age(p, k)
          /\ Become(p, [proc[p] EXCEPT !.pc = "purge", !.todo = evicted])
    BY <1>3 DEF ChooseEvicted, Surplus
  <2> DEFINE r == [proc[p] EXCEPT !.pc = "purge", !.todo = evicted]
  <2>3. proc'[p] = r /\ OthersStay(p)
    BY <1>0, <2>2, BecomeIs DEF OthersStay
  <2>4. r.op = "login" /\ r.h = proc[p].h /\ r.pc = "purge" /\ r.todo = evicted /\ r.unread = {} /\ r.blank = proc[p].blank
    BY <1>0, <2>1 DEF Request
  <2> HIDE DEF r
  <2> QED
    BY <2>1, <2>2, <2>3, <2>4 DEF LimitMoves, Kept, NoneFilled, issue, store
<1>4. CASE \E t \in Hashes : PurgeRead(p, t)
  <2>1. PICK t \in Hashes : PurgeRead(p, t)
    BY <1>4
  <2>2. proc[p].pc = "purge" /\ t \in proc[p].todo /\ UNCHANGED <<issue, store>>
    BY <2>1 DEF PurgeRead, At, NextToPurge
  <2>3. CASE redisUp
    <3> DEFINE label == IF hashKey[t] = "full" /\ owner[t] \in Users THEN "srem" ELSE "unlink"
               r == [proc[p] EXCEPT !.key = t, !.pc = label]
    <3>1. proc'[p] = r /\ OthersStay(p)
      BY <1>0, <2>1, <2>3, BecomeIs DEF PurgeRead, OthersStay
    <3> HIDE DEF label
    <3>2. /\ r.op = "login" /\ r.h = proc[p].h /\ r.pc = label /\ r.todo = proc[p].todo /\ r.key = t
          /\ r.unread = proc[p].unread /\ r.blank = proc[p].blank
      BY <1>0 DEF Request
    <3> HIDE DEF r
    <3>3. \/ label = "srem" /\ hashKey[t] = "full"
          \/ label = "unlink" /\ ~(hashKey[t] = "full" /\ owner[t] \in Users)
      BY DEF label
    <3>4. LimitMoves(p)
      BY <2>2, <2>3, <3>1, <3>2, <3>3 DEF LimitMoves, issue, store
    <3> QED
      BY <2>2, <3>1, <3>2, <3>4 DEF Kept, NoneFilled, issue, store
  <2>4. CASE ~redisUp
    <3>1. Skip(p, t)
      BY <2>1, <2>4 DEF PurgeRead
    <3> QED
      BY <1>skip, <2>2, <2>4, <3>1 DEF LimitMoves, Kept, NoneFilled, issue, store
  <2> QED
    BY <2>3, <2>4
<1>5. CASE RemoveFromIndex(p)
  <2>1. proc[p].pc = "srem" /\ UNCHANGED <<issue, hashKey, redisUp>>
    BY <1>5 DEF RemoveFromIndex, At
  <2>2. CASE redisUp
    <3>1. index' = [index EXCEPT ![owner[proc[p].key]] = @ \ {proc[p].key}] /\ Goto(p, "unlink")
      BY <1>5, <2>2 DEF RemoveFromIndex
    <3>2. /\ Same /\ proc'[p].pc = "unlink" /\ proc'[p].todo = proc[p].todo /\ proc'[p].key = proc[p].key
          /\ proc'[p].unread = proc[p].unread /\ proc'[p].blank = proc[p].blank
      BY <1>0, <3>1, GotoIs
    <3> QED
      BY <2>1, <2>2, <3>1, <3>2 DEF LimitMoves, Kept, NoneFilled, issue
  <2>3. CASE ~redisUp
    <3>1. Skip(p, proc[p].key) /\ UNCHANGED index
      BY <1>5, <2>3 DEF RemoveFromIndex
    <3> QED
      BY <1>skip, <2>1, <2>3, <3>1 DEF LimitMoves, Kept, NoneFilled, issue
  <2> QED
    BY <2>2, <2>3
<1>6. CASE Unlink(p)
  <2>1. proc[p].pc = "unlink" /\ UNCHANGED <<issue, index, redisUp>>
    BY <1>6 DEF Unlink, At
  <2>2. CASE redisUp
    <3> DEFINE t == proc[p].key
               left == proc[p].todo \ {t}
               label == AfterPurge(p, left)
               r == [proc[p] EXCEPT !.pc = label, !.todo = left, !.key = None, !.done = @ \cup {t}]
    <3>1. Become(p, r) /\ hashKey' = [hashKey EXCEPT ![t] = "absent"]
      BY <1>6, <2>2 DEF Unlink
    <3>2. proc'[p] = r /\ OthersStay(p)
      BY <1>0, <3>1, BecomeIs DEF OthersStay
    <3>3. label = IF left = {} THEN "insert" ELSE "purge"
      BY <1>purged
    <3>4. NoneFilled
      BY <1>0, <3>1 DEF NoneFilled, TypeOK
    <3> HIDE DEF label, left
    <3>5. /\ r.op = "login" /\ r.h = proc[p].h /\ r.pc = label /\ r.todo = left
          /\ r.unread = proc[p].unread /\ r.blank = proc[p].blank
      BY <1>0 DEF Request
    <3> HIDE DEF r
    <3>6. LimitMoves(p)
      BY <2>1, <2>2, <3>1, <3>2, <3>3, <3>5 DEF LimitMoves, left
    <3> QED
      BY <2>1, <3>2, <3>4, <3>5, <3>6 DEF Kept, issue
  <2>3. CASE ~redisUp
    <3>1. Skip(p, proc[p].key) /\ UNCHANGED hashKey
      BY <1>6, <2>3 DEF Unlink
    <3> QED
      BY <1>skip, <2>1, <2>3, <3>1 DEF LimitMoves, Kept, NoneFilled, issue
  <2> QED
    BY <2>2, <2>3
<1> QED
  BY <1>1, <1>2, <1>3, <1>4, <1>5, <1>6 DEF LimitStep

\* A new session: its request has neither read nor evicted anything.
NewStep(p) ==
    LET s == proc'[p]
    IN  /\ proc[p].op \notin {"login", "anonymous"} /\ OthersStay(p) /\ UNCHANGED store
        /\ \E h \in Hashes, u \in Users \cup {Anonymous} :
             /\ ~Issued(h) /\ s.h = h
             /\ owner' = [owner EXCEPT ![h] = u] /\ born' = [born EXCEPT ![h] = clock + 1] /\ clock' = clock + 1
        /\ s.todo = {} /\ s.unread = {} /\ s.blank = {}
        /\ \/ s.op = "login" /\ s.pc = "members"
           \/ s.op = "anonymous" /\ s.pc = "insert"

\* session_service.create, called by a login or by the middleware.
LEMMA CreateIsNew ==
    ASSUME IInv, Places, NEW p \in Procs, NEW h \in Hashes, proc[p].pc \in {"idle", "select"}, UNCHANGED store,
           \/ Create(p, "anonymous", Anonymous, h, "insert")
           \/ \E u \in Users : Create(p, "login", u, h, "members")
    PROVE  NewStep(p) /\ PlaceOf(proc'[p])
<1>0. TypeOK /\ PlaceOf(proc[p])
  BY DEF IInv, Places
<1>1. PICK op \in {"login", "anonymous"}, u \in Users \cup {Anonymous}, label \in {"members", "insert"} :
        /\ Create(p, op, u, h, label)
        /\ op = "login" => u \in Users /\ label = "members"
        /\ op = "anonymous" => label = "insert"
  <2>1. CASE Create(p, "anonymous", Anonymous, h, "insert")
    BY <2>1
  <2>2. CASE \E u \in Users : Create(p, "login", u, h, "members")
    BY <2>2
  <2> QED
    BY <2>1, <2>2
<1> DEFINE r == [Idle EXCEPT !.op = op, !.pc = label, !.h = h]
<1>2. r.op = op /\ r.pc = label /\ r.h = h /\ r.todo = {} /\ r.unread = {} /\ r.blank = {}
  BY DEF Idle
<1>3. proc'[p] = r /\ OthersStay(p)
  BY <1>0, <1>1, BecomeIs DEF Create, OthersStay
<1>4. proc[p].op \notin {"login", "anonymous"}
  BY <1>0 DEF PlaceOf, Deciding, Arriving
<1> HIDE DEF r
<1>5. PlaceOf(proc'[p])
  BY <1>1, <1>2, <1>3 DEF PlaceOf
<1> QED
  BY <1>1, <1>2, <1>3, <1>4, <1>5 DEF NewStep, Create

\* Redis answers, and the key of a session, or its entry in the index, is there.
HashStep(p) ==
    LET h == proc[p].h
    IN  /\ redisUp /\ redisUp' = redisUp /\ Kept /\ UNCHANGED index
        /\ proc[p].pc = "hset" /\ proc[p].op \in {"login", "anonymous"} /\ h \in Hashes
        /\ hashKey' = [hashKey EXCEPT ![h] = "full"]

IndexStep(p) ==
    LET h == proc[p].h
    IN  /\ redisUp /\ redisUp' = redisUp /\ Kept /\ UNCHANGED hashKey
        /\ proc[p].pc = "sadd" /\ proc[p].op = "login" /\ h \in Hashes /\ owner[h] \in Users
        /\ index' = [index EXCEPT ![owner[h]] = @ \cup {h}]

\* A login goes on, with what it has read and evicted.
LabelStep(p, label) ==
    LET r == proc[p]
        s == proc'[p]
    IN  /\ s.op = r.op /\ s.h = r.h /\ s.todo = r.todo /\ s.unread = r.unread /\ s.blank = r.blank /\ s.pc = label
        /\ OthersStay(p)

\* HSET and SADD while Redis answers.
LEMMA StoreSteps ==
    ASSUME IInv, Places, NEW p \in Procs, redisUp
    PROVE  /\ WriteHash(p) => HashStep(p) /\ LabelStep(p, "ttl") /\ PlaceOf(proc'[p])
           /\ AddToIndex(p) => IndexStep(p) /\ LabelStep(p, "commit") /\ PlaceOf(proc'[p])
<1>0. TypeOK /\ ShapeOf(owner, proc[p])
  BY DEF IInv, Shape
<1>1. ASSUME WriteHash(p) PROVE HashStep(p) /\ LabelStep(p, "ttl") /\ PlaceOf(proc'[p])
  <2>1. Goto(p, "ttl") /\ hashKey' = [hashKey EXCEPT ![proc[p].h] = "full"] /\ proc[p].pc = "hset"
        /\ UNCHANGED <<owner, born, clock, redisUp, index>>
    BY <1>1 DEF WriteHash, At
  <2>2. proc[p].op \in {"login", "anonymous"} /\ proc[p].h \in Hashes
    BY <1>0, <2>1 DEF ShapeOf
  <2>3. LabelStep(p, "ttl")
    BY <1>0, <2>1, GotoIs DEF LabelStep
  <2>4. PlaceOf(proc'[p])
    BY <2>2, <2>3 DEF LabelStep, PlaceOf, Arriving
  <2> QED
    BY <2>1, <2>2, <2>3, <2>4 DEF HashStep, Kept
<1>2. ASSUME AddToIndex(p) PROVE IndexStep(p) /\ LabelStep(p, "commit") /\ PlaceOf(proc'[p])
  <2>1. Goto(p, "commit") /\ index' = [index EXCEPT ![owner[proc[p].h]] = @ \cup {proc[p].h}] /\ proc[p].pc = "sadd"
        /\ UNCHANGED <<owner, born, clock, redisUp, hashKey>>
    BY <1>2 DEF AddToIndex, At, Indexed, Respond
  <2>2. proc[p].op = "login" /\ proc[p].h \in Hashes /\ owner[proc[p].h] \in Users
    BY <1>0, <2>1 DEF ShapeOf
  <2>3. LabelStep(p, "commit")
    BY <1>0, <2>1, GotoIs DEF LabelStep
  <2>4. PlaceOf(proc'[p])
    BY <2>2, <2>3 DEF LabelStep, PlaceOf
  <2> QED
    BY <2>1, <2>2, <2>3, <2>4 DEF IndexStep, Kept
<1> QED
  BY <1>1, <1>2

\* The environment, and stuttering: no request goes on.
RestStep ==
    /\ Kept /\ UNCHANGED index /\ NoneFilled
    /\ proc' = proc \/ proc' = [p \in Procs |-> Idle]

\* The environment moves no request, but for a restart that ends them all.
LEMMA EnvironmentRests ==
    ASSUME TypeOK, Environment \/ UNCHANGED vars
    PROVE  RestStep /\ ("outage" \notin Env => redisUp' = redisUp)
<1> USE DEF RestStep, Kept, NoneFilled, issue, store
<1>1. CASE \E h \in Hashes : Lapse(h)
  BY <1>1 DEF Lapse, TypeOK
<1>2. CASE Outage
  BY <1>2 DEF Outage
<1>3. CASE Crash
  BY <1>3 DEF Crash
<1>4. CASE (\E h \in Hashes : Expire(h)) \/ CleanupExpiredAnonymous \/ \E u \in Users : DeleteUser(u)
  BY <1>4 DEF Expire, CleanupExpiredAnonymous, DeleteUser
<1>5. CASE UNCHANGED vars
  BY <1>5 DEF vars
<1> QED
  BY <1>1, <1>2, <1>3, <1>4, <1>5 DEF Environment

\* A request that starts without a new session, not to end one unless it may.
SelectStep(p) ==
    /\ Kept /\ UNCHANGED <<hashKey, index, redisUp>> /\ OthersStay(p)
    /\ proc[p].op = "idle" /\ proc'[p].op \notin {"login", "anonymous"}
    /\ Ops \cap {"logout", "revoke", "reset"} = {} => proc'[p].op = "resolve"

\* Requests that create no session begin.
LEMMA SelectIs ==
    ASSUME IInv, NEW p \in Procs,
           \/ \E h \in Hashes : BeginResolve(p, h) \/ BeginLogout(p, h) \/ BeginRevoke(p, h)
           \/ \E u \in Users : BeginReset(p, u)
    PROVE  SelectStep(p) /\ PlaceOf(proc'[p])
<1>0. TypeOK /\ proc[p].pc = "idle" /\ proc[p].op = "idle"
  BY Zenon DEF IInv, Shape, ShapeOf, BeginResolve, BeginLogout, BeginRevoke, BeginReset, At
<1> DEFINE Frame == Kept /\ UNCHANGED <<hashKey, index, redisUp>>
<1>1. ASSUME NEW h \in Hashes, BeginResolve(p, h) PROVE SelectStep(p) /\ PlaceOf(proc'[p])
  <2> DEFINE r == [Idle EXCEPT !.op = "resolve", !.pc = "get", !.h = h]
  <2>1. proc'[p] = r /\ OthersStay(p)
    BY <1>0, <1>1, BecomeIs DEF BeginResolve, OthersStay
  <2>2. r.op = "resolve" /\ r.pc = "get"
    BY DEF Idle
  <2>3. Frame
    BY <1>1 DEF BeginResolve, issue, store, Kept
  <2> HIDE DEF r
  <2> QED
    BY <1>0, <2>1, <2>2, <2>3 DEF SelectStep, PlaceOf
<1>2. ASSUME NEW h \in Hashes, BeginLogout(p, h) PROVE SelectStep(p) /\ PlaceOf(proc'[p])
  <2> DEFINE r == [Idle EXCEPT !.op = "logout", !.pc = IF h \in rows THEN "flush" ELSE "purge",
                  !.del = {h} \cap rows, !.todo = {h}, !.covers = {h}]
  <2>1. proc'[p] = r /\ OthersStay(p)
    BY <1>0, <1>2, BecomeIs DEF BeginLogout, OthersStay
  <2>2. r.op = "logout"
    BY DEF Idle
  <2>3. Frame /\ "logout" \in Ops
    BY <1>2 DEF BeginLogout, issue, store, Kept
  <2> HIDE DEF r
  <2> QED
    BY <1>0, <2>1, <2>2, <2>3 DEF SelectStep, PlaceOf
<1>3. ASSUME NEW h \in Hashes, BeginRevoke(p, h) PROVE SelectStep(p) /\ PlaceOf(proc'[p])
  <2> DEFINE r == [Idle EXCEPT !.op = "revoke", !.pc = "flush",
                  !.del = {h}, !.todo = {h}, !.covers = {h}]
  <2>1. proc'[p] = r /\ OthersStay(p)
    BY <1>0, <1>3, BecomeIs DEF BeginRevoke, OthersStay
  <2>2. r.op = "revoke"
    BY DEF Idle
  <2>3. Frame /\ "revoke" \in Ops
    BY <1>3 DEF BeginRevoke, issue, store, Kept
  <2> HIDE DEF r
  <2> QED
    BY <1>0, <2>1, <2>2, <2>3 DEF SelectStep, PlaceOf
<1>4. ASSUME NEW u \in Users, BeginReset(p, u) PROVE SelectStep(p) /\ PlaceOf(proc'[p])
  <2> DEFINE mine == {h \in rows : owner[h] = u}
             covered == {h \in Hashes : owner[h] = u}
             r == [Idle EXCEPT !.op = "reset", !.pc = IF mine = {} THEN "flush" ELSE "purge",
                      !.del = mine, !.todo = mine, !.covers = covered]
  <2>1. proc'[p] = r /\ OthersStay(p)
    BY <1>0, <1>4, BecomeIs DEF BeginReset, OthersStay
  <2>2. r.op = "reset"
    <3> HIDE DEF mine, covered
    <3> QED
      BY DEF Idle
  <2>3. Frame /\ "reset" \in Ops
    BY <1>4 DEF BeginReset, issue, store, Kept
  <2> HIDE DEF r
  <2> QED
    BY <1>0, <2>1, <2>2, <2>3 DEF SelectStep, PlaceOf
<1>5. ASSUME NEW h \in Hashes, BeginResolve(p, h) \/ BeginLogout(p, h) \/ BeginRevoke(p, h)
      PROVE  SelectStep(p) /\ PlaceOf(proc'[p])
  BY <1>1, <1>2, <1>3, <1>5
<1> QED
  BY <1>4, <1>5, Zenon

\* Every step is one of these.
StepKind ==
    \/ \E p \in Procs : TameStep(p) \/ NewStep(p) \/ SelectStep(p)
    \/ \E p \in Procs : LimitStep(p)
    \/ \E p \in Procs : HashStep(p) /\ LabelStep(p, "ttl")
    \/ \E p \in Procs : IndexStep(p) /\ LabelStep(p, "commit")
    \/ RestStep /\ ("outage" \notin Env => redisUp' = redisUp)

\* enforce_concurrent_limit keeps a login where a login may be.
LEMMA LimitPlaces ==
    ASSUME IInv, Places, NEW p \in Procs, LimitStep(p)
    PROVE  PlaceOf(proc'[p])
<1>1. proc'[p].op = "login" /\ LimitMoves(p)
  BY LimitStepMoves
<1> QED
  BY <1>1 DEF LimitMoves, PlaceOf, Deciding, Arriving

\* Every step of the specification is of one of the kinds.
LEMMA Steps ==
    ASSUME IInv, Places, [Next]_vars
    PROVE  StepKind /\ Places'
<1>0. TypeOK
  BY DEF IInv
<1>moved. ASSUME NEW p \in Procs, OthersStay(p), PlaceOf(proc'[p]) PROVE Places'
  BY <1>moved DEF Places, OthersStay
<1>1. ASSUME NEW p \in Procs, Begin(p) PROVE StepKind /\ Places'
  <2>1. CASE \/ \E h \in Hashes : BeginResolve(p, h) \/ BeginLogout(p, h) \/ BeginRevoke(p, h)
             \/ \E u \in Users : BeginReset(p, u)
    BY <1>moved, <2>1, SelectIs DEF StepKind, SelectStep
  <2>2. CASE (\E u \in Users, h \in Hashes : BeginLogin(p, u, h)) \/ \E h \in Hashes : BeginAnonymous(p, h)
    <3>1. PICK h \in Hashes :
            /\ proc[p].pc = "idle" /\ UNCHANGED store
            /\ Create(p, "anonymous", Anonymous, h, "insert") \/ \E u \in Users : Create(p, "login", u, h, "members")
      BY <2>2 DEF BeginLogin, BeginAnonymous, At
    <3>2. NewStep(p) /\ PlaceOf(proc'[p])
      BY <3>1, CreateIsNew
    <3> QED
      BY <1>moved, <3>2 DEF StepKind, NewStep
  <2> QED
    BY <1>1, <2>1, <2>2 DEF Begin
<1>2. ASSUME NEW p \in Procs, Continue(p) PROVE StepKind /\ Places'
  <2>1. CASE \E h \in Hashes : ReplaceUnknown(p, h)
    <3>1. PICK h \in Hashes : proc[p].pc = "select" /\ UNCHANGED store /\ Create(p, "anonymous", Anonymous, h, "insert")
      BY <2>1 DEF ReplaceUnknown, At
    <3>2. NewStep(p) /\ PlaceOf(proc'[p])
      BY <3>1, CreateIsNew
    <3> QED
      BY <1>moved, <3>2 DEF StepKind, NewStep
  <2>2. CASE LimitStep(p)
    BY <1>moved, <2>2, LimitStepMoves, LimitPlaces DEF StepKind
  <2>3. CASE redisUp /\ WriteHash(p)
    BY <1>moved, <2>3, StoreSteps DEF StepKind, LabelStep
  <2>4. CASE redisUp /\ AddToIndex(p)
    BY <1>moved, <2>4, StoreSteps DEF StepKind, LabelStep
  <2>5. CASE \/ Insert(p) \/ WriteTtl(p) \/ Flush(p) \/ Commit(p) \/ CommitFails(p)
             \/ ReadKey(p) \/ Touch(p) \/ Extend(p) \/ SelectRow(p) \/ OutOfTokens(p)
             \/ ~redisUp /\ (WriteHash(p) \/ AddToIndex(p))
    BY <1>moved, <2>5, OtherTame DEF StepKind, TameStep
  <2>6. CASE proc[p].op # "login" /\ ((\E t \in Hashes : PurgeRead(p, t)) \/ RemoveFromIndex(p) \/ Unlink(p))
    BY <1>moved, <2>6, OtherPurgeTame DEF StepKind, TameStep
  <2>7. Members(p) \/ ReadAge(p) \/ ChooseEvicted(p) => proc[p].op = "login"
    BY DEF Members, ReadAge, ChooseEvicted, At, IInv, Shape, ShapeOf
  <2> QED
    BY <1>2, <2>1, <2>2, <2>3, <2>4, <2>5, <2>6, <2>7 DEF Continue, LimitStep
<1>3. ASSUME Environment \/ UNCHANGED vars PROVE StepKind /\ Places'
  <2>1. RestStep /\ ("outage" \notin Env => redisUp' = redisUp)
    BY <1>0, <1>3, EnvironmentRests
  <2>2. PlaceOf(Idle)
    BY DEF PlaceOf, Idle
  <2>3. Places'
    BY <2>1, <2>2 DEF RestStep, Places
  <2> QED
    BY <2>1, <2>3 DEF StepKind
<1> QED
  BY <1>1, <1>2, <1>3 DEF Next

-----------------------------------------------------------------------------
(* The limit *)

\* An entry of the index is of its user, and no request that has not come to its end
\* is in it.  What a login goes through is a finite set.
Sound ==
    /\ \A u \in Users : IsFiniteSet(index[u]) /\ \A h \in index[u] : owner[h] = u
    /\ \A p \in Procs, h \in Hashes : Creates(p, h) /\ ~At(p, "commit") => \A u \in Users : h \notin index[u]
    /\ \A p \in Procs : proc[p].op = "login" => IsFiniteSet(proc[p].todo)

LoginFor(p, u) == proc[p].op = "login" /\ owner[proc[p].h] = u
Coming(u) == {p \in Procs : LoginFor(p, u) /\ proc[p].pc \in Arriving}
Choosing(u) == {p \in Procs : LoginFor(p, u) /\ proc[p].pc \in Deciding}

BoundedFor(u) == Bounded(Listed(u), Coming(u), Choosing(u), proc)

LimitInv == redisUp = TRUE /\ Places /\ Sound /\ \A u \in Users : BoundedFor(u)

\* The index loses entries and no request creates what it did not.
LEMMA SoundLess ==
    ASSUME Sound, owner' = owner, \A u \in Users : index'[u] \subseteq index[u],
           \A q \in Procs : \/ proc'[q].op \notin {"login", "anonymous"}
                            \/ /\ proc'[q].op = proc[q].op /\ proc'[q].h = proc[q].h /\ proc[q].pc # "commit"
                               /\ proc'[q].todo = proc[q].todo \/ IsFiniteSet(proc'[q].todo)
                            \/ proc'[q] = proc[q]
    PROVE  Sound'
<1>1. \A u \in Users : IsFiniteSet(index'[u]) /\ \A h \in index'[u] : owner'[h] = u
  BY FS_Subset DEF Sound
<1>2. ASSUME NEW q \in Procs, NEW h \in Hashes, Creates(q, h)', ~At(q, "commit")'
      PROVE  Creates(q, h) /\ ~At(q, "commit")
  BY <1>2 DEF Creates, At
<1>3. \A q \in Procs : proc'[q].op = "login" => IsFiniteSet(proc'[q].todo)
  BY DEF Sound
<1> QED
  BY <1>1, <1>2, <1>3 DEF Sound

\* A new token is in no entry of the index.
LEMMA SoundNew ==
    ASSUME TypeOK, Sound, NEW p \in Procs, NewStep(p)
    PROVE  Sound'
<1>1. PICK h \in Hashes, u \in Users \cup {Anonymous} : ~Issued(h) /\ proc'[p].h = h /\ owner' = [owner EXCEPT ![h] = u]
  BY DEF NewStep
<1>2. index' = index /\ OthersStay(p) /\ proc'[p].todo = {}
  BY DEF NewStep, store
<1>3. \A w \in Users : h \notin index[w]
  BY <1>1, ConstantsAssumption DEF Sound, Issued
<1>4. \A w \in Users : IsFiniteSet(index'[w]) /\ \A g \in index'[w] : owner'[g] = w
  BY <1>1, <1>2, <1>3 DEF Sound, TypeOK
<1>5. ASSUME NEW q \in Procs, NEW g \in Hashes, Creates(q, g)', ~At(q, "commit")' PROVE \A w \in Users : g \notin index'[w]
  <2>1. CASE q = p
    BY <1>1, <1>2, <1>3, <1>5, <2>1 DEF Creates
  <2>2. CASE q # p
    BY <1>2, <1>5, <2>2 DEF Creates, At, Sound, OthersStay
  <2> QED
    BY <2>1, <2>2
<1>6. \A q \in Procs : proc'[q].op = "login" => IsFiniteSet(proc'[q].todo)
  BY <1>2, FS_EmptySet DEF Sound, OthersStay
<1> QED
  BY <1>4, <1>5, <1>6 DEF Sound

\* A login adds the token it alone creates, and is at its end.
LEMMA SoundIndex ==
    ASSUME IInv, Sound, NEW p \in Procs, IndexStep(p), LabelStep(p, "commit")
    PROVE  Sound'
<1> DEFINE h == proc[p].h
<1>1. /\ owner' = owner /\ h \in Hashes /\ owner[h] \in Users /\ index' = [index EXCEPT ![owner[h]] = @ \cup {h}]
      /\ Creates(p, h)
  BY DEF IndexStep, Kept, Creates
<1>2. /\ OthersStay(p) /\ proc'[p].pc = "commit" /\ proc'[p].todo = proc[p].todo /\ proc'[p].op = proc[p].op
  BY DEF LabelStep
<1> HIDE DEF h
<1>3. index \in [Users -> SUBSET Hashes]
  BY DEF IInv, TypeOK
<1>4. \A w \in Users : index'[w] = index[w] \/ (w = owner[h] /\ index'[w] = index[w] \cup {h})
  BY <1>1, <1>3
<1>5. \A w \in Users : IsFiniteSet(index'[w]) /\ \A g \in index'[w] : owner'[g] = w
  <2>1. \A w \in Users : IsFiniteSet(index[w] \cup {h})
    BY FS_AddElement DEF Sound
  <2> QED
    BY <1>1, <1>4, <2>1 DEF Sound
<1>6. ASSUME NEW q \in Procs, NEW g \in Hashes, Creates(q, g)', ~At(q, "commit")' PROVE \A w \in Users : g \notin index'[w]
  <2>1. q # p
    BY <1>2, <1>6 DEF At
  <2>2. Creates(q, g) /\ ~At(q, "commit")
    BY <1>2, <1>6, <2>1 DEF Creates, At, OthersStay
  <2>3. g # h
    BY <1>1, <2>1, <2>2 DEF IInv, Safe, SoleCreator
  <2> QED
    BY <1>4, <2>2, <2>3 DEF Sound
<1>7. \A q \in Procs : proc'[q].op = "login" => IsFiniteSet(proc'[q].todo)
  BY <1>2 DEF Sound, OthersStay
<1> QED
  BY <1>5, <1>6, <1>7 DEF Sound

\* enforce_concurrent_limit adds nothing to the index.
LEMMA SoundLimit ==
    ASSUME IInv, Sound, NEW p \in Procs, LimitStep(p)
    PROVE  Sound' /\ \A u \in Users : index'[u] \subseteq index[u]
<1> DEFINE t == proc[p].todo
           s == proc'[p]
<1>0. /\ s.op = "login" /\ s.h = proc[p].h /\ OthersStay(p) /\ owner' = owner /\ LimitMoves(p)
      /\ proc[p].op = "login" /\ index \in [Users -> SUBSET Hashes] /\ owner[proc[p].h] \in Users
  BY LimitStepMoves DEF Kept, LimitStep, IInv, TypeOK, Shape, ShapeOf
<1>1. \A u \in Users : index'[u] \subseteq index[u]
  BY <1>0 DEF LimitMoves
<1>2. proc[p].pc # "commit" /\ (s.todo \subseteq t \/ s.todo = index[owner[proc[p].h]])
  BY <1>0 DEF LimitMoves
<1>3. IsFiniteSet(s.todo)
  <2>1. IsFiniteSet(t) /\ IsFiniteSet(index[owner[proc[p].h]])
    BY <1>0 DEF Sound
  <2> QED
    BY <1>2, <2>1, FS_Subset
<1>4. Sound'
  BY <1>0, <1>1, <1>2, <1>3, SoundLess DEF OthersStay
<1> QED
  BY <1>1, <1>4

\* The index stays sound.
LEMMA SoundStep ==
    ASSUME IInv, Sound, StepKind
    PROVE  Sound'
<1>0. TypeOK
  BY DEF IInv
<1>1. ASSUME NEW p \in Procs, TameStep(p) PROVE Sound'
  BY <1>1, SoundLess DEF TameStep, Kept, Follows, OthersStay, Arriving
<1>2. ASSUME NEW p \in Procs, SelectStep(p) PROVE Sound'
  BY <1>2, SoundLess DEF SelectStep, Kept, OthersStay
<1>3. ASSUME NEW p \in Procs, HashStep(p), LabelStep(p, "ttl") PROVE Sound'
  BY <1>3, SoundLess DEF HashStep, LabelStep, Kept, OthersStay
<1>4. ASSUME RestStep PROVE Sound'
  BY <1>4, SoundLess DEF RestStep, Kept, Idle
<1> QED
  BY <1>0, <1>1, <1>2, <1>3, <1>4, SoundNew, SoundIndex, SoundLimit DEF StepKind

\* The logins counted are requests.
LEMMA ChoosingIn == \A u : Coming(u) \subseteq Procs /\ Choosing(u) \subseteq Procs
BY DEF Coming, Choosing

\* What is listed is part of the index.
LEMMA ListedFinite ==
    ASSUME Sound, NEW u \in Users
    PROVE  IsFiniteSet(Listed(u)) /\ Cardinality(Listed(u)) <= Cardinality(index[u]) /\ Cardinality(index[u]) \in Nat
           /\ Cardinality(Listed(u)) \in Nat
<1>1. Listed(u) \subseteq index[u] /\ IsFiniteSet(index[u])
  BY DEF Listed, Sound
<1> QED
  BY <1>1, Fewer

\* A request takes no place among the logins for u that it did not have.
Stays(q, u) ==
    \/ ~LoginFor(q, u)' \/ proc'[q].pc \notin Arriving \cup Deciding
    \/ LoginFor(q, u) /\ proc'[q] = proc[q]
    \/ LoginFor(q, u) /\ proc[q].pc \in Arriving /\ proc'[q].pc \in Arriving
    \/ /\ LoginFor(q, u) /\ proc[q].pc \in Deciding /\ proc'[q].pc \in Deciding
       /\ Listed(u)' \ proc'[q].todo \subseteq Listed(u) \ proc[q].todo
       /\ proc[q].pc = "ages" <=> proc'[q].pc = "ages"

\* Where every request stays, and no more is listed, the count stays.
LEMMA BoundedStays ==
    ASSUME IsFiniteSet(Procs), Sound, NEW u \in Users, BoundedFor(u),
           Listed(u)' \subseteq Listed(u), \A q \in Procs : Stays(q, u)
    PROVE  BoundedFor(u)'
<1> DEFINE L == Listed(u)
           L2 == Listed(u)'
           C == Coming(u)
           C2 == Coming(u)'
           D == Choosing(u)
           D2 == Choosing(u)'
<1>1. ASSUME NEW q \in C2 PROVE q \in C
  BY DEF Coming, Stays, Arriving, Deciding
<1>2. ASSUME NEW q \in D2 PROVE q \in D /\ L2 \ proc'[q].todo \subseteq L \ proc[q].todo /\ Room(proc'[q]) >= Room(proc[q])
  <2>1. q \in Procs /\ q \in D /\ L2 \ proc'[q].todo \subseteq L \ proc[q].todo
    BY DEF Choosing, Stays, Arriving, Deciding
  <2>2. proc[q].pc = "ages" <=> proc'[q].pc = "ages"
    BY DEF Choosing, Stays, Arriving, Deciding
  <2>3. Room(proc'[q]) >= Room(proc[q])
    BY <2>2, ConstantsAssumption DEF Room
  <2> QED
    BY <2>1, <2>3
<1>3. IsFiniteSet(L) /\ L2 \subseteq L /\ Bounded(L, C, D, proc)
  BY ListedFinite DEF BoundedFor
<1>4. C \subseteq Procs /\ D \subseteq Procs
  BY ChoosingIn
<1> HIDE DEF L, L2, C, C2, D, D2
<1>5. Bounded(L2, C2, D2, proc')
  BY <1>1, <1>2, <1>3, <1>4, BoundedLess
<1> QED
  BY <1>5 DEF BoundedFor, L2, C2, D2

\* Nothing is listed that was not.
LEMMA ListedLess ==
    ASSUME NEW u \in Users, index'[u] \subseteq index[u], NoneFilled, index[u] \subseteq Hashes
    PROVE  Listed(u)' \subseteq Listed(u)
BY DEF Listed, NoneFilled

\* Tame steps keep the count.
LEMMA BoundedTame ==
    ASSUME IsFiniteSet(Procs), IInv, Sound, NEW u \in Users, BoundedFor(u), NEW p \in Procs,
           TameStep(p) \/ SelectStep(p)
    PROVE  BoundedFor(u)'
<1>1. index[u] \subseteq Hashes
  BY DEF IInv, TypeOK
<1>2. index'[u] \subseteq index[u] /\ NoneFilled /\ OthersStay(p) /\ owner' = owner
  BY DEF TameStep, SelectStep, Kept, NoneFilled
<1>3. Listed(u)' \subseteq Listed(u)
  BY <1>1, <1>2, ListedLess
<1>4. LoginFor(p, u)' => LoginFor(p, u) /\ proc[p].pc \in Arriving /\ proc'[p].pc \notin Deciding
  BY <1>2 DEF TameStep, SelectStep, Follows, LoginFor, Deciding
<1>5. ASSUME NEW q \in Procs PROVE Stays(q, u)
  <2>1. CASE q = p
    BY <1>4, <2>1 DEF Stays, TameStep, SelectStep, Follows, LoginFor, Arriving
  <2>2. CASE q # p
    BY <1>2, <2>2 DEF OthersStay, LoginFor, Stays
  <2> QED
    BY <2>1, <2>2
<1> QED
  BY <1>3, <1>5, BoundedStays

\* So does a new token.
LEMMA BoundedNew ==
    ASSUME IsFiniteSet(Procs), IInv, Sound, NEW u \in Users, BoundedFor(u), NEW p \in Procs, NewStep(p)
    PROVE  BoundedFor(u)'
<1>1. PICK h \in Hashes, w \in Users \cup {Anonymous} : ~Issued(h) /\ owner' = [owner EXCEPT ![h] = w]
  BY DEF NewStep
<1>2. Listed(u)' = Listed(u) /\ OthersStay(p)
  BY DEF NewStep, store, Listed
<1>3. LoginFor(p, u)' => proc'[p].pc = "members"
  BY DEF NewStep, LoginFor
<1>4. ASSUME NEW q \in Procs \ {p}, LoginFor(q, u)' PROVE LoginFor(q, u)
  <2>1. proc'[q] = proc[q] /\ proc[q].op = "login" /\ owner'[proc[q].h] = u
    BY <1>2, <1>4 DEF OthersStay, LoginFor
  <2>2. proc[q].h \in Hashes /\ owner[proc[q].h] \in Users
    BY <2>1 DEF IInv, Shape, ShapeOf
  <2>3. proc[q].h # h
    BY <1>1, <2>2, ConstantsAssumption DEF Issued
  <2> QED
    BY <1>1, <2>1, <2>2, <2>3 DEF LoginFor, IInv, TypeOK
<1>5. ASSUME NEW q \in Procs PROVE Stays(q, u)
  BY <1>2, <1>3, <1>4 DEF Stays, OthersStay, Arriving, Deciding
<1> QED
  BY <1>2, <1>5, BoundedStays

\* So does HSET: the token is not in the index yet.
LEMMA BoundedHash ==
    ASSUME IsFiniteSet(Procs), IInv, Sound, NEW u \in Users, BoundedFor(u), NEW p \in Procs,
           HashStep(p), LabelStep(p, "ttl")
    PROVE  BoundedFor(u)'
<1> DEFINE h == proc[p].h
<1>1. index[u] \subseteq Hashes /\ hashKey \in [Hashes -> {"absent", "full", "stub"}]
  BY DEF IInv, TypeOK
<1>2. h \notin index[u]
  BY DEF HashStep, Sound, Creates, At
<1>3. Listed(u)' \subseteq Listed(u)
  BY <1>1, <1>2 DEF HashStep, Listed
<1>4. OthersStay(p) /\ owner' = owner /\ proc'[p].pc = "ttl" /\ proc[p].pc = "hset" /\ (LoginFor(p, u)' => LoginFor(p, u))
  BY DEF HashStep, LabelStep, Kept, LoginFor
<1>5. ASSUME NEW q \in Procs PROVE Stays(q, u)
  BY <1>4 DEF Stays, OthersStay, LoginFor, Arriving, Deciding
<1> QED
  BY <1>3, <1>5, BoundedStays

\* SADD lists one session more, and one login less is to come.
LEMMA BoundedIndex ==
    ASSUME IsFiniteSet(Procs), IInv, Sound, NEW u \in Users, BoundedFor(u), NEW p \in Procs,
           IndexStep(p), LabelStep(p, "commit")
    PROVE  BoundedFor(u)'
<1> DEFINE h == proc[p].h
<1>1. /\ owner' = owner /\ hashKey' = hashKey /\ index' = [index EXCEPT ![owner[h]] = @ \cup {h}] /\ owner[h] \in Users
      /\ proc[p].pc = "sadd" /\ proc[p].op = "login" /\ index \in [Users -> SUBSET Hashes]
  BY DEF IndexStep, Kept, IInv, TypeOK
<1>2. OthersStay(p) /\ proc'[p].pc = "commit" /\ proc'[p].op = "login" /\ proc'[p].h = h
  BY <1>1 DEF LabelStep
<1>3. \A q \in Procs \ {p} : proc'[q] = proc[q] /\ (LoginFor(q, u)' <=> LoginFor(q, u))
  BY <1>1, <1>2 DEF OthersStay, LoginFor
<1>4. CASE owner[h] # u
  <2>1. Listed(u)' = Listed(u)
    BY <1>1, <1>4 DEF Listed
  <2>2. ~LoginFor(p, u)'
    BY <1>1, <1>2, <1>4 DEF LoginFor
  <2>3. \A q \in Procs : Stays(q, u)
    BY <1>3, <2>2 DEF Stays
  <2> QED
    BY <2>1, <2>3, BoundedStays
<1>5. CASE owner[h] = u
  <2> DEFINE L == Listed(u)
             L2 == Listed(u)'
             C == Coming(u)
             D == Choosing(u)
  <2>1. L2 \subseteq L \cup {h}
    BY <1>1, <1>5 DEF Listed
  <2>2. p \in C /\ p \notin D /\ C \subseteq Procs /\ D \subseteq Procs
    BY <1>1, <1>5 DEF Coming, Choosing, LoginFor, Arriving, Deciding
  <2>3. Coming(u)' = C \ {p} /\ Choosing(u)' = D
    BY <1>2, <1>3, <2>2 DEF Coming, Choosing, Arriving, Deciding
  <2>4. IsFiniteSet(L) /\ Bounded(L, C, D, proc)
    BY ListedFinite DEF BoundedFor
  <2>5. \A q \in Procs \ {p} : proc'[q] = proc[q]
    BY <1>3
  <2> HIDE DEF L, L2, C, D, h
  <2>6. Bounded(L2, C \ {p}, D, proc')
    BY <2>1, <2>2, <2>4, <2>5, BoundedAdd
  <2> QED
    BY <2>3, <2>6 DEF BoundedFor, L2
<1> QED
  BY <1>4, <1>5

\* The environment, and stuttering.
LEMMA BoundedRest ==
    ASSUME IsFiniteSet(Procs), IInv, Sound, NEW u \in Users, BoundedFor(u), RestStep
    PROVE  BoundedFor(u)'
<1>1. index[u] \subseteq Hashes /\ index'[u] \subseteq index[u] /\ NoneFilled /\ owner' = owner
  BY DEF IInv, TypeOK, RestStep, Kept
<1>2. Listed(u)' \subseteq Listed(u)
  BY <1>1, ListedLess
<1>3. \A q \in Procs : Stays(q, u)
  BY <1>1 DEF RestStep, LoginFor, Idle, Stays
<1> QED
  BY <1>2, <1>3, BoundedStays

\* What is kept of a set when all but MaxSessions of its elements are evicted.
LEMMA TheRest ==
    ASSUME NEW S, NEW T, T \subseteq S, IsFiniteSet(S), Cardinality(T) = Cardinality(S) - MaxSessions
    PROVE  IsFiniteSet(S \ T) /\ Cardinality(S \ T) = MaxSessions
<1>1. Cardinality(S) \in Nat /\ MaxSessions \in Nat
  BY FS_CardinalityType, ConstantsAssumption
<1>2. IsFiniteSet(S \ T) /\ Cardinality(S \ T) = Cardinality(S) - Cardinality(S \cap T)
  BY FS_Difference
<1>3. S \cap T = T
  OBVIOUS
<1>4. Cardinality(S \ T) = Cardinality(S) - (Cardinality(S) - MaxSessions)
  BY <1>2, <1>3
<1> QED
  BY <1>1, <1>2, <1>4

\* Each move of enforce_concurrent_limit keeps the count of its user.
LEMMA BoundedLimit ==
    ASSUME IsFiniteSet(Procs), IInv, Sound, redisUp, NEW u \in Users, BoundedFor(u), NEW p \in Procs, LimitStep(p)
    PROVE  BoundedFor(u)'
<1> DEFINE r == proc[p]
           s == proc'[p]
           L == Listed(u)
           L2 == Listed(u)'
           C == Coming(u)
           D == Choosing(u)
<1>1. /\ r.op = "login" /\ s.op = "login" /\ s.h = r.h /\ owner' = owner /\ OthersStay(p) /\ NoneFilled /\ LimitMoves(p)
      /\ index[u] \subseteq Hashes /\ index'[u] \subseteq index[u]
      /\ hashKey \in [Hashes -> {"absent", "full", "stub"}]
  BY LimitStepMoves, SoundLimit DEF Kept, LimitStep, IInv, TypeOK
<1>2. L2 \subseteq L
  BY <1>1, ListedLess
<1>3. \A q \in Procs \ {p} : proc'[q] = proc[q] /\ (LoginFor(q, u)' <=> LoginFor(q, u)) /\ Stays(q, u)
  BY <1>1 DEF OthersStay, LoginFor, Stays
<1>4. LoginFor(p, u)' <=> LoginFor(p, u)
  BY <1>1 DEF LoginFor
<1>stays. ASSUME Stays(p, u) PROVE BoundedFor(u)'
  BY <1>2, <1>3, <1>stays, BoundedStays
<1>5. CASE ~LoginFor(p, u)
  BY <1>4, <1>5, <1>stays DEF Stays
<1>6. ASSUME LoginFor(p, u), UNCHANGED <<index, hashKey>>, r.pc = "members", s.pc = "ages", s.todo = index[u]
      PROVE  BoundedFor(u)'
  <2>1. p \notin C /\ p \notin D /\ C \subseteq Procs /\ D \subseteq Procs
    BY <1>6 DEF Coming, Choosing, Arriving, Deciding
  <2>2. Coming(u)' = C /\ Choosing(u)' = D \cup {p} /\ L2 = L
    BY <1>3, <1>4, <1>6, <2>1 DEF Coming, Choosing, Arriving, Deciding, Listed
  <2>3. L \subseteq proc'[p].todo
    BY <1>6 DEF Listed
  <2>4. IsFiniteSet(L) /\ Bounded(L, C, D, proc) /\ \A q \in Procs \ {p} : proc'[q] = proc[q]
    BY <1>3, ListedFinite DEF BoundedFor
  <2> HIDE DEF L, L2, C, D
  <2>5. Bounded(L, C, D \cup {p}, proc')
    BY <2>1, <2>3, <2>4, BoundedRead
  <2> QED
    BY <2>2, <2>5 DEF BoundedFor, L2
<1>7. ASSUME LoginFor(p, u), UNCHANGED <<index, hashKey>>, r.pc = "members", s.pc = "insert",
             ~(Cardinality(index[u]) > MaxSessions)
      PROVE  BoundedFor(u)'
  <2>1. p \notin C /\ p \notin D /\ C \subseteq Procs /\ D \subseteq Procs
    BY <1>7 DEF Coming, Choosing, Arriving, Deciding
  <2>2. Coming(u)' = C \cup {p} /\ Choosing(u)' = D /\ L2 = L
    BY <1>3, <1>4, <1>7, <2>1 DEF Coming, Choosing, Arriving, Deciding, Listed
  <2>3. IsFiniteSet(L) /\ Bounded(L, C, D, proc) /\ \A q \in D : proc'[q] = proc[q]
    BY <1>3, <2>1, ListedFinite DEF BoundedFor
  <2>4. Cardinality(L) <= MaxSessions
    BY <1>7, ListedFinite, ConstantsAssumption
  <2> HIDE DEF L, L2, C, D
  <2>5. \A q \in D : L \ proc'[q].todo \subseteq L \ proc[q].todo /\ Room(proc'[q]) >= Room(proc[q])
    BY <2>3, ConstantsAssumption DEF Room
  <2>6. Bounded(L, {}, D, proc')
    BY <2>1, <2>3, <2>5, BoundedLess
  <2>7. C \cup {p} \subseteq Procs
    BY <2>1
  <2>8. Bounded(L, C \cup {p}, D, proc')
    BY <2>1, <2>3, <2>4, <2>6, <2>7, BoundedPass
  <2> QED
    BY <2>2, <2>8 DEF BoundedFor, L2
<1>8. ASSUME LoginFor(p, u), UNCHANGED <<index, hashKey>>, r.pc = "ages", s.pc = "purge", s.todo \subseteq r.todo,
             Cardinality(s.todo) = Cardinality(r.todo) - MaxSessions
      PROVE  BoundedFor(u)'
  <2>1. p \in D /\ C \subseteq Procs /\ D \subseteq Procs
    BY <1>8 DEF Coming, Choosing, Deciding
  <2>2. Coming(u)' = C /\ Choosing(u)' = D /\ L2 = L
    BY <1>3, <1>4, <1>8 DEF Coming, Choosing, Arriving, Deciding, Listed
  <2>3. IsFiniteSet(L) /\ Bounded(L, C, D, proc) /\ \A q \in Procs \ {p} : proc'[q] = proc[q]
    BY <1>3, ListedFinite DEF BoundedFor
  <2>4. IsFiniteSet(r.todo \ s.todo) /\ Cardinality(r.todo \ s.todo) = MaxSessions
    <3>1. IsFiniteSet(r.todo)
      BY <1>1 DEF Sound
    <3> QED
      BY <1>8, <3>1, TheRest
  <2> HIDE DEF L, L2, C, D
  <2>5. Bounded(L, C, D, proc')
    BY <1>8, <2>1, <2>3, <2>4, BoundedChoose
  <2> QED
    BY <2>2, <2>5 DEF BoundedFor, L2
<1>9. ASSUME LoginFor(p, u), r.pc = "unlink", hashKey' = [hashKey EXCEPT ![r.key] = "absent"],
             s.todo = r.todo \ {r.key}, s.pc = IF s.todo = {} THEN "insert" ELSE "purge"
      PROVE  BoundedFor(u)'
  <2>1. r.key \notin L2
    BY <1>1, <1>9 DEF Listed
  <2>2. CASE s.todo # {}
    <3>1. Stays(p, u)
      BY <1>2, <1>9, <2>1, <2>2 DEF Stays, Deciding
    <3> QED
      BY <1>stays, <3>1
  <2>3. CASE s.todo = {}
    <3>1. p \in D /\ C \subseteq Procs /\ D \subseteq Procs
      BY <1>9 DEF Coming, Choosing, Deciding
    <3>2. Coming(u)' = C \cup {p} /\ Choosing(u)' = D \ {p}
      BY <1>3, <1>4, <1>9, <2>3 DEF Coming, Choosing, Arriving, Deciding
    <3>3. IsFiniteSet(L) /\ Bounded(L, C, D, proc) /\ \A q \in Procs \ {p} : proc'[q] = proc[q]
      BY <1>3, ListedFinite DEF BoundedFor
    <3>4. L2 \subseteq L \ proc[p].todo /\ proc[p].pc # "ages"
      BY <1>2, <1>9, <2>1, <2>3
    <3> HIDE DEF L, L2, C, D, r, s
    <3>5. Bounded(L2, C \cup {p}, D \ {p}, proc')
      BY <1>2, <3>1, <3>3, <3>4, BoundedDone
    <3> QED
      BY <3>2, <3>5 DEF BoundedFor, L2
  <2> QED
    BY <2>2, <2>3
<1>10. ASSUME LoginFor(p, u), s.todo = r.todo,
              \/ r.pc = "ages" /\ s.pc = "ages"
              \/ r.pc = "purge" /\ s.pc \in {"srem", "unlink"}
              \/ r.pc = "srem" /\ s.pc = "unlink"
       PROVE  BoundedFor(u)'
  <2>1. Stays(p, u)
    BY <1>2, <1>10 DEF Stays, Deciding
  <2> QED
    BY <1>stays, <2>1
<1> QED
  <2> SUFFICES ASSUME LoginFor(p, u) PROVE BoundedFor(u)'
    BY <1>5
  <2>1. owner[r.h] = u
    BY DEF LoginFor
  <2> HIDE DEF L, L2, C, D
  <2> QED
    BY <1>1, <1>6, <1>7, <1>8, <1>9, <1>10, <2>1 DEF LimitMoves

\* The invariant of the limit is kept by every step.
LEMMA LimitInductive ==
    ASSUME IsFiniteSet(Procs), "outage" \notin Env, IInv, LimitInv, [Next]_vars
    PROVE  LimitInv'
<1>1. StepKind /\ Places' /\ redisUp
  BY Steps DEF LimitInv
<1>2. Sound'
  BY <1>1, SoundStep DEF LimitInv
<1>3. redisUp' = TRUE
  BY <1>1, LimitStepMoves DEF LimitInv, StepKind, TameStep, NewStep, SelectStep, HashStep, IndexStep, store
<1>4. ASSUME NEW u \in Users PROVE BoundedFor(u)'
  <2>1. BoundedFor(u) /\ Sound
    BY DEF LimitInv
  <2> QED
    BY <1>1, <2>1, BoundedTame, BoundedNew, BoundedHash, BoundedIndex, BoundedRest, BoundedLimit DEF StepKind
<1> QED
  BY <1>1, <1>2, <1>3, <1>4 DEF LimitInv

\* It holds at the start.
LEMMA LimitInit ==
    ASSUME IsFiniteSet(Procs), Init
    PROVE  LimitInv
<1>1. redisUp = TRUE /\ Places
  BY DEF Init, Places, PlaceOf, Idle
<1>2. Sound
  BY FS_EmptySet DEF Init, Sound, Creates, Idle
<1>3. ASSUME NEW u \in Users PROVE BoundedFor(u)
  <2>1. Listed(u) = {} /\ Coming(u) = {} /\ Choosing(u) = {}
    BY DEF Init, Listed, Coming, Choosing, LoginFor, Idle
  <2>2. Cardinality({}) = 0 /\ Cardinality(Procs) \in Nat
    BY FS_EmptySet, FS_CardinalityType
  <2> DEFINE rank == [q \in Procs |-> 0]
  <2>3. {q \in {} : rank[q] < 0} = {}
    OBVIOUS
  <2>4. Ranked({}, {}, {}, proc, rank, 0)
    BY <2>2, <2>3, ConstantsAssumption DEF Ranked
  <2>5. rank \in [Procs -> Nat] /\ \A q \in Procs : rank[q] < 1
    OBVIOUS
  <2> HIDE DEF rank
  <2>6. Bounded({}, {}, {}, proc)
    BY <2>4, <2>5 DEF Bounded
  <2> QED
    BY <2>1, <2>6 DEF BoundedFor
<1> QED
  BY <1>1, <1>2, <1>3 DEF LimitInv

\* The sessions of a user that the index lists and whose key is whole never exceed
\* the limit by more than the number of requests: enforce_concurrent_limit leaves room
\* in the index as it read it, and every login that overlaps adds one session.
\* Redis answers throughout; the backend may restart.
THEOREM LimitHolds ==
    ASSUME "outage" \notin Env, IsFiniteSet(Procs)
    PROVE  Spec => []OvershootBounded
<1>1. Init => LimitInv
  BY LimitInit
<1>2. IInv /\ LimitInv /\ [Next]_vars => LimitInv'
  BY LimitInductive
<1>3. LimitInv => OvershootBounded
  <2> SUFFICES ASSUME LimitInv, NEW u \in Users PROVE Cardinality(Listed(u)) <= MaxSessions + Cardinality(Procs)
    BY DEF OvershootBounded
  <2>1. PICK rank \in [Procs -> Nat], b \in Nat : Ranked(Listed(u), Coming(u), Choosing(u), proc, rank, b)
    BY DEF LimitInv, BoundedFor, Bounded
  <2> DEFINE W == Coming(u) \cup {q \in Choosing(u) : rank[q] < b}
  <2>2. W \subseteq Procs /\ Cardinality(Listed(u)) + Cardinality(W) <= MaxSessions + Cardinality(Procs)
    BY <2>1 DEF Ranked, Coming, Choosing
  <2> HIDE DEF W
  <2>3. Cardinality(W) \in Nat /\ Cardinality(Procs) \in Nat
    BY <2>2, Fewer
  <2>4. Cardinality(Listed(u)) \in Nat
    BY ListedFinite DEF LimitInv
  <2> QED
    BY <2>2, <2>3, <2>4, ConstantsAssumption
<1> QED
  BY <1>1, <1>2, <1>3, Inductive, PTL DEF Spec

-----------------------------------------------------------------------------
(* Which sessions the limit evicts *)

Ending == {"logout", "revoke", "reset"}

\* Created: in the order of created_at, no two at once.
Times ==
    /\ \A h \in Hashes : Issued(h) => born[h] \in 1..clock
    /\ \A g, h \in Hashes : Issued(g) /\ Issued(h) /\ born[g] = born[h] => g = h

\* The request that made the token has nothing left to write but its row.
Past(t) == Issued(t) /\ \A q \in Procs : Creates(q, t) => At(q, "commit")

Younger(t) == {h \in index[owner[t]] : born[h] > born[t]}
Spared(t) == Cardinality(Younger(t)) >= MaxSessions

\* A login that evicts read its sessions in the index of its user; one that is not
\* there any more went because enough younger ones are.  One it has chosen was read
\* without a created_at, and has no whole key, or has enough younger ones.
EvictOK(p) ==
    proc[p].op = "login" =>
        /\ proc[p].pc = "ages" => proc[p].unread \subseteq proc[p].todo
        /\ \A t \in proc[p].blank : Past(t) /\ hashKey[t] # "full"
        /\ proc[p].pc \in Deciding => \A t \in proc[p].todo : Past(t) /\ owner[t] = owner[proc[p].h]
        /\ proc[p].pc = "ages" => \A t \in proc[p].todo : t \in index[owner[t]] \/ Spared(t)
        /\ proc[p].pc \in {"purge", "srem", "unlink"} => \A t \in proc[p].todo : t \in proc[p].blank \/ Spared(t)
        /\ proc[p].pc \in {"srem", "unlink"} => proc[p].key \in proc[p].todo
        /\ proc[p].pc = "srem" => proc[p].key \notin proc[p].blank

NoneEnds == \A p \in Procs : proc[p].op \notin Ending

EvictInv == Places /\ Sound /\ NoneEnds /\ Times /\ \A p \in Procs : EvictOK(p)

\* What a step leaves of a token that was issued, and of one whose creator is past.
Lasts ==
    /\ \A h \in Hashes : Issued(h) => Issued(h)' /\ owner'[h] = owner[h] /\ born'[h] = born[h]
    /\ \A h \in Hashes : Past(h) => Past(h)' /\ (hashKey[h] # "full" => hashKey'[h] # "full")

\* No request begins to create a token, and nothing is issued.
LEMMA LastsKept ==
    ASSUME Kept, \A h \in Hashes : Past(h) => (hashKey[h] # "full" => hashKey'[h] # "full"),
           \A q \in Procs : \/ proc'[q].op \notin {"login", "anonymous"}
                            \/ proc'[q].op = proc[q].op /\ proc'[q].h = proc[q].h /\ proc[q].pc # "commit"
                            \/ proc'[q] = proc[q]
    PROVE  Lasts
<1>1. \A h \in Hashes : Issued(h) => Issued(h)' /\ owner'[h] = owner[h] /\ born'[h] = born[h]
  BY DEF Kept, Issued
<1>2. ASSUME NEW h \in Hashes, Past(h), NEW q \in Procs, Creates(q, h)' PROVE At(q, "commit")'
  BY <1>2 DEF Past, Creates, At
<1> QED
  BY <1>1, <1>2 DEF Lasts, Past

\* A new token is not one that was issued.
LEMMA LastsNew ==
    ASSUME TypeOK, NEW p \in Procs, NewStep(p)
    PROVE  Lasts
<1>1. PICK h \in Hashes, u \in Users \cup {Anonymous} :
        ~Issued(h) /\ proc'[p].h = h /\ owner' = [owner EXCEPT ![h] = u] /\ born' = [born EXCEPT ![h] = clock + 1]
  BY DEF NewStep
<1>2. \A g \in Hashes : Issued(g) => g # h /\ owner'[g] = owner[g] /\ born'[g] = born[g]
  BY <1>1 DEF TypeOK
<1>3. \A g \in Hashes : Issued(g) => Issued(g)'
  BY <1>2 DEF Issued
<1>4. OthersStay(p) /\ hashKey' = hashKey
  BY DEF NewStep, store
<1>5. ASSUME NEW g \in Hashes, Past(g), NEW q \in Procs, Creates(q, g)' PROVE At(q, "commit")'
  <2>1. q # p
    BY <1>1, <1>2, <1>5 DEF Past, Creates
  <2> QED
    BY <1>4, <1>5, <2>1 DEF Past, Creates, At, OthersStay
<1> QED
  BY <1>2, <1>3, <1>4, <1>5 DEF Lasts, Past

\* Every step leaves what was issued, and the past, as they were.
LEMMA LastsStep ==
    ASSUME IInv, StepKind
    PROVE  Lasts
<1>1. ASSUME NEW p \in Procs, TameStep(p) PROVE Lasts
  BY <1>1, LastsKept DEF TameStep, NoneFilled, Follows, OthersStay, Arriving
<1>2. ASSUME NEW p \in Procs, SelectStep(p) PROVE Lasts
  BY <1>2, LastsKept DEF SelectStep, Kept, OthersStay
<1>3. ASSUME NEW p \in Procs, HashStep(p), LabelStep(p, "ttl") PROVE Lasts
  <2>1. Kept /\ OthersStay(p) /\ proc[p].pc = "hset" /\ proc'[p].op = proc[p].op /\ proc'[p].h = proc[p].h
    BY <1>3 DEF HashStep, LabelStep
  <2>2. ASSUME NEW h \in Hashes, Past(h), hashKey[h] # "full" PROVE hashKey'[h] # "full"
    <3>1. Creates(p, proc[p].h) /\ ~At(p, "commit") /\ hashKey' = [hashKey EXCEPT ![proc[p].h] = "full"]
      BY <1>3 DEF HashStep, Creates, At
    <3>2. h # proc[p].h
      BY <2>2, <3>1 DEF Past
    <3> QED
      BY <2>2, <3>1, <3>2 DEF IInv, TypeOK
  <2> QED
    BY <2>1, <2>2, LastsKept DEF OthersStay
<1>4. ASSUME NEW p \in Procs, IndexStep(p), LabelStep(p, "commit") PROVE Lasts
  <2>1. Kept /\ OthersStay(p) /\ proc[p].pc = "sadd" /\ proc'[p].op = proc[p].op /\ proc'[p].h = proc[p].h /\ hashKey' = hashKey
    BY <1>4 DEF IndexStep, LabelStep
  <2> QED
    BY <2>1, LastsKept DEF OthersStay
<1>5. ASSUME RestStep PROVE Lasts
  BY <1>5, LastsKept DEF RestStep, NoneFilled, Idle
<1>6. ASSUME NEW p \in Procs, LimitStep(p) PROVE Lasts
  <2>1. Kept /\ OthersStay(p) /\ NoneFilled /\ proc'[p].op = proc[p].op /\ proc'[p].h = proc[p].h /\ LimitMoves(p)
    BY <1>6, LimitStepMoves DEF LimitStep
  <2>2. proc[p].pc # "commit"
    BY <2>1 DEF LimitMoves
  <2> QED
    BY <2>1, <2>2, LastsKept DEF OthersStay, NoneFilled
<1> QED
  BY <1>1, <1>2, <1>3, <1>4, <1>5, <1>6, LastsNew DEF StepKind, IInv

\* created_at stays in order.
LEMMA TimesStep ==
    ASSUME IInv, Times, StepKind
    PROVE  Times'
<1>1. ASSUME Kept PROVE Times'
  BY <1>1 DEF Times, Kept, Issued
<1>2. ASSUME NEW p \in Procs, NewStep(p) PROVE Times'
  <2>1. PICK h \in Hashes, u \in Users \cup {Anonymous} :
          ~Issued(h) /\ owner' = [owner EXCEPT ![h] = u] /\ born' = [born EXCEPT ![h] = clock + 1] /\ clock' = clock + 1
    BY <1>2 DEF NewStep
  <2>2. clock \in Nat /\ owner \in [Hashes -> Users \cup {Anonymous, None}] /\ born \in [Hashes -> Nat]
    BY DEF IInv, TypeOK
  <2>3. born'[h] = clock + 1 /\ \A g \in Hashes \ {h} : owner'[g] = owner[g] /\ born'[g] = born[g] /\ (Issued(g)' <=> Issued(g))
    BY <2>1, <2>2 DEF Issued
  <2>4. \A g \in Hashes \ {h} : Issued(g)' => born'[g] \in 1..clock
    BY <2>3 DEF Times
  <2>5. \A g \in Hashes : Issued(g)' => born'[g] \in 1..clock'
    BY <2>1, <2>2, <2>3, <2>4
  <2>6. ASSUME NEW g \in Hashes, NEW k \in Hashes, Issued(g)', Issued(k)', born'[g] = born'[k] PROVE g = k
    <3>1. CASE g = h \/ k = h
      BY <2>2, <2>3, <2>4, <2>6, <3>1
    <3>2. CASE g # h /\ k # h
      BY <2>3, <2>6, <3>2 DEF Times
    <3> QED
      BY <3>1, <3>2
  <2> QED
    BY <2>5, <2>6 DEF Times
<1>3. ASSUME NEW p \in Procs, LimitStep(p) PROVE Kept
  BY <1>3, LimitStepMoves
<1> QED
  BY <1>1, <1>2, <1>3 DEF StepKind, TameStep, SelectStep, HashStep, IndexStep, RestStep

\* A step takes nothing from the index but what enforce_concurrent_limit removes.
IndexGrows == \A u \in Users : index[u] \subseteq index'[u]

RemovedSpared ==
    \E k \in Hashes : /\ Past(k) /\ owner[k] \in Users /\ Spared(k)
                      /\ index' = [index EXCEPT ![owner[k]] = @ \ {k}]

\* RemoveFromIndex of a login takes a session with enough younger ones.
LEMMA IndexLoses ==
    ASSUME IInv, EvictInv, StepKind
    PROVE  IndexGrows \/ RemovedSpared
<1>0. index \in [Users -> SUBSET Hashes]
  BY DEF IInv, TypeOK
<1>1. ASSUME NEW p \in Procs, TameStep(p) PROVE IndexGrows
  <2>0. proc[p].op \in AllOps \cup {"idle"} /\ proc[p].op \notin Ending
    BY DEF IInv, TypeOK, Request, EvictInv, NoneEnds
  <2>1. proc[p].op \in {"idle", "login", "anonymous", "resolve"} /\ PlaceOf(proc[p])
    BY <2>0 DEF AllOps, Ending, EvictInv, Places
  <2>2. ~(proc[p].pc = "srem" /\ proc[p].op # "login")
    BY <2>1 DEF PlaceOf
  <2>3. index' = index
    BY <1>1, <2>2 DEF TameStep
  <2> QED
    BY <2>3 DEF IndexGrows
<1>2. ASSUME NEW p \in Procs, LimitStep(p) PROVE IndexGrows \/ RemovedSpared
  <2>1. LimitMoves(p) /\ proc[p].op = "login" /\ ShapeOf(owner, proc[p]) /\ EvictOK(p)
    BY <1>2, LimitStepMoves DEF LimitStep, IInv, Shape, EvictInv
  <2>2. CASE index' = index
    BY <2>2 DEF IndexGrows
  <2>3. CASE proc[p].pc = "srem" /\ index' = [index EXCEPT ![owner[proc[p].key]] = @ \ {proc[p].key}]
    <3> DEFINE k == proc[p].key
    <3>1. k \in Hashes /\ k \in proc[p].todo /\ k \notin proc[p].blank /\ owner[proc[p].h] \in Users
      BY <2>1, <2>3 DEF ShapeOf, EvictOK
    <3>2. Past(k) /\ owner[k] = owner[proc[p].h] /\ Spared(k)
      BY <2>1, <2>3, <3>1 DEF EvictOK, Deciding
    <3> QED
      BY <2>3, <3>1, <3>2 DEF RemovedSpared
  <2> QED
    BY <2>1, <2>2, <2>3 DEF LimitMoves
<1>3. ASSUME NEW p \in Procs, NewStep(p) \/ SelectStep(p) \/ HashStep(p) PROVE IndexGrows
  BY <1>3 DEF NewStep, SelectStep, HashStep, store, IndexGrows
<1>4. ASSUME NEW p \in Procs, IndexStep(p) PROVE IndexGrows
  BY <1>0, <1>4 DEF IndexStep, IndexGrows
<1>5. ASSUME RestStep PROVE IndexGrows
  BY <1>5 DEF RestStep, IndexGrows
<1> QED
  BY <1>1, <1>2, <1>3, <1>4, <1>5 DEF StepKind

\* A set of younger sessions is still there, or the one that went had enough.
LEMMA YoungerStay ==
    ASSUME TypeOK, Sound, Lasts, NEW t \in Hashes, Issued(t), owner[t] \in Users, NEW k,
           index[owner[t]] \ {k} \subseteq index'[owner[t]]
    PROVE  Younger(t) \ {k} \subseteq Younger(t)'
<1> DEFINE u == owner[t]
<1>1. owner'[t] = u /\ born'[t] = born[t] /\ index[u] \subseteq Hashes
  BY DEF Lasts, TypeOK
<1>2. \A h \in index[u] : Issued(h) /\ born'[h] = born[h]
  BY <1>1, ConstantsAssumption DEF Sound, Issued, Lasts
<1> QED
  BY <1>1, <1>2 DEF Younger

\* The younger sessions are part of the index.
LEMMA YoungerFinite ==
    ASSUME Sound, NEW t, owner[t] \in Users
    PROVE  IsFiniteSet(Younger(t))
<1>1. Younger(t) \subseteq index[owner[t]] /\ IsFiniteSet(index[owner[t]])
  BY DEF Younger, Sound
<1> QED
  BY <1>1, Fewer

\* Enough is enough with more.
LEMMA MoreYounger ==
    ASSUME NEW S, NEW T, S \subseteq T, IsFiniteSet(T), Cardinality(S) >= MaxSessions
    PROVE  Cardinality(T) >= MaxSessions
BY Fewer, ConstantsAssumption

\* A session with enough younger ones keeps enough.
LEMMA SparedStep ==
    ASSUME IInv, EvictInv, StepKind, Lasts, Sound', NEW t \in Hashes, Past(t), owner[t] \in Users
    PROVE  /\ Spared(t) => Spared(t)'
           /\ t \in index[owner[t]] => t \in index'[owner[t]] \/ Spared(t)'
<1>0. TypeOK /\ Sound /\ Times
  BY DEF IInv, EvictInv
<1>1. \A h \in Hashes : Issued(h) => owner'[h] = owner[h]
  BY DEF Lasts
<1>2. \A h \in Hashes : Past(h) => Issued(h)
  BY DEF Past
<1>finite. ASSUME NEW h \in Hashes, Past(h), owner[h] \in Users PROVE IsFiniteSet(Younger(h)')
  <2>1. owner'[h] \in Users /\ Younger(h)' \subseteq index'[owner'[h]]
    BY <1>1, <1>2, <1>finite DEF Younger
  <2>2. IsFiniteSet(index'[owner'[h]])
    BY <2>1 DEF Sound
  <2> QED
    BY <2>1, <2>2, Fewer
<1>3. CASE IndexGrows
  <2>1. index[owner[t]] \ {None} \subseteq index'[owner[t]] /\ None \notin Hashes
    BY <1>3, ConstantsAssumption DEF IndexGrows
  <2>2. Younger(t) \subseteq Hashes
    BY <1>0 DEF Younger, TypeOK
  <2>3. Younger(t) \subseteq Younger(t)'
    BY <1>0, <1>2, <2>1, <2>2, YoungerStay
  <2>4. Spared(t) => Spared(t)'
    BY <1>finite, <2>3, MoreYounger DEF Spared
  <2> QED
    BY <1>3, <2>4 DEF IndexGrows
<1>4. CASE RemovedSpared
  <2>1. PICK k \in Hashes : /\ Past(k) /\ owner[k] \in Users /\ Spared(k)
                            /\ index' = [index EXCEPT ![owner[k]] = @ \ {k}]
    BY <1>4 DEF RemovedSpared
  <2>2. \A u \in Users : index[u] \ {k} \subseteq index'[u] /\ (u # owner[k] => index'[u] = index[u])
    BY <1>0, <2>1 DEF TypeOK
  <2>3. Younger(k) \ {k} \subseteq Younger(k)' /\ Younger(t) \ {k} \subseteq Younger(t)'
    BY <1>0, <1>2, <2>1, <2>2, YoungerStay
  <2>4. k \notin Younger(k)
    BY <1>0, <2>1 DEF Younger, TypeOK
  <2>5. Spared(k)'
    <3>1. Younger(k) \subseteq Younger(k)'
      BY <2>3, <2>4
    <3> QED
      BY <1>finite, <2>1, <3>1, MoreYounger DEF Spared
  <2>6. ASSUME Spared(t) PROVE Spared(t)'
    <3>1. CASE k \notin Younger(t)
      <4>1. Younger(t) \subseteq Younger(t)'
        BY <2>3, <3>1
      <4> QED
        BY <1>finite, <2>6, <4>1, MoreYounger DEF Spared
    <3>2. CASE k \in Younger(t)
      <4>1. owner[k] = owner[t] /\ born[k] > born[t] /\ born[k] \in Nat /\ born[t] \in Nat
        BY <1>0, <3>2 DEF Younger, Sound, TypeOK
      <4>2. Younger(k) \subseteq Younger(t)
        <5>1. \A h \in Younger(k) : h \in index[owner[t]] /\ born[h] > born[k] /\ born[h] \in Nat
          BY <1>0, <2>1, <4>1 DEF Younger, TypeOK
        <5> QED
          BY <4>1, <5>1 DEF Younger
      <4>3. Younger(k) \subseteq Younger(t)'
        BY <2>3, <2>4, <4>2
      <4> QED
        BY <1>finite, <2>1, <4>3, MoreYounger DEF Spared
    <3> QED
      BY <3>1, <3>2
  <2>7. t \in index[owner[t]] => t \in index'[owner[t]] \/ Spared(t)'
    BY <2>2, <2>5
  <2> QED
    BY <2>6, <2>7
<1> QED
  BY <1>3, <1>4, IndexLoses

\* A login chooses: what it keeps of what it read, MaxSessions of them, is younger
\* than what it evicts, or went from the index because enough younger ones are there.
LEMMA ChosenSpared ==
    ASSUME IInv, EvictInv, NEW p \in Procs, EvictOK(p), proc[p].op = "login", proc[p].pc = "ages",
           NEW evicted, evicted \subseteq proc[p].todo,
           Cardinality(evicted) = Cardinality(proc[p].todo) - MaxSessions,
           \A t \in evicted, k \in proc[p].todo \ evicted : Age(p, t) <= Age(p, k),
           NEW t \in evicted
    PROVE  t \in proc[p].blank \/ Spared(t)
<1> DEFINE todo == proc[p].todo
           kept == todo \ evicted
           u == owner[proc[p].h]
<1>1. todo \subseteq Hashes /\ u \in Users /\ Sound /\ Times /\ born \in [Hashes -> Nat]
  BY DEF IInv, TypeOK, Request, Shape, ShapeOf, EvictInv
<1>2. \A k \in todo : Issued(k) /\ owner[k] = u /\ (k \in index[u] \/ Spared(k))
  BY DEF EvictOK, Deciding, Past
<1>3. IsFiniteSet(kept) /\ Cardinality(kept) = MaxSessions
  <2>1. IsFiniteSet(todo)
    BY <1>1 DEF Sound
  <2> HIDE DEF todo
  <2> QED
    BY <2>1, TheRest DEF todo
<1>4. CASE t \notin proc[p].blank
  <2>1. Age(p, t) = born[t] /\ born[t] >= 1 /\ born[t] \in Nat /\ owner[t] = u
    BY <1>1, <1>2, <1>4 DEF Age, Times
  <2>2. ASSUME NEW k \in kept PROVE born[k] > born[t] /\ born[k] \in Nat
    <3>1. Age(p, t) <= Age(p, k) /\ k \in todo /\ k # t
      OBVIOUS
    <3>2. Age(p, k) = born[k] /\ born[k] \in Nat
      BY <1>1, <2>1, <3>1 DEF Age
    <3>3. born[k] # born[t]
      BY <1>1, <1>2, <3>1 DEF Times
    <3> QED
      BY <2>1, <3>1, <3>2, <3>3
  <2>3. IsFiniteSet(Younger(t))
    BY <1>1, <2>1, YoungerFinite
  <2>4. CASE kept \subseteq index[u]
    <3>1. kept \subseteq Younger(t)
      BY <2>1, <2>2, <2>4 DEF Younger
    <3> QED
      BY <1>3, <2>3, <3>1, MoreYounger, ConstantsAssumption DEF Spared
  <2>5. CASE ~(kept \subseteq index[u])
    <3>1. PICK k \in kept : Spared(k) /\ owner[k] = u
      BY <1>2, <2>5
    <3>2. Younger(k) \subseteq Younger(t)
      <4>1. \A h \in Younger(k) : h \in index[u] /\ born[h] > born[k] /\ born[h] \in Nat
        BY <1>1, <3>1 DEF Younger, IInv, TypeOK
      <4>2. born[k] > born[t] /\ born[k] \in Nat
        BY <2>2
      <4> QED
        BY <2>1, <4>1, <4>2 DEF Younger
    <3> QED
      BY <2>3, <3>1, <3>2, MoreYounger DEF Spared
  <2> QED
    BY <2>4, <2>5
<1> QED
  BY <1>4

\* What was true of a session a login goes through is true after any step.
Carried ==
    /\ \A h \in Hashes : owner[h] \in Users => owner'[h] = owner[h]
    /\ \A t \in Hashes : Past(t) =>
        /\ Past(t)'
        /\ hashKey[t] # "full" => hashKey'[t] # "full"
        /\ owner[t] \in Users => /\ Spared(t) => Spared(t)'
                                 /\ t \in index[owner[t]] => t \in index'[owner[t]] \/ Spared(t)'

\* Every step carries it.
LEMMA CarriedStep ==
    ASSUME IInv, EvictInv, StepKind
    PROVE  Carried
<1>1. Lasts /\ Sound'
  BY LastsStep, SoundStep DEF EvictInv
<1>2. \A h \in Hashes : owner[h] \in Users => owner'[h] = owner[h]
  BY <1>1, ConstantsAssumption DEF Lasts, Issued
<1>3. ASSUME NEW t \in Hashes, Past(t)
      PROVE  /\ Past(t)'
             /\ hashKey[t] # "full" => hashKey'[t] # "full"
             /\ owner[t] \in Users => /\ Spared(t) => Spared(t)'
                                      /\ t \in index[owner[t]] => t \in index'[owner[t]] \/ Spared(t)'
  <2>1. Past(t)' /\ (hashKey[t] # "full" => hashKey'[t] # "full")
    BY <1>1, <1>3 DEF Lasts
  <2>2. owner[t] \in Users => /\ Spared(t) => Spared(t)'
                              /\ t \in index[owner[t]] => t \in index'[owner[t]] \/ Spared(t)'
    BY <1>1, <1>3, SparedStep
  <2> QED
    BY <2>1, <2>2
<1> QED
  BY <1>2, <1>3 DEF Carried

\* What the record of a login says of the sessions it goes through, once it has
\* moved: each is one it went through before.
LEMMA EvictKeeps ==
    ASSUME IInv, Carried, NEW p \in Procs, EvictOK(p), proc[p].op = "login", proc'[p].h = proc[p].h
    PROVE  /\ owner'[proc[p].h] = owner[proc[p].h]
           /\ \A t \in proc[p].blank : t \in Hashes /\ Past(t)' /\ hashKey'[t] # "full"
           /\ proc[p].pc \in Deciding => \A t \in proc[p].todo :
                /\ t \in Hashes /\ Past(t)' /\ owner'[t] = owner'[proc'[p].h]
                /\ Spared(t) => Spared(t)'
                /\ t \in index[owner[t]] => t \in index'[owner'[t]] \/ Spared(t)'
<1>1. proc[p].h \in Hashes /\ owner[proc[p].h] \in Users /\ proc[p].todo \subseteq Hashes /\ proc[p].blank \subseteq Hashes
  BY DEF IInv, Shape, ShapeOf, TypeOK, Request
<1>2. owner'[proc[p].h] = owner[proc[p].h]
  BY <1>1 DEF Carried
<1>3. \A t \in proc[p].blank : t \in Hashes /\ Past(t)' /\ hashKey'[t] # "full"
  BY <1>1 DEF EvictOK, Carried
<1>4. ASSUME proc[p].pc \in Deciding, NEW t \in proc[p].todo
      PROVE  /\ t \in Hashes /\ Past(t)' /\ owner'[t] = owner'[proc'[p].h]
             /\ Spared(t) => Spared(t)'
             /\ t \in index[owner[t]] => t \in index'[owner'[t]] \/ Spared(t)'
  <2>1. t \in Hashes /\ Past(t) /\ owner[t] = owner[proc[p].h]
    BY <1>1, <1>4 DEF EvictOK
  <2>2. owner'[t] = owner[t] /\ owner[t] \in Users
    BY <1>1, <2>1 DEF Carried
  <2> QED
    BY <1>2, <2>1, <2>2 DEF Carried
<1> QED
  BY <1>2, <1>3, <1>4

\* What holds of a login while others move.
LEMMA EvictWaits ==
    ASSUME IInv, Carried, NEW p \in Procs, EvictOK(p), proc'[p] = proc[p]
    PROVE  EvictOK(p)'
<1> SUFFICES ASSUME proc[p].op = "login" PROVE EvictOK(p)'
  BY DEF EvictOK
<1>1. /\ \A t \in proc[p].blank : t \in Hashes /\ Past(t)' /\ hashKey'[t] # "full"
      /\ proc[p].pc \in Deciding => \A t \in proc[p].todo :
           /\ t \in Hashes /\ Past(t)' /\ owner'[t] = owner'[proc'[p].h]
           /\ Spared(t) => Spared(t)'
           /\ t \in index[owner[t]] => t \in index'[owner'[t]] \/ Spared(t)'
  BY EvictKeeps
<1> QED
  BY <1>1 DEF EvictOK, Deciding

\* A request that creates a session, or none, goes through no session.
LEMMA EvictRests ==
    ASSUME IInv, Carried, NEW p \in Procs, EvictOK(p), 
           \/ proc'[p].op # "login"
           \/ /\ proc'[p].pc \notin Deciding
              /\ \/ proc'[p].blank = {}
                 \/ proc[p].op = "login" /\ proc'[p].h = proc[p].h /\ proc'[p].blank \subseteq proc[p].blank
    PROVE  EvictOK(p)'
<1>1. CASE proc'[p].op # "login"
  BY <1>1 DEF EvictOK
<1>2. CASE proc'[p].pc \notin Deciding /\ proc'[p].blank = {}
  BY <1>2 DEF EvictOK, Deciding
<1>3. CASE /\ proc'[p].pc \notin Deciding /\ proc[p].op = "login" /\ proc'[p].h = proc[p].h
           /\ proc'[p].blank \subseteq proc[p].blank
  <2>1. \A t \in proc[p].blank : t \in Hashes /\ Past(t)' /\ hashKey'[t] # "full"
    BY <1>3, EvictKeeps
  <2>2. \A t \in proc'[p].blank : Past(t)' /\ hashKey'[t] # "full"
    BY <1>3, <2>1
  <2>3. proc'[p].pc \notin {"ages", "purge", "srem", "unlink"}
    BY <1>3 DEF Deciding
  <2> QED
    BY <2>2, <2>3 DEF EvictOK, Deciding
<1> QED
  BY <1>1, <1>2, <1>3

\* Each move of enforce_concurrent_limit keeps what holds of its login.
LEMMA EvictLimit ==
    ASSUME IInv, EvictInv, Carried, NEW p \in Procs, LimitStep(p)
    PROVE  EvictOK(p)'
<1> DEFINE r == proc[p]
           s == proc'[p]
           u == owner[r.h]
<1>1. /\ r.op = "login" /\ s.op = "login" /\ s.h = r.h /\ LimitMoves(p) /\ EvictOK(p) /\ Sound
      /\ r \in Request /\ u \in Users /\ r.h \in Hashes /\ index \in [Users -> SUBSET Hashes] /\ owner' = owner
  BY LimitStepMoves DEF LimitStep, EvictInv, IInv, TypeOK, Shape, ShapeOf, Kept
<1>2. /\ \A t \in r.blank : t \in Hashes /\ Past(t)' /\ hashKey'[t] # "full"
      /\ r.pc \in Deciding => \A t \in r.todo :
           /\ t \in Hashes /\ Past(t)' /\ owner'[t] = owner'[s.h]
           /\ Spared(t) => Spared(t)'
           /\ t \in index[owner[t]] => t \in index'[owner'[t]] \/ Spared(t)'
  BY <1>1, EvictKeeps
<1>3. /\ r.pc = "ages" => r.unread \subseteq r.todo
      /\ \A t \in r.blank : Past(t) /\ hashKey[t] # "full"
      /\ r.pc \in Deciding => \A t \in r.todo : Past(t)
      /\ r.pc = "ages" => \A t \in r.todo : t \in index[owner[t]] \/ Spared(t)
      /\ r.pc \in {"purge", "srem", "unlink"} => \A t \in r.todo : t \in r.blank \/ Spared(t)
      /\ r.pc \in {"srem", "unlink"} => r.key \in r.todo
      /\ r.pc = "srem" => r.key \notin r.blank
  BY <1>1 DEF EvictOK
\* Members
<1>4. CASE r.pc = "members" /\ s.pc = "ages" /\ s.todo = index[u] /\ s.unread = index[u] /\ s.blank = r.blank /\ index' = index
  <2>1. ASSUME NEW t \in index[u] PROVE Past(t)' /\ owner'[t] = owner'[s.h] /\ t \in index'[owner'[t]]
    <3>1. t \in Hashes /\ owner[t] = u /\ Issued(t)
      BY <1>1, ConstantsAssumption DEF Sound, Issued
    <3>2. Past(t)
      BY <1>1, <3>1 DEF Sound, Past
    <3> QED
      BY <1>1, <1>4, <3>1, <3>2 DEF Carried
  <2> HIDE DEF r, s, u
  <2> QED
    BY <1>1, <1>2, <1>4, <2>1 DEF EvictOK, r, s
<1>5. CASE r.pc = "members" /\ s.pc = "insert" /\ s.blank = r.blank
  BY <1>1, <1>5, EvictRests DEF Deciding
\* ReadAge
<1>6. CASE /\ r.pc = "ages" /\ s.pc = "ages" /\ s.todo = r.todo
           /\ \E t \in r.unread : s.unread = r.unread \ {t} /\ s.blank = IF hashKey[t] = "full" THEN r.blank ELSE r.blank \cup {t}
  <2>1. PICK k \in r.unread : s.unread = r.unread \ {k} /\ s.blank = IF hashKey[k] = "full" THEN r.blank ELSE r.blank \cup {k}
    BY <1>6
  <2>2. Past(k) /\ k \in Hashes
    BY <1>2, <1>3, <1>6, <2>1 DEF Deciding
  <2>3. \A t \in s.blank : Past(t)' /\ hashKey'[t] # "full"
    BY <1>2, <2>1, <2>2 DEF Carried
  <2>4. s.unread \subseteq s.todo
    BY <1>3, <1>6, <2>1
  <2>5. \A t \in s.todo : Past(t)' /\ owner'[t] = owner'[s.h] /\ (t \in index'[owner'[t]] \/ Spared(t)')
    BY <1>2, <1>3, <1>6 DEF Deciding
  <2> QED
    BY <1>6, <2>3, <2>4, <2>5 DEF EvictOK
<1>7. CASE s.pc = "insert" /\ s.blank = {}
  BY <1>1, <1>7, EvictRests DEF Deciding
\* ChooseEvicted
<1>8. CASE /\ r.pc = "ages" /\ s.pc = "purge" /\ s.blank = r.blank /\ s.todo \subseteq r.todo
           /\ Cardinality(s.todo) = Cardinality(r.todo) - MaxSessions
           /\ \A t \in s.todo, k \in r.todo \ s.todo : Age(p, t) <= Age(p, k)
  <2>1. \A t \in s.todo : t \in r.blank \/ Spared(t)
    BY <1>1, <1>8, ChosenSpared
  <2>2. \A t \in s.todo : Past(t)' /\ owner'[t] = owner'[s.h] /\ (t \in s.blank \/ Spared(t)')
    BY <1>2, <1>8, <2>1 DEF Deciding
  <2> QED
    BY <1>2, <1>8, <2>2 DEF EvictOK
\* PurgeRead
<1>9. CASE /\ r.pc = "purge" /\ s.blank = r.blank /\ s.todo = r.todo /\ s.key \in r.todo
           /\ \/ s.pc = "srem" /\ hashKey[s.key] = "full"
              \/ s.pc = "unlink"
  <2>1. \A t \in s.todo : Past(t)' /\ owner'[t] = owner'[s.h] /\ (t \in s.blank \/ Spared(t)')
    BY <1>2, <1>3, <1>9 DEF Deciding
  <2>2. s.pc = "srem" => s.key \notin s.blank
    BY <1>3, <1>9
  <2> QED
    BY <1>2, <1>3, <1>9, <2>1, <2>2 DEF EvictOK
\* RemoveFromIndex
<1>10. CASE r.pc = "srem" /\ s.pc = "unlink" /\ s.blank = r.blank /\ s.todo = r.todo /\ s.key = r.key
  <2>1. \A t \in s.todo : Past(t)' /\ owner'[t] = owner'[s.h] /\ (t \in s.blank \/ Spared(t)')
    BY <1>2, <1>3, <1>10 DEF Deciding
  <2> QED
    BY <1>2, <1>3, <1>10, <2>1 DEF EvictOK
\* Unlink, and no answer from Redis.
<1>11. CASE /\ r.pc \in {"purge", "srem", "unlink"} /\ s.blank = r.blank
            /\ \E t : s.todo = r.todo \ {t} /\ s.pc = IF s.todo = {} THEN "insert" ELSE "purge"
  <2>1. CASE s.pc = "insert"
    BY <1>1, <1>11, <2>1, EvictRests DEF Deciding
  <2>2. CASE s.pc = "purge"
    <3>1. \A t \in s.todo : Past(t)' /\ owner'[t] = owner'[s.h] /\ (t \in s.blank \/ Spared(t)')
      BY <1>2, <1>3, <1>11 DEF Deciding
    <3> QED
      BY <1>2, <1>11, <2>2, <3>1 DEF EvictOK
  <2> QED
    BY <1>11, <2>1, <2>2
<1> QED
  BY <1>1, <1>4, <1>5, <1>6, <1>7, <1>8, <1>9, <1>10, <1>11 DEF LimitMoves

\* Every step keeps what holds of every login.
LEMMA EvictStep ==
    ASSUME IInv, EvictInv, StepKind
    PROVE  \A p \in Procs : EvictOK(p)'
<1>1. Carried /\ \A p \in Procs : EvictOK(p)
  BY CarriedStep DEF EvictInv
<1>others. ASSUME NEW p \in Procs, OthersStay(p), EvictOK(p)' PROVE \A q \in Procs : EvictOK(q)'
  BY <1>1, <1>others, EvictWaits DEF OthersStay
<1>2. ASSUME NEW p \in Procs, TameStep(p) PROVE EvictOK(p)' /\ OthersStay(p)
  BY <1>1, <1>2, EvictRests DEF TameStep, Follows, Deciding
<1>3. ASSUME NEW p \in Procs, NewStep(p) \/ SelectStep(p) PROVE EvictOK(p)' /\ OthersStay(p)
  BY <1>1, <1>3, EvictRests DEF NewStep, SelectStep, Deciding
<1>4. ASSUME NEW p \in Procs, \/ HashStep(p) /\ LabelStep(p, "ttl")
                              \/ IndexStep(p) /\ LabelStep(p, "commit")
      PROVE  EvictOK(p)' /\ OthersStay(p)
  BY <1>1, <1>4, EvictRests DEF LabelStep, Deciding
<1>5. ASSUME NEW p \in Procs, LimitStep(p) PROVE EvictOK(p)' /\ OthersStay(p)
  BY <1>1, <1>5, EvictLimit, LimitStepMoves
<1>6. ASSUME RestStep, NEW p \in Procs PROVE EvictOK(p)'
  <2>1. proc'[p] = proc[p] \/ proc'[p].op # "login"
    BY <1>6 DEF RestStep, Idle
  <2> QED
    BY <1>1, <2>1, EvictWaits, EvictRests
<1> QED
  BY <1>2, <1>3, <1>4, <1>5, <1>6, <1>others DEF StepKind

\* The invariant of the eviction is kept by every step.
LEMMA EvictInductive ==
    ASSUME Ops \cap Ending = {}, IInv, EvictInv, [Next]_vars
    PROVE  EvictInv'
<1>1. StepKind /\ Places'
  BY Steps DEF EvictInv
<1>2. Sound' /\ Times'
  BY <1>1, SoundStep, TimesStep DEF EvictInv
<1>3. NoneEnds'
  <2> SUFFICES ASSUME NEW q \in Procs PROVE proc'[q].op \notin Ending
    BY DEF NoneEnds
  <2>0. \A p \in Procs : proc[p].op \notin Ending
    BY DEF EvictInv, NoneEnds
  <2>1. ASSUME NEW p \in Procs, TameStep(p) PROVE proc'[q].op \notin Ending
    BY <2>0, <2>1 DEF TameStep, Follows, OthersStay, Ending
  <2>2. ASSUME NEW p \in Procs, NewStep(p) \/ SelectStep(p) PROVE proc'[q].op \notin Ending
    BY <2>0, <2>2 DEF NewStep, SelectStep, OthersStay, Ending
  <2>3. ASSUME NEW p \in Procs, LimitStep(p) PROVE proc'[q].op \notin Ending
    BY <2>0, <2>3, LimitStepMoves DEF OthersStay, Ending
  <2>4. ASSUME NEW p \in Procs, LabelStep(p, "ttl") \/ LabelStep(p, "commit") PROVE proc'[q].op \notin Ending
    BY <2>0, <2>4 DEF LabelStep, OthersStay
  <2>5. ASSUME RestStep PROVE proc'[q].op \notin Ending
    BY <2>0, <2>5 DEF RestStep, Idle, Ending
  <2> QED
    BY <1>1, <2>1, <2>2, <2>3, <2>4, <2>5 DEF StepKind
<1>4. \A p \in Procs : EvictOK(p)'
  BY <1>1, EvictStep
<1> QED
  BY <1>1, <1>2, <1>3, <1>4 DEF EvictInv

\* It holds at the start.
LEMMA EvictInit == Init => EvictInv
<1> SUFFICES ASSUME Init PROVE EvictInv
  OBVIOUS
<1>1. Places /\ NoneEnds /\ \A p \in Procs : EvictOK(p)
  BY DEF Init, Places, PlaceOf, NoneEnds, Ending, EvictOK, Idle
<1>2. Sound
  BY FS_EmptySet DEF Init, Sound, Creates, Idle
<1>3. Times
  BY DEF Init, Times, Issued
<1> QED
  BY <1>1, <1>2, <1>3 DEF EvictInv

\* A login whose delete_session removes a whole session's key leaves at least
\* MaxSessions younger sessions of the user in the index, whatever other logins do at
\* the same time, lapses, outages and restarts included, as long as nobody ends a
\* session on purpose.
THEOREM EvictionIsFair == ASSUME Ops \cap Ending = {} PROVE Spec => EvictionSparesYoungest
<1>1. Init => EvictInv
  BY EvictInit
<1>2. IInv /\ EvictInv /\ [Next]_vars => EvictInv'
  BY EvictInductive
<1>3. EvictInv =>
        [\A p \in Procs : proc[p].op = "login" /\ proc[p].pc = "unlink" /\ ~At(p, "unlink")' =>
            LET t == proc[p].key
            IN  hashKey[t] = "full" =>
                  Cardinality({h \in index[owner[t]] : born[h] > born[t]}) >= MaxSessions]_vars
  <2> SUFFICES ASSUME EvictInv, NEW p \in Procs, proc[p].op = "login", proc[p].pc = "unlink", hashKey[proc[p].key] = "full"
               PROVE  Spared(proc[p].key)
    BY DEF Spared, Younger
  <2>1. EvictOK(p)
    BY DEF EvictInv
  <2> QED
    BY <2>1 DEF EvictOK
<1> QED
  BY <1>1, <1>2, <1>3, Inductive, PTL DEF Spec, EvictionSparesYoungest
=============================================================================
