------------------------------ MODULE SessionStore ------------------------------
(***************************************************************************)
(* Sessions of SAKN: rows of the PostgreSQL table "sessions" beside two    *)
(* kinds of Redis key, the hash "session:<token_hash>" and the set         *)
(* "user_sessions:<user_id>".  A request (a process here) is a sequence of *)
(* awaited commands; each Redis command, flush and commit is one step, and *)
(* any other request may run between two of them.                          *)
(*                                                                         *)
(* Tokens stand for their hashes.  created_at is a number from a counter,  *)
(* so that an earlier session has a smaller one; expires_at and the Redis  *)
(* TTL are events that may happen once they are set.                       *)
(***************************************************************************)
EXTENDS Naturals, FiniteSets

CONSTANTS
    Users,          \* rows of "users" that exist at the start
    Hashes,         \* the token hashes this instance can issue (its bound)
    Procs,          \* concurrent requests
    MaxSessions,    \* GlobalSetting max_concurrent_sessions
    Ops,            \* the requests this instance makes
    Env,            \* the environment events this instance admits
    None,           \* no user, no token
    Anonymous       \* the owner of a visitor's session (user_id IS NULL)

AllOps == {"login", "anonymous", "resolve", "logout", "revoke", "reset"}
AllEnv == {"outage", "crash", "commitfail", "lapse", "expire", "cleanup", "userdelete"}

ASSUME ConstantsAssumption ==
    /\ MaxSessions \in Nat
    /\ Ops \subseteq AllOps
    /\ Env \subseteq AllEnv
    /\ None \notin Users \cup Hashes \cup {Anonymous}
    /\ Anonymous \notin Users

VARIABLES
    owner,      \* the user a token was issued for; None while it is not issued
    born,       \* created_at of an issued token
    clock,      \* the last created_at
    held,       \* tokens a browser has as its cookie
    rows,       \* committed rows of "sessions", by token hash
    expired,    \* tokens whose expires_at is past
    removed,    \* users whose row was deleted
    redisUp,    \* whether Redis answers
    hashKey,    \* "session:<h>": "absent", "full", or "stub" (last_activity_at only)
    ttl,        \* the tokens whose key has a TTL
    index,      \* "user_sessions:<u>"
    proc,       \* the requests in progress
    ended,      \* (ghost) tokens a committed logout, revocation or reset covered
    purged      \* (ghost) tokens whose row and key were both removed by one of them

store == <<rows, expired, removed, redisUp, hashKey, ttl, index>>
issue == <<owner, born, clock, held>>
ghost == <<ended, purged>>
vars  == <<issue, store, proc, ghost>>

(***************************************************************************)
(* A request.  h is the token it creates or resolves; todo the tokens      *)
(* delete_session is still to be called on; unread and blank belong to     *)
(* enforce_concurrent_limit (hashes not read yet, hashes read without a    *)
(* created_at); key is the argument of the delete_session in progress; del *)
(* the rows its transaction deletes; done the keys it has deleted; covers  *)
(* the tokens it undertakes to end.                                        *)
(***************************************************************************)
Idle == [op |-> "idle", pc |-> "idle", h |-> None, key |-> None, todo |-> {},
         unread |-> {}, blank |-> {}, del |-> {}, done |-> {}, covers |-> {}]

Pcs == {"idle", "get", "touch", "extend", "select", "members", "ages", "purge",
        "srem", "unlink", "flush", "insert", "hset", "ttl", "sadd", "commit"}

Request ==
    [op : AllOps \cup {"idle"}, pc : Pcs, h : Hashes \cup {None}, key : Hashes \cup {None},
     todo : SUBSET Hashes, unread : SUBSET Hashes, blank : SUBSET Hashes,
     del : SUBSET Hashes, done : SUBSET Hashes, covers : SUBSET Hashes]

TypeOK ==
    /\ owner   \in [Hashes -> Users \cup {Anonymous, None}]
    /\ born    \in [Hashes -> Nat]
    /\ clock   \in Nat
    /\ held    \subseteq Hashes
    /\ rows    \subseteq Hashes
    /\ expired \subseteq Hashes
    /\ removed \subseteq Users
    /\ redisUp \in BOOLEAN
    /\ hashKey \in [Hashes -> {"absent", "full", "stub"}]
    /\ ttl     \subseteq Hashes
    /\ index   \in [Users -> SUBSET Hashes]
    /\ proc    \in [Procs -> Request]
    /\ ended   \subseteq Hashes
    /\ purged  \subseteq Hashes

Init ==
    /\ owner = [h \in Hashes |-> None]
    /\ born = [h \in Hashes |-> 0]
    /\ clock = 0
    /\ held = {} /\ rows = {} /\ expired = {} /\ removed = {}
    /\ redisUp = TRUE
    /\ hashKey = [h \in Hashes |-> "absent"]
    /\ ttl = {}
    /\ index = [u \in Users |-> {}]
    /\ proc = [p \in Procs |-> Idle]
    /\ ended = {} /\ purged = {}

-----------------------------------------------------------------------------
(* Vocabulary *)

At(p, label) == proc[p].pc = label
Become(p, r) == proc' = [proc EXCEPT ![p] = r]
Goto(p, label) == Become(p, [proc[p] EXCEPT !.pc = label])

Issued(h) == owner[h] # None
Creates(p, h) == proc[p].op \in {"login", "anonymous"} /\ proc[p].h = h

\* The rows a transaction has written and not yet committed: PostgreSQL makes
\* another transaction that deletes one of them wait.
RowLocks(p) ==
    CASE proc[p].op \in {"login", "anonymous"} /\ proc[p].pc \in {"hset", "ttl", "sadd", "commit"}
            -> {proc[p].h}
      [] proc[p].op \in {"logout", "revoke"} /\ proc[p].pc # "flush" -> proc[p].del
      [] proc[p].op = "reset" /\ proc[p].pc = "commit" -> proc[p].del
      [] OTHER -> {}

\* reset_password has written the user's row, and holds it to the end.
HoldsUser(p, u) == proc[p].op = "reset" /\ \E h \in proc[p].covers : owner[h] = u

\* What SessionMiddleware makes of a cookie: the user of the request, Anonymous
\* for a visitor, None when neither store knows the token.
ResolvedUser(h) ==
    CASE redisUp /\ hashKey[h] = "full" -> owner[h]
      [] redisUp /\ hashKey[h] = "stub" -> Anonymous
      [] ~(redisUp /\ hashKey[h] # "absent") /\ h \in rows -> owner[h]
      [] OTHER -> None

\* Mutated form: revoke_all_for_user leaves its loop after one session.
AfterOnePurge(p, left) ==
    CASE proc[p].op = "reset"                -> "flush"
      [] proc[p].op = "login" /\ left = {}   -> "insert"
      [] proc[p].op = "login" /\ left # {}   -> "purge"
      [] OTHER                              -> "commit"

\* Where a request goes once delete_session has returned and `left` remain.
AfterPurge(p, left) ==
    CASE left # {}                          -> "purge"
      [] left = {} /\ proc[p].op = "login"  -> "insert"
      [] left = {} /\ proc[p].op = "reset"  -> "flush"
      [] OTHER                              -> "commit"

-----------------------------------------------------------------------------
(* session_service.create, called by auth_service.login and by the middleware *)

Create(p, op, u, h, label) ==
    /\ ~Issued(h)
    /\ clock' = clock + 1
    /\ owner' = [owner EXCEPT ![h] = u]
    /\ born' = [born EXCEPT ![h] = clock + 1]
    /\ Become(p, [Idle EXCEPT !.op = op, !.pc = label, !.h = h])
    /\ UNCHANGED held

BeginLogin(p, u, h) ==
    /\ "login" \in Ops /\ At(p, "idle")
    /\ u \notin removed
    /\ Create(p, "login", u, h, "members")
    /\ UNCHANGED <<store, ghost>>

BeginAnonymous(p, h) ==
    /\ "anonymous" \in Ops /\ At(p, "idle")
    /\ Create(p, "anonymous", Anonymous, h, "insert")
    /\ UNCHANGED <<store, ghost>>

\* enforce_concurrent_limit: any exception ends it, and nothing is revoked.
Members(p) ==
    LET members == index[owner[proc[p].h]]
    IN  /\ At(p, "members")
        /\ IF redisUp /\ Cardinality(members) > MaxSessions
           THEN Become(p, [proc[p] EXCEPT !.pc = "ages", !.todo = members, !.unread = members])
           ELSE Goto(p, "insert")
        /\ UNCHANGED <<issue, store, ghost>>

ReadAge(p) ==
    /\ At(p, "ages")
    /\ \E t \in proc[p].unread :
          IF redisUp
          THEN Become(p, [proc[p] EXCEPT !.unread = @ \ {t},
                          !.blank = IF hashKey[t] = "full" THEN @ ELSE @ \cup {t}])
          ELSE Become(p, [proc[p] EXCEPT !.pc = "insert", !.todo = {}, !.unread = {}, !.blank = {}])
    /\ UNCHANGED <<issue, store, ghost>>

\* Mutated form: the sort is reversed.
AgeReversed(p, t) == IF t \in proc[p].blank THEN 0 ELSE clock - born[t]

\* The sort key of enforce_concurrent_limit: data.get("created_at", "").
Age(p, t) == IF t \in proc[p].blank THEN 0 ELSE born[t]

\* Mutated form: off by one.
OneTooFew(n) == n - MaxSessions - 1

Surplus(n) == n - MaxSessions

ChooseEvicted(p) ==
    LET read == proc[p].todo
    IN  /\ At(p, "ages") /\ proc[p].unread = {}
        /\ \E evicted \in SUBSET read :
              /\ Cardinality(evicted) = Surplus(Cardinality(read))
              /\ \A t \in evicted, k \in read \ evicted : Age(p, t) <= Age(p, k)
              /\ Become(p, [proc[p] EXCEPT !.pc = "purge", !.todo = evicted])
        /\ UNCHANGED <<issue, store, ghost>>

\* db.add and flush; the foreign key fails when the user is gone, and the
\* exception rolls the transaction back.
Insert(p) ==
    /\ At(p, "insert")
    /\ IF owner[proc[p].h] \in removed
       THEN Become(p, Idle)
       ELSE Become(p, [proc[p] EXCEPT !.pc = "hset", !.blank = {}, !.done = {}])
    /\ UNCHANGED <<issue, store, ghost>>

\* The handler returns: login's response carries the cookie, and get_session
\* commits after it; the middleware commits before it sets a cookie.
Respond(p) ==
    /\ Goto(p, "commit")
    /\ held' = IF proc[p].op = "login" THEN held \cup {proc[p].h} ELSE held

WriteHash(p) ==
    /\ At(p, "hset")
    /\ IF redisUp
       THEN /\ hashKey' = [hashKey EXCEPT ![proc[p].h] = "full"]
            /\ Goto(p, "ttl")
            /\ UNCHANGED held
       ELSE Respond(p) /\ UNCHANGED hashKey
    /\ UNCHANGED <<owner, born, clock, rows, expired, removed, redisUp, ttl, index, ghost>>

\* Mutated forms of WithTtl: EXPIRE on the user's key; only on a whole session.
TtlOnUserKey(h) == ttl \cup {owner[h]}
TtlOnWholeSession(h) == IF hashKey[h] = "full" THEN ttl \cup {h} ELSE ttl

\* EXPIRE does nothing to a key that is not there.
WithTtl(h) == IF hashKey[h] = "absent" THEN ttl ELSE ttl \cup {h}

WriteTtl(p) ==
    /\ At(p, "ttl")
    /\ ttl' = IF redisUp THEN WithTtl(proc[p].h) ELSE ttl
    /\ IF redisUp /\ proc[p].op = "login"
       THEN Goto(p, "sadd") /\ UNCHANGED held
       ELSE Respond(p)
    /\ UNCHANGED <<owner, born, clock, rows, expired, removed, redisUp, hashKey, index, ghost>>

\* Mutated form: the set is written anew, not added to.
IndexReplaced(h) == [index EXCEPT ![owner[h]] = {h}]

Indexed(h) == [index EXCEPT ![owner[h]] = @ \cup {h}]

AddToIndex(p) ==
    LET h == proc[p].h
    IN  /\ At(p, "sadd")
        /\ index' = IF redisUp THEN Indexed(h) ELSE index
        /\ Respond(p)
        /\ UNCHANGED <<owner, born, clock, rows, expired, removed, redisUp, hashKey, ttl, ghost>>

-----------------------------------------------------------------------------
(* delete_session, on each of proc[p].todo; enforce_concurrent_limit takes   *)
(* them in the order of the sort, revoke_all_for_user in the query's.        *)

NextToPurge(p, t) ==
    /\ t \in proc[p].todo
    /\ proc[p].op = "login" => \A k \in proc[p].todo : Age(p, t) <= Age(p, k)

\* Mutated form: a token Redis did not answer for is tried again.
Retry(p, t) == Goto(p, "purge")

\* delete_session swallows the exception, and its caller goes on.
Skip(p, t) ==
    LET left == proc[p].todo \ {t}
    IN  Become(p, [proc[p] EXCEPT !.pc = AfterPurge(p, left), !.todo = left, !.key = None])

PurgeRead(p, t) ==
    /\ At(p, "purge") /\ NextToPurge(p, t)
    /\ IF redisUp
       THEN Become(p, [proc[p] EXCEPT !.key = t,
                       !.pc = IF hashKey[t] = "full" /\ owner[t] \in Users THEN "srem" ELSE "unlink"])
       ELSE Skip(p, t)
    /\ UNCHANGED <<issue, store, ghost>>

RemoveFromIndex(p) ==
    LET t == proc[p].key
    IN  /\ At(p, "srem")
        /\ IF redisUp
           THEN /\ index' = [index EXCEPT ![owner[t]] = @ \ {t}]
                /\ Goto(p, "unlink")
           ELSE Skip(p, t) /\ UNCHANGED index
        /\ UNCHANGED <<issue, rows, expired, removed, redisUp, hashKey, ttl, ghost>>

Unlink(p) ==
    LET t == proc[p].key
        left == proc[p].todo \ {t}
    IN  /\ At(p, "unlink")
        /\ IF redisUp
           THEN /\ hashKey' = [hashKey EXCEPT ![t] = "absent"]
                /\ ttl' = ttl \ {t}
                /\ Become(p, [proc[p] EXCEPT !.pc = AfterPurge(p, left), !.todo = left,
                              !.key = None, !.done = @ \cup {t}])
           ELSE Skip(p, t) /\ UNCHANGED <<hashKey, ttl>>
        /\ UNCHANGED <<issue, rows, expired, removed, redisUp, index, ghost>>

-----------------------------------------------------------------------------
(* Requests that end sessions *)

\* auth_service.logout: the row may not be there, the key is deleted anyway.
BeginLogout(p, h) ==
    /\ "logout" \in Ops /\ At(p, "idle")
    /\ h \in held
    /\ Become(p, [Idle EXCEPT !.op = "logout", !.pc = IF h \in rows THEN "flush" ELSE "purge",
                  !.del = {h} \cap rows, !.todo = {h}, !.covers = {h}])
    /\ UNCHANGED <<issue, store, ghost>>

\* session_service.revoke: a session is named by the id of its row.
BeginRevoke(p, h) ==
    /\ "revoke" \in Ops /\ At(p, "idle")
    /\ h \in rows
    /\ Become(p, [Idle EXCEPT !.op = "revoke", !.pc = "flush",
                  !.del = {h}, !.todo = {h}, !.covers = {h}])
    /\ UNCHANGED <<issue, store, ghost>>

\* auth_service.reset_password and revoke_all_for_user: the new password is
\* written, then every session of the user is to go.
BeginReset(p, u) ==
    LET mine == {h \in rows : owner[h] = u}
    IN  /\ "reset" \in Ops /\ At(p, "idle")
        /\ u \notin removed
        /\ \A q \in Procs : ~HoldsUser(q, u)
        /\ Become(p, [Idle EXCEPT !.op = "reset", !.pc = IF mine = {} THEN "flush" ELSE "purge",
                      !.del = mine, !.todo = mine, !.covers = {h \in Hashes : owner[h] = u}])
        /\ UNCHANGED <<issue, store, ghost>>

\* DELETE of proc[p].del; it waits for a transaction that has written one of them.
Flush(p) ==
    /\ At(p, "flush")
    /\ \A q \in Procs \ {p} : proc[p].del \cap RowLocks(q) = {}
    /\ Goto(p, IF proc[p].op = "reset" THEN "commit" ELSE "purge")
    /\ UNCHANGED <<issue, store, ghost>>

-----------------------------------------------------------------------------
(* The end of a transaction *)

\* Mutated form: db.delete is forgotten.
RowsKept(p) == rows \cup {h \in Hashes : Creates(p, h)}

RowsAfter(p) == (rows \ proc[p].del) \cup {h \in Hashes : Creates(p, h)}

Commit(p) ==
    /\ At(p, "commit")
    /\ rows' = RowsAfter(p)
    /\ held' = held \cup {h \in Hashes : Creates(p, h)}
    /\ ended' = ended \cup proc[p].covers
    /\ purged' = purged \cup (proc[p].del \cap proc[p].done)
    /\ Become(p, Idle)
    /\ UNCHANGED <<owner, born, clock, expired, removed, redisUp, hashKey, ttl, index>>

\* COMMIT raises: the transaction is rolled back, what Redis was told stays.
CommitFails(p) ==
    /\ "commitfail" \in Env /\ At(p, "commit")
    /\ Become(p, Idle)
    /\ UNCHANGED <<issue, store, ghost>>

-----------------------------------------------------------------------------
(* SessionMiddleware with a session cookie: _resolve_session and update_activity *)

BeginResolve(p, h) ==
    /\ "resolve" \in Ops /\ At(p, "idle")
    /\ h \in held
    /\ Become(p, [Idle EXCEPT !.op = "resolve", !.pc = "get", !.h = h])
    /\ UNCHANGED <<issue, store, ghost>>

ReadKey(p) ==
    /\ At(p, "get")
    /\ Goto(p, IF redisUp /\ hashKey[proc[p].h] # "absent" THEN "touch" ELSE "select")
    /\ UNCHANGED <<issue, store, ghost>>

\* Mutated form: what was read is written back.
WrittenBack(key) == "full"

\* HSET last_activity_at makes the hash again when it went away since it was read.
Touched(key) == IF key = "absent" THEN "stub" ELSE key

Touch(p) ==
    LET h == proc[p].h
    IN  /\ At(p, "touch")
        /\ IF redisUp
           THEN /\ hashKey' = [hashKey EXCEPT ![h] = Touched(@)]
                /\ Goto(p, "extend")
           ELSE Become(p, Idle) /\ UNCHANGED hashKey
        /\ UNCHANGED <<issue, rows, expired, removed, redisUp, ttl, index, ghost>>

Extend(p) ==
    /\ At(p, "extend")
    /\ ttl' = IF redisUp THEN WithTtl(proc[p].h) ELSE ttl
    /\ Become(p, Idle)
    /\ UNCHANGED <<issue, rows, expired, removed, redisUp, hashKey, index, ghost>>

\* The row answers whatever its expires_at; without one the request gets a
\* visitor's session of its own.
SelectRow(p) ==
    /\ At(p, "select")
    /\ proc[p].h \in rows
    /\ Become(p, Idle)
    /\ UNCHANGED <<issue, store, ghost>>

ReplaceUnknown(p, h) ==
    /\ At(p, "select")
    /\ proc[p].h \notin rows
    /\ Create(p, "anonymous", Anonymous, h, "insert")
    /\ UNCHANGED <<store, ghost>>

\* The bound on Hashes: when no token is left the request is an ephemeral visitor.
OutOfTokens(p) ==
    /\ At(p, "select")
    /\ proc[p].h \notin rows
    /\ \A h \in Hashes : Issued(h)
    /\ Become(p, Idle)
    /\ UNCHANGED <<issue, store, ghost>>

-----------------------------------------------------------------------------
(* Environment *)

Outage ==
    /\ "outage" \in Env
    /\ redisUp' = ~redisUp
    /\ UNCHANGED <<issue, rows, expired, removed, hashKey, ttl, index, proc, ghost>>

\* The backend restarts: its requests and open transactions are gone.
Crash ==
    /\ "crash" \in Env
    /\ \E p \in Procs : proc[p] # Idle
    /\ proc' = [p \in Procs |-> Idle]
    /\ UNCHANGED <<issue, store, ghost>>

Lapse(h) ==
    /\ "lapse" \in Env
    /\ h \in ttl
    /\ hashKey' = [hashKey EXCEPT ![h] = "absent"]
    /\ ttl' = ttl \ {h}
    /\ UNCHANGED <<issue, rows, expired, removed, redisUp, index, proc, ghost>>

Expire(h) ==
    /\ "expire" \in Env
    /\ h \in rows \ expired
    /\ expired' = expired \cup {h}
    /\ UNCHANGED <<issue, rows, removed, redisUp, hashKey, ttl, index, proc, ghost>>

\* The nightly job deletes expired visitors' rows; Redis is not told.
CleanupExpiredAnonymous ==
    LET gone == {h \in rows \cap expired : owner[h] = Anonymous}
    IN  /\ "cleanup" \in Env
        /\ gone # {}
        /\ \A p \in Procs : RowLocks(p) \cap gone = {}
        /\ rows' = rows \ gone
        /\ UNCHANGED <<issue, expired, removed, redisUp, hashKey, ttl, index, proc, ghost>>

\* An administrator deletes the user: the rows go by ON DELETE CASCADE.  Rows
\* another transaction has written, and the user row its insert refers to, are
\* locked until it ends.
DeleteUser(u) ==
    LET theirs == {h \in Hashes : owner[h] = u}
    IN  /\ "userdelete" \in Env
        /\ u \notin removed
        /\ \A p \in Procs : RowLocks(p) \cap theirs = {} /\ ~HoldsUser(p, u)
        /\ removed' = removed \cup {u}
        /\ rows' = rows \ theirs
        /\ UNCHANGED <<issue, expired, redisUp, hashKey, ttl, index, proc, ghost>>

Environment ==
    \/ Outage
    \/ Crash
    \/ \E h \in Hashes : Lapse(h) \/ Expire(h)
    \/ CleanupExpiredAnonymous
    \/ \E u \in Users : DeleteUser(u)

-----------------------------------------------------------------------------

Begin(p) ==
    \/ \E u \in Users, h \in Hashes : BeginLogin(p, u, h)
    \/ \E h \in Hashes : BeginAnonymous(p, h)
    \/ \E h \in Hashes : BeginResolve(p, h)
    \/ \E h \in Hashes : BeginLogout(p, h)
    \/ \E h \in Hashes : BeginRevoke(p, h)
    \/ \E u \in Users : BeginReset(p, u)

Continue(p) ==
    \/ Members(p) \/ ReadAge(p) \/ ChooseEvicted(p)
    \/ Insert(p) \/ WriteHash(p) \/ WriteTtl(p) \/ AddToIndex(p)
    \/ \E t \in Hashes : PurgeRead(p, t)
    \/ RemoveFromIndex(p) \/ Unlink(p)
    \/ Flush(p) \/ Commit(p) \/ CommitFails(p)
    \/ ReadKey(p) \/ Touch(p) \/ Extend(p)
    \/ SelectRow(p) \/ (\E h \in Hashes : ReplaceUnknown(p, h)) \/ OutOfTokens(p)

Next ==
    \/ \E p \in Procs : Begin(p) \/ Continue(p)
    \/ Environment

Spec == Init /\ [][Next]_vars

\* Every awaited command completes or raises, and the event loop serves every
\* request: a request that can take its next step takes it.
FairSpec == Spec /\ \A p \in Procs : WF_vars(Continue(p))

-----------------------------------------------------------------------------
(* Properties *)

InFlight(h) == \E p \in Procs : Creates(p, h)

\* A token that a committed logout, revocation or reset removed from both
\* stores never names a user again: no request still running writes its row or
\* its key back (session_service.revoke and revoke_all_for_user,
\* auth_service.logout against create and update_activity), whatever fails.
PurgedStaysPurged ==
    \A h \in purged : h \notin rows /\ hashKey[h] # "full" /\ ~InFlight(h)

\* While nothing fails, a user's session in Redis has its row, or the login that
\* makes it is still open.  Rows are written before keys and removed with them,
\* in two different orders (revoke: row then key; revoke_all: key then row).
CacheImpliesRow ==
    \A h \in Hashes :
        hashKey[h] = "full" /\ owner[h] \in Users \ removed =>
            \/ h \in rows
            \/ InFlight(h)

\* enforce_concurrent_limit counts what the index holds: while Redis answers,
\* every user's session in Redis is in it, except one being added or removed.
IndexCoversSessions ==
    \A h \in Hashes :
        hashKey[h] = "full" /\ owner[h] \in Users =>
            \/ h \in index[owner[h]]
            \/ \E p \in Procs : At(p, "unlink") /\ proc[p].key = h
            \/ \E p \in Procs : Creates(p, h) /\ proc[p].pc \in {"ttl", "sadd"}

\* Every session key is on its way out: it has a TTL, or the request that wrote
\* it is about to set one (HSET and EXPIRE are two commands).
EveryKeyExpires ==
    \A h \in Hashes :
        hashKey[h] # "absent" /\ h \notin ttl =>
            \E p \in Procs : proc[p].h = h /\ proc[p].pc \in {"ttl", "extend"}

Listed(u) == {h \in index[u] : hashKey[h] = "full"}

\* What the limit does bound: the sessions of a user that Redis lists.  It is enforced
\* before the new session is added, by every login for itself: logins one after another
\* leave one more than the limit, logins that overlap one each, and never more.  This is
\* not the documented limit, as an evicted session still resolves from its row.
OvershootBounded ==
    \A u \in Users : Cardinality(Listed(u)) <= MaxSessions + Cardinality(Procs)

\* The limit drops the oldest sessions: a login that removes a key leaves at
\* least MaxSessions younger sessions of that user in the index.
EvictionSparesYoungest ==
    [][\A p \in Procs : proc[p].op = "login" /\ proc[p].pc = "unlink" /\ ~At(p, "unlink")' =>
          LET t == proc[p].key
          IN  hashKey[t] = "full" =>
                Cardinality({h \in index[owner[t]] : born[h] > born[t]}) >= MaxSessions]_vars

\* No request waits for ever: row locks are taken while Redis is being told,
\* and enforce_concurrent_limit and revoke_all_for_user go through a set that
\* other requests change, yet every request ends.
RequestsEnd == \A p \in Procs : ~At(p, "idle") ~> At(p, "idle")

\* The store implements SessionLifecycle: a token is active from the moment it
\* is issued, as long as its row, its whole key, or the request that makes them
\* is there.
Live(h) == h \in rows \/ hashKey[h] = "full" \/ InFlight(h)

TokenStatus ==
    [h \in Hashes |->
        IF ~Issued(h) THEN "unissued" ELSE IF Live(h) THEN "active" ELSE "ended"]

Lifecycle == INSTANCE SessionLifecycle WITH status <- TokenStatus

ImplementsLifecycle == Lifecycle!Spec

-----------------------------------------------------------------------------
(* What the documentation says and the code does not do *)

\* docs/specs/functional-spec.md: "After successful reset, all active sessions
\* (except current) are terminated"; auth_service.py: "Delete a session identified
\* by its token hash".  A token a committed logout, revocation or reset covers
\* does not name a user any more.
EndedResolvesToNobody == \A h \in ended : ResolvedUser(h) \notin Users
=============================================================================
