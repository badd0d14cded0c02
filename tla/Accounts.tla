------------------------------ MODULE Accounts ------------------------------
(***************************************************************************)
(* User accounts: registration, e-mail verification, login with its failure  *)
(* counter and temporary lock, password reset, deletion, what administrators *)
(* do to users, the audit log as far as it stands in the way of a deletion,  *)
(* and the clean-up of unverified accounts.                                  *)
(*                                                                          *)
(* A handler reads a row in one step and commits in a later one, at READ     *)
(* COMMITTED and with awaits in between.  SQLAlchemy writes the columns that *)
(* differ from what the handler read, over whatever the row holds by then,   *)
(* and fails when the row is gone.  UPDATE and COMMIT are one step: the row  *)
(* lock keeps other writers out between the two, and readers see the former  *)
(* row.  A password is right or wrong; the sessions of a user are present    *)
(* or not (module SessionStore has them in detail); every lock is the first  *)
(* tier's, which _brute_force_duration always returns.  E-mail verification  *)
(* is required, so that resend_verification, which needs a session, finds    *)
(* nobody to resend to (LoginsAreVerified).                                  *)
(***************************************************************************)
EXTENDS Integers, FiniteSets

CONSTANTS
    Users,          \* ids; one e-mail address each
    Admins,         \* the administrators at the start
    Tokens,         \* verification and reset tokens
    Requests,       \* requests that may be in progress at once
    Threshold,      \* failures of the first tier of BRUTE_FORCE_TIERS
    MaxFailed,      \* bound on failed_login_attempts
    MaxOps,         \* bound on the requests begun
    None, Gone      \* model values: not there yet, deleted

Roles == {"authenticated", "administrator"}
Statuses == {"pending", "active", "blocked", "locked"}
Row == [role : Roles, status : Statuses, verified : BOOLEAN, failed : 0..MaxFailed,
        lock : {"none", "running", "lapsed"}]
Token == [kind : {"verify", "reset"}, user : Users, state : {"fresh", "used", "expired"}]

ASSUME AccountsAssumption ==
    /\ Admins \subseteq Users /\ None # Gone /\ None \notin Users \union Tokens
    /\ {None, Gone} \intersect (Row \union Token) = {}
    /\ IsFiniteSet(Requests)
    /\ Threshold \in Nat \ {0} /\ MaxFailed \in Nat /\ MaxOps \in Nat

StatusOf == [block |-> "blocked", unblock |-> "active", lock |-> "locked", unlock |-> "active"]
AdminOps == DOMAIN StatusOf \union {"promote", "demote", "verifyByAdmin", "delete"}
Ops == AdminOps \union {"login", "fail", "verify", "reset", "leave"}

Request == [pc : {"idle", "user", "count", "logs", "commit"}, op : Ops \union {"none"},
            by : Users \union {None}, user : Users \union {None}, token : Tokens \union {None}, seen : Row,
            counted : SUBSET Users]

VARIABLES
    rows,           \* users: a row, or None or Gone
    tokens,         \* email_verifications and password_resets: a row, None or Gone
    sessions,       \* the users with a session
    audited,        \* the users named as the administrator of a row of audit_logs
    req,            \* the requests in progress
    ops,            \* how many requests have begun
    guesses,        \* ghost: failed logins of a user since the last success or reset
    lost,           \* ghost: users one of whose counter updates was overwritten
    spends          \* ghost: how often a token has had its effect

vars == <<rows, tokens, sessions, audited, req, ops, guesses, lost, spends>>
ghosts == <<guesses, lost, spends>>

NoRow == [role |-> "authenticated", status |-> "pending", verified |-> FALSE,
          failed |-> 0, lock |-> "none"]
AdminRow == [NoRow EXCEPT !.role = "administrator", !.status = "active", !.verified = TRUE]
Idle == [pc |-> "idle", op |-> "none", by |-> None, user |-> None, token |-> None,
         seen |-> NoRow, counted |-> {}]

TypeOK ==
    /\ rows \in [Users -> Row \union {None, Gone}]
    /\ tokens \in [Tokens -> Token \union {None, Gone}]
    /\ sessions \subseteq Users /\ audited \subseteq Users
    /\ req \in [Requests -> Request]
    /\ ops \in 0..MaxOps
    /\ guesses \in [Users -> Nat] /\ lost \subseteq Users
    /\ spends \in [Tokens -> Nat]

Init ==
    /\ rows = [u \in Users |-> IF u \in Admins THEN AdminRow ELSE None]
    /\ tokens = [t \in Tokens |-> None]
    /\ sessions = Admins /\ audited = {}
    /\ req = [r \in Requests |-> Idle]
    /\ ops = 0
    /\ guesses = [u \in Users |-> 0] /\ lost = {} /\ spends = [t \in Tokens |-> 0]

Present(u) == rows[u] \notin {None, Gone}
Issued(t) == tokens[t] \notin {None, Gone}
IsAdmin(u) == Present(u) /\ rows[u].role = "administrator"

\* A request is begun, by an administrator or by None: it has read the user and goes on
\* at pc.
Begin(r, op, by, u, t, pc) ==
    /\ req[r].pc = "idle" /\ ops < MaxOps
    /\ ops' = ops + 1
    /\ req' = [req EXCEPT ![r] = [pc |-> pc, op |-> op, by |-> by, user |-> u, token |-> t,
                                  seen |-> IF pc = "user" THEN NoRow ELSE rows[u],
                                  counted |-> {}]]
    /\ UNCHANGED <<rows, tokens, sessions, audited, ghosts>>

(***************************************************************************)
(* Registration and the mails with a token: INSERT and COMMIT, nothing read  *)
(* before that matters.  The e-mail address is unique.                       *)
(***************************************************************************)
Issue(t, kind, u) ==
    /\ tokens[t] = None
    /\ tokens' = [tokens EXCEPT ![t] = [kind |-> kind, user |-> u, state |-> "fresh"]]

Register(u, t) ==
    /\ rows[u] = None
    /\ rows' = [rows EXCEPT ![u] = NoRow]
    /\ Issue(t, "verify", u)
    /\ UNCHANGED <<sessions, audited, req, ops, ghosts>>

RequestPasswordReset(u, t) ==
    /\ Present(u)
    /\ Issue(t, "reset", u)
    /\ UNCHANGED <<rows, sessions, audited, req, ops, ghosts>>

(***************************************************************************)
(* Login: refused for an account that is blocked, locked or under a          *)
(* temporary lock; then the password is right or wrong.  Without a verified  *)
(* address the reset of the counter is rolled back and nothing changes.      *)
(***************************************************************************)
\* mutant: the address need not be verified
EntersUnverified(row) == row.status \notin {"blocked", "locked"}

Enters(row) == row.status \notin {"blocked", "locked"} /\ row.verified

MayTry(row) == row.status \notin {"blocked", "locked"} /\ row.lock # "running"

LoginRight(r, u) ==
    Present(u) /\ MayTry(rows[u]) /\ Enters(rows[u]) /\ Begin(r, "login", None, u, None, "commit")

LoginWrong(r, u) ==
    /\ Present(u) /\ MayTry(rows[u]) /\ rows[u].failed < MaxFailed
    /\ Begin(r, "fail", None, u, None, "commit")

\* The request checks the token's row, then reads the user.
\* mutant: whether the token was used is not looked at
NotExpired(t) == Issued(t) /\ tokens[t].state # "expired"

Usable(t) == Issued(t) /\ tokens[t].state = "fresh"

UseToken(r, t) == Usable(t) /\ Begin(r, tokens[t].kind, None, tokens[t].user, t, "user")

ReadUser(r) ==
    /\ req[r].pc = "user" /\ Present(req[r].user)
    /\ req' = [req EXCEPT ![r].pc = "commit", ![r].seen = rows[req[r].user]]
    /\ UNCHANGED <<rows, tokens, sessions, audited, ops, ghosts>>

(***************************************************************************)
(* DELETE /account deletes the rows that depend on the user and goes on to   *)
(* take him out of the logs.  AuditLog has no column user_id: the loop       *)
(* raises before the user is deleted, and all of it is rolled back.          *)
(***************************************************************************)
DeleteAccount(r, u) ==
    u \in sessions /\ Present(u) /\ Begin(r, "leave", None, u, None, "logs")

AnonymizeLogs(r) ==
    /\ req[r].pc = "logs"
    /\ req' = [req EXCEPT ![r] = Idle]
    /\ UNCHANGED <<rows, tokens, sessions, audited, ops, ghosts>>

(***************************************************************************)
(* An administrator a acts on u.  require_admin looks at the role of the     *)
(* session only; nobody changes a status of his own.                         *)
(***************************************************************************)
AdminActs(r, op, a, u) ==
    /\ a \in sessions /\ IsAdmin(a) /\ Present(u)
    /\ op \in DOMAIN StatusOf => a # u
    /\ Begin(r, op, a, u, None,
             IF op \in {"demote", "delete"} /\ IsAdmin(u) THEN "count" ELSE "commit")

RemainingAdmins == {u \in Users : IsAdmin(u) /\ rows[u].status \in {"active", "pending"}}

\* mutant: the administrator himself is counted
OthersOrSelf(u) == RemainingAdmins

Others(u) == RemainingAdmins \ {u}

EnsureNotLastAdmin(r) ==
    /\ req[r].pc = "count"
    /\ req' = [req EXCEPT ![r] = IF Others(req[r].user) = {} THEN Idle
                                 ELSE [@ EXCEPT !.pc = "commit",
                                                !.counted = Others(req[r].user)]]
    /\ UNCHANGED <<rows, tokens, sessions, audited, ops, ghosts>>

(***************************************************************************)
(* The commit                                                               *)
(***************************************************************************)
\* mutant: the account is locked one failure late
LockDurationLate(count) == count > Threshold

LockDuration(count) == count >= Threshold

\* mutant: a verification by an administrator activates whatever it finds
VerifiedAndActive(s) == [s EXCEPT !.status = "active", !.verified = TRUE]

VerifiedByAdmin(s) ==
    [s EXCEPT !.status = IF @ = "pending" THEN "active" ELSE @, !.verified = TRUE]

\* The row as the handler leaves it.
Changed(op, s) ==
    CASE op = "fail" ->
           [s EXCEPT !.failed = @ + 1,
                     !.lock = IF LockDuration(s.failed + 1) THEN "running" ELSE @]
      [] op \in {"login", "reset"} -> [s EXCEPT !.failed = 0, !.lock = "none"]
      [] op = "verify" -> [s EXCEPT !.status = "active", !.verified = TRUE]
      [] op = "verifyByAdmin" -> VerifiedByAdmin(s)
      [] op = "promote" -> [s EXCEPT !.role = "administrator"]
      [] op = "demote" -> [s EXCEPT !.role = "authenticated"]
      [] OTHER -> [s EXCEPT !.status = StatusOf[op]]

\* mutant: locked_until is written whether it changed or not
LockWritten(u, s, new) ==
    [f \in DOMAIN s |-> IF new[f] # s[f] \/ f = "lock" THEN new[f] ELSE rows[u][f]]

\* The columns that changed, over the row as it is now.
Merged(u, s, new) == [f \in DOMAIN s |-> IF new[f] # s[f] THEN new[f] ELSE rows[u][f]]

TokensAfter(q) ==
    [t \in Tokens |-> IF t = q.token THEN [tokens[t] EXCEPT !.state = "used"] ELSE tokens[t]]

SessionsAfter(q) ==
    CASE q.op = "login" -> sessions \union {q.user}
      [] q.op = "reset" -> sessions \ {q.user}
      [] OTHER -> sessions

Ghosts(q) ==
    /\ guesses' = [guesses EXCEPT ![q.user] = CASE q.op = "fail" -> @ + 1
                                                [] q.op \in {"login", "reset"} -> 0
                                                [] OTHER -> @]
    /\ lost' = IF q.op = "fail" /\ rows[q.user].failed # q.seen.failed
               THEN lost \union {q.user} ELSE lost
    /\ spends' = [t \in Tokens |-> IF t = q.token THEN spends[t] + 1 ELSE spends[t]]

\* The audit row of an administrator's action refers to him: he must be there.  The rows
\* he leaves by notes and edits of the configuration can only make a deletion fail, as
\* Abort does.
Audited(q) ==
    /\ q.by # None => Present(q.by)
    /\ audited' = audited \union ({q.by} \ {None})

CommitUpdate(r) ==
    LET q == req[r] IN
    /\ q.pc = "commit" /\ q.op # "delete" /\ Present(q.user) /\ Audited(q)
    /\ rows' = [rows EXCEPT ![q.user] = Merged(q.user, q.seen, Changed(q.op, q.seen))]
    /\ tokens' = TokensAfter(q)
    /\ sessions' = SessionsAfter(q)
    /\ Ghosts(q)
    /\ req' = [req EXCEPT ![r] = Idle]
    /\ UNCHANGED ops

\* Deleting users deletes, or cascades to, their tokens and sessions.  In an audit row
\* it would set the administrator to NULL, which the column does not take.
Removed(gone) ==
    /\ gone \intersect audited = {}
    /\ rows' = [u \in Users |-> IF u \in gone THEN Gone ELSE rows[u]]
    /\ tokens' = [t \in Tokens |-> IF Issued(t) /\ tokens[t].user \in gone THEN Gone
                                   ELSE tokens[t]]
    /\ sessions' = sessions \ gone

CommitDelete(r) ==
    /\ req[r].pc = "commit" /\ req[r].op = "delete" /\ Present(req[r].user)
    /\ req[r].by # req[r].user /\ Audited(req[r])
    /\ Removed({req[r].user})
    /\ req' = [req EXCEPT ![r] = Idle]
    /\ UNCHANGED <<ops, ghosts>>

\* A row is gone or in an audit row, a statement fails, the process is restarted: rolled
\* back.
Abort(r) ==
    /\ req[r].pc # "idle"
    /\ req' = [req EXCEPT ![r] = Idle]
    /\ UNCHANGED <<rows, tokens, sessions, audited, ops, ghosts>>

(***************************************************************************)
(* Time                                                                     *)
(***************************************************************************)
LockLapses(u) ==
    /\ Present(u) /\ rows[u].lock = "running"
    /\ rows' = [rows EXCEPT ![u].lock = "lapsed"]
    /\ UNCHANGED <<tokens, sessions, audited, req, ops, ghosts>>

TokenExpires(t) ==
    /\ Usable(t)
    /\ tokens' = [tokens EXCEPT ![t].state = "expired"]
    /\ UNCHANGED <<rows, sessions, audited, req, ops, ghosts>>

\* cleanup_unverified_accounts: one DELETE of those old enough.
CleanupUnverified(old) ==
    /\ old # {} /\ \A u \in old : Present(u) /\ ~rows[u].verified
    /\ Removed(old)
    /\ UNCHANGED <<audited, req, ops, ghosts>>

Next ==
    \/ \E u \in Users, t \in Tokens : Register(u, t) \/ RequestPasswordReset(u, t)
    \/ \E r \in Requests :
         \/ \E u \in Users : LoginRight(r, u) \/ LoginWrong(r, u) \/ DeleteAccount(r, u)
         \/ \E t \in Tokens : UseToken(r, t)
         \/ \E op \in AdminOps, a \in Users, u \in Users : AdminActs(r, op, a, u)
         \/ ReadUser(r) \/ EnsureNotLastAdmin(r) \/ AnonymizeLogs(r)
         \/ CommitUpdate(r) \/ CommitDelete(r) \/ Abort(r)
    \/ \E u \in Users : LockLapses(u)
    \/ \E t \in Tokens : TokenExpires(t)
    \/ \E old \in SUBSET Users : CleanupUnverified(old)

Spec == Init /\ [][Next]_vars

(***************************************************************************)
(* Properties                                                               *)
(***************************************************************************)
\* Whoever has a session has verified his address, although the login reads the
\* row long before it commits: no operation takes a verification back.
LoginsAreVerified ==
    \A u \in sessions : Present(u) /\ rows[u].verified

\* Threshold failures in a row lock the account, or have locked it, unless a
\* simultaneous failure overwrote the counter with a lower value: an account of any role,
\* though spec-backend.md says that administrators are exempt.
LockInTime ==
    \A u \in Users \ lost :
      Present(u) /\ guesses[u] >= Threshold => rows[u].lock # "none"

\* However many requests present a token, it has its effect at most once for each
\* that was in progress when it was first used: later ones find it used.
SpendsBounded == \A t \in Tokens : spends[t] <= Cardinality(Requests)

Committing(r) == req[r].pc = "commit" /\ req'[r].pc = "idle"

\* A temporary lock ends by time, or by a reset or login that had seen a lock.
\* One that began before the lock does not lift it: only changed columns are written.
LockHolds ==
    [][\A u \in Users :
         Present(u) /\ rows[u].lock = "running" /\ Present(u)' /\ rows'[u].lock = "none" =>
           \E r \in Requests :
             /\ Committing(r) /\ req[r].user = u
             /\ req[r].op \in {"login", "reset"} /\ req[r].seen.lock # "none"]_vars

\* A status an administrator has set is left by what an administrator does, by
\* a verification link, whose handler sets "active" whatever it finds, or by a
\* verification by an administrator who had seen "pending".
BlockHolds ==
    [][\A u \in Users :
         (Present(u) /\ Present(u)' /\ rows[u].status \in {"blocked", "locked"}
            /\ rows'[u].status # rows[u].status) =>
           \E r \in Requests :
             /\ Committing(r) /\ req[r].user = u
             /\ \/ req[r].op \in DOMAIN StatusOf \union {"verify"}
                \/ req[r].op = "verifyByAdmin" /\ req[r].seen.status = "pending"]_vars

LastAdminGoes == RemainingAdmins # {} /\ RemainingAdmins' = {}

\* A demotion or deletion by an administrator takes the last one away only when
\* every other it had counted has ceased to be one since, or when it counted none
\* because the user was promoted after it had read him.
LastAdminCounted ==
    [][\A r \in Requests :
         Committing(r) /\ req[r].op \in {"demote", "delete"} /\ LastAdminGoes =>
           \/ req[r].seen.role # "administrator"
           \/ req[r].counted # {} /\ req[r].counted \intersect RemainingAdmins = {}]_vars

\* The last administrator is not demoted or deleted, as spec-backend.md says: what makes
\* him the last to go can only be a block or a lock.
LastAdminProtected ==
    [][LastAdminGoes =>
         \E r \in Requests : Committing(r) /\ req[r].op \in DOMAIN StatusOf]_vars
=============================================================================
