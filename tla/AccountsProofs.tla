---------------------------- MODULE AccountsProofs ----------------------------
(***************************************************************************)
(* Proofs about Accounts, for any set of users, tokens and requests.         *)
(*                                                                          *)
(* IInv says of every request in progress what its beginning had checked and *)
(* no other request can undo: its user was registered, a token it presents is *)
(* that user's, the address of one that logs in is verified.  From it follow  *)
(* the types, LoginsAreVerified and, one commit at a time, the two action     *)
(* properties about locks and blocks.  CountInv adds what the counts need:    *)
(* the failed logins of a row against the failures there were, the effects of *)
(* a token against the requests that present it, and whom a demotion had      *)
(* counted.                                                                  *)
(***************************************************************************)
EXTENDS Accounts, FiniteSetTheorems, TLAPS

\* A request in progress knows its user, and what its kind checked still holds:
\* the token is the user's, the address of whoever logs in is verified.
Knows(r) ==
    /\ req[r].user \in Users /\ rows[req[r].user] # None /\ req[r].op \in Ops
    /\ req[r].op = "login" /\ Present(req[r].user) => rows[req[r].user].verified = TRUE
    /\ req[r].op = "fail" => req[r].pc = "commit" /\ req[r].seen.failed < MaxFailed
    /\ req[r].pc = "user" => req[r].op \in {"verify", "reset"}
    /\ req[r].op = "leave" <=> req[r].pc = "logs"
    /\ req[r].token # None =>
         tokens[req[r].token] # None /\
         IF Issued(req[r].token) THEN tokens[req[r].token].user = req[r].user
         ELSE ~Present(req[r].user)

Requested == \A r \in Requests : req[r].pc # "idle" => Knows(r)

\* A token goes with its user.
Owned == \A t \in Tokens : Issued(t) => Present(tokens[t].user)

IInv == TypeOK /\ Requested /\ Owned /\ LoginsAreVerified

LEMMA ChangedRow ==
    ASSUME NEW op \in Ops \ {"delete", "leave"}, NEW s \in Row,
           op = "fail" => s.failed < MaxFailed
    PROVE  /\ Changed(op, s) \in Row
           /\ s.verified = TRUE => Changed(op, s).verified = TRUE
           /\ Changed(op, s).status # s.status =>
                \/ op \in DOMAIN StatusOf \union {"verify"}
                \/ op = "verifyByAdmin" /\ s.status = "pending"
           /\ Changed(op, s).lock # s.lock /\ Changed(op, s).lock = "none" =>
                op \in {"login", "reset"} /\ s.lock # "none"
<1> USE AccountsAssumption DEF Changed, Row, Statuses, Roles
<1>1. CASE op = "fail"
  <2>1. Changed(op, s) = [s EXCEPT !.failed = s.failed + 1,
                                  !.lock = IF LockDuration(s.failed + 1) THEN "running" ELSE s.lock]
    BY <1>1
  <2>2. s.failed + 1 \in 0..MaxFailed
    BY <1>1
  <2> QED
    BY <1>1, <2>1, <2>2
<1>2. CASE op \in {"login", "reset"}
  <2>1. Changed(op, s) = [s EXCEPT !.failed = 0, !.lock = "none"]
    BY <1>2
  <2>2. 0 \in 0..MaxFailed
    OBVIOUS
  <2> QED
    BY <1>2, <2>1, <2>2
<1>3. CASE op \in {"verify", "verifyByAdmin", "promote", "demote"}
  BY <1>3 DEF VerifiedByAdmin
<1>4. CASE op \in {"block", "unblock", "lock", "unlock"}
  <2>1. StatusOf[op] \in Statuses /\ op \in DOMAIN StatusOf
    BY <1>4 DEF StatusOf
  <2> QED
    BY <1>4, <2>1
<1> QED
  BY <1>1, <1>2, <1>3, <1>4 DEF Ops, AdminOps, StatusOf

LEMMA MergedRow ==
    ASSUME NEW u \in Users, NEW s \in Row, NEW new \in Row, rows[u] \in Row
    PROVE  /\ Merged(u, s, new) \in Row
           /\ rows[u].verified = TRUE /\ (s.verified = TRUE => new.verified = TRUE) =>
                Merged(u, s, new).verified = TRUE
BY DEF Merged, Row
-----------------------------------------------------------------------------
(* Begin and end of a request *)

LEMMA RowsPresent == ASSUME TypeOK, NEW u \in Users, Present(u) PROVE rows[u] \in Row
BY DEF TypeOK, Present

LEMMA TokensIssued == ASSUME TypeOK, NEW t \in Tokens, Issued(t) PROVE tokens[t] \in Token
BY DEF TypeOK, Issued

LEMMA BeginKeeps ==
    ASSUME IInv, NEW r \in Requests, NEW op \in Ops, NEW by \in Users \union {None}, NEW u \in Users,
           NEW t \in Tokens \union {None}, NEW pc \in {"user", "count", "logs", "commit"},
           Begin(r, op, by, u, t, pc),
           Present(u),
           op = "login" => rows[u].verified = TRUE,
           op = "fail" => pc = "commit" /\ rows[u].failed < MaxFailed,
           pc = "user" => op \in {"verify", "reset"},
           op = "leave" <=> pc = "logs",
           t # None => Issued(t) /\ tokens[t].user = u
    PROVE  IInv'
<1> USE AccountsAssumption
<1>1. ops' \in 0..MaxOps
  BY DEF Begin, IInv, TypeOK, Request
<1>2. NoRow \in Row
  BY DEF NoRow, Row, Roles, Statuses
<1>3. req'[r].seen \in Row
  BY <1>2, RowsPresent DEF Begin, IInv, TypeOK, Request
<1>4. TypeOK'
  BY <1>1, <1>3 DEF Begin, IInv, TypeOK, Request, ghosts
<1>5. Requested'
  BY DEF Begin, IInv, TypeOK, Request, Requested, Knows, Present, Issued
<1>6. Owned' /\ LoginsAreVerified'
  BY DEF Begin, IInv, Owned, LoginsAreVerified, Present, Issued
<1> QED
  BY <1>4, <1>5, <1>6 DEF IInv

\* A request that ends, and nothing else: Abort, or a refusal.
LEMMA EndKeeps ==
    ASSUME IInv, NEW r \in Requests, req' = [req EXCEPT ![r] = Idle],
           UNCHANGED <<rows, tokens, sessions, audited, ops, ghosts>>
    PROVE  IInv'
<1>1. Idle \in Request
  BY AccountsAssumption DEF Request, Idle, NoRow, Row, Roles, Statuses
<1>2. TypeOK'
  BY <1>1 DEF IInv, TypeOK, Request, ghosts
<1>3. Requested'
  BY DEF IInv, TypeOK, Request, Requested, Knows, Present, Issued, Idle
<1>4. Owned' /\ LoginsAreVerified'
  BY DEF IInv, Owned, LoginsAreVerified, Present, Issued
<1> QED
  BY <1>2, <1>3, <1>4 DEF IInv

-----------------------------------------------------------------------------
(* Commits *)

LEMMA AuditedUsers == ASSUME TypeOK, NEW r \in Requests, Audited(req[r]) PROVE audited' \subseteq Users
BY DEF Audited, TypeOK, Request

LEMMA UpdateKeeps ==
    ASSUME IInv, NEW r \in Requests, CommitUpdate(r) PROVE IInv'
<1> DEFINE q == req[r]
           u == q.user
           new == Changed(q.op, q.seen)
<1> USE AccountsAssumption
<1>1. /\ q.user \in Users /\ q.op \in Ops \ {"delete", "leave"} /\ q.seen \in Row
      /\ q.token \in Tokens \union {None} /\ rows[u] \in Row
      /\ q.op = "fail" => q.seen.failed < MaxFailed
  BY RowsPresent DEF CommitUpdate, IInv, TypeOK, Request, Requested, Knows
<1>2. /\ new \in Row /\ (q.seen.verified = TRUE => new.verified = TRUE)
  BY <1>1, ChangedRow
<1>3. /\ rows'[u] \in Row
      /\ rows[u].verified = TRUE => rows'[u].verified = TRUE
      /\ \A v \in Users : Present(v)' <=> Present(v)
      /\ \A v \in Users \ {u} : rows'[v] = rows[v]
  <2>1. rows' = [rows EXCEPT ![u] = Merged(u, q.seen, new)]
    BY DEF CommitUpdate
  <2>2. Merged(u, q.seen, new) \in Row /\ (rows[u].verified = TRUE => Merged(u, q.seen, new).verified = TRUE)
    BY <1>1, <1>2, MergedRow
  <2>3. Row \intersect {None, Gone} = {}
    BY DEF Row
  <2> QED
    BY <1>1, <2>1, <2>2, <2>3 DEF IInv, TypeOK, Request, Present
<1>4. /\ tokens' \in [Tokens -> Token \union {None, Gone}]
      /\ \A t \in Tokens : tokens[t] # None => tokens'[t] # None
      /\ \A t \in Tokens : (Issued(t)' <=> Issued(t)) /\ (Issued(t) => tokens'[t].user = tokens[t].user)
  <2>1. tokens' = [t \in Tokens |-> IF t = q.token THEN [tokens[t] EXCEPT !.state = "used"] ELSE tokens[t]]
    BY DEF CommitUpdate, TokensAfter
  <2>2. q.token # None => Issued(q.token)
    BY DEF CommitUpdate, IInv, Requested, Knows
  <2>3. \A t \in Tokens : Issued(t) =>
          /\ [tokens[t] EXCEPT !.state = "used"] \in Token
          /\ [tokens[t] EXCEPT !.state = "used"].user = tokens[t].user
    BY TokensIssued DEF IInv, Token
  <2>4. None \notin Token /\ Gone \notin Token
    OBVIOUS
  <2> QED
    BY <1>1, <2>1, <2>2, <2>3, <2>4 DEF IInv, TypeOK, Request, Issued
<1>5. /\ sessions' \subseteq Users
      /\ sessions' \subseteq sessions \union {u}
      /\ u \in sessions' => u \in sessions \/ q.op = "login"
  BY <1>1 DEF CommitUpdate, SessionsAfter, IInv, TypeOK, Request
<1>6. guesses' \in [Users -> Nat] /\ lost' \subseteq Users /\ spends' \in [Tokens -> Nat]
  BY <1>1 DEF CommitUpdate, Ghosts, IInv, TypeOK, Request
<1>7. Idle \in Request
  BY DEF Request, Idle, NoRow, Row, Roles, Statuses
<1>12. audited' \subseteq Users
  BY AuditedUsers DEF CommitUpdate, IInv
<1>8. TypeOK'
  BY <1>1, <1>3, <1>4, <1>5, <1>6, <1>7, <1>12 DEF CommitUpdate, IInv, TypeOK, Request
<1>9. Requested'
  BY <1>1, <1>3, <1>4 DEF CommitUpdate, IInv, TypeOK, Request, Requested, Knows, Idle
<1>10. LoginsAreVerified'
  BY <1>1, <1>3, <1>5 DEF IInv, LoginsAreVerified, Requested, Knows, CommitUpdate
<1>11. Owned'
  BY <1>3, <1>4, TokensIssued DEF IInv, Owned, Token
<1> QED
  BY <1>8, <1>9, <1>10, <1>11 DEF IInv

LEMMA RemovedKeeps ==
    ASSUME IInv, NEW gone \in SUBSET Users, Removed(gone),
           \/ UNCHANGED req
           \/ \E r \in Requests : req' = [req EXCEPT ![r] = Idle],
           audited' \subseteq Users, UNCHANGED <<ops, ghosts>>
    PROVE  IInv'
<1> USE AccountsAssumption
<1>1. Idle \in Request
  BY DEF Request, Idle, NoRow, Row, Roles, Statuses
<1>2. \A r \in Requests : req'[r].pc # "idle" => req'[r] = req[r]
  BY DEF IInv, TypeOK, Request, Idle
<1>3. TypeOK'
  BY <1>1 DEF Removed, IInv, TypeOK, Request, ghosts
<1>4. /\ \A u \in Users : Present(u)' <=> Present(u) /\ u \notin gone
      /\ \A u \in Users : Present(u)' => rows'[u] = rows[u]
      /\ \A u \in Users : rows[u] # None => rows'[u] # None
      /\ \A t \in Tokens : tokens[t] # None => tokens'[t] # None
      /\ \A t \in Tokens : Issued(t)' <=> Issued(t) /\ tokens[t].user \notin gone
      /\ \A t \in Tokens : Issued(t)' => tokens'[t] = tokens[t]
  BY DEF Removed, Present, Issued, IInv, TypeOK, Request
<1>5. Requested'
  <2> SUFFICES ASSUME NEW r \in Requests, req'[r].pc # "idle" PROVE Knows(r)'
    BY DEF Requested
  <2>1. req'[r] = req[r] /\ req[r].token \in Tokens \union {None}
    BY <1>2 DEF IInv, TypeOK, Request
  <2>2. Knows(r)
    BY <2>1 DEF IInv, Requested
  <2> QED
    BY <1>4, <2>1, <2>2 DEF Knows
<1>6. LoginsAreVerified'
  BY <1>4 DEF Removed, IInv, TypeOK, Request, LoginsAreVerified
<1>7. Owned'
  BY <1>4, TokensIssued DEF IInv, Owned, Token
<1> QED
  BY <1>3, <1>5, <1>6, <1>7 DEF IInv

-----------------------------------------------------------------------------
(* The other steps *)

LEMMA IssueKeeps ==
    ASSUME IInv, NEW u \in Users, NEW t \in Tokens, NEW kind \in {"verify", "reset"},
           Issue(t, kind, u), UNCHANGED <<sessions, audited, req, ops, ghosts>>,
           \/ rows[u] = None /\ rows' = [rows EXCEPT ![u] = NoRow]
           \/ Present(u) /\ UNCHANGED rows
    PROVE  IInv'
<1> USE AccountsAssumption
<1>1. NoRow \in Row /\ NoRow \notin {None, Gone}
  <2>1. NoRow \in Row
    BY DEF NoRow, Row, Roles, Statuses
  <2> QED
    BY <2>1
<1>2. /\ [kind |-> kind, user |-> u, state |-> "fresh"] \in Token
      /\ [kind |-> kind, user |-> u, state |-> "fresh"] \notin {None, Gone}
  BY DEF Token
<1>3. TypeOK'
  BY <1>1, <1>2 DEF Issue, IInv, TypeOK, Request, ghosts
<1>4. /\ Present(u)' /\ tokens'[t].user = u /\ tokens[t] = None
      /\ \A v \in Users : rows[v] # None => rows'[v] = rows[v]
      /\ \A s \in Tokens \ {t} : tokens'[s] = tokens[s]
  BY <1>1, <1>2 DEF Issue, Present, IInv, TypeOK, Request
<1>5. Requested'
  <2> SUFFICES ASSUME NEW r \in Requests, req[r].pc # "idle" PROVE Knows(r)'
    BY DEF Requested
  <2>1. Knows(r) /\ req[r].token \in Tokens \union {None}
    BY DEF IInv, TypeOK, Request, Requested
  <2> QED
    BY <1>4, <2>1 DEF Knows, Present, Issued
<1>6. LoginsAreVerified'
  BY <1>4 DEF IInv, TypeOK, Request, LoginsAreVerified, Present
<1>7. Owned'
  <2> SUFFICES ASSUME NEW s \in Tokens, Issued(s)' PROVE Present(tokens[s].user)'
    BY DEF Owned
  <2>1. CASE s = t
    BY <1>4, <2>1
  <2>2. CASE s # t
    <3>1. Issued(s) /\ tokens'[s] = tokens[s]
      BY <1>4, <2>2 DEF Issued
    <3>2. tokens[s].user \in Users /\ Present(tokens[s].user)
      BY <3>1, TokensIssued DEF IInv, Owned, Token
    <3> QED
      BY <1>4, <3>1, <3>2 DEF Present
  <2> QED
    BY <2>1, <2>2
<1> QED
  BY <1>3, <1>5, <1>6, <1>7 DEF IInv

\* Time passes: a lock or a token lapses, and nothing is asked of it.
LEMMA LapseKeeps ==
    ASSUME IInv, NEW u \in Users, LockLapses(u) PROVE IInv'
<1> USE AccountsAssumption
<1> DEFINE new == [rows[u] EXCEPT !.lock = "lapsed"]
<1>1. rows' = [rows EXCEPT ![u] = new] /\ UNCHANGED <<tokens, sessions, audited, req, ops, ghosts>>
  BY DEF LockLapses
<1>2. Present(u) /\ rows[u] \in Row
  BY RowsPresent DEF LockLapses, IInv
<1>3. new \in Row /\ new.verified = rows[u].verified
  BY <1>2 DEF Row
<1>4. new \notin {None, Gone}
  BY <1>3
<1> HIDE DEF new
<1>5. TypeOK'
  BY <1>1, <1>3 DEF IInv, TypeOK, Request, ghosts
<1>6. \A v \in Users : /\ Present(v)' <=> Present(v)
                       /\ rows[v] # None => rows'[v] # None
                       /\ rows'[v].verified = rows[v].verified
  BY <1>1, <1>2, <1>3, <1>4 DEF IInv, TypeOK, Request, Present
<1>7. Requested'
  <2> SUFFICES ASSUME NEW r \in Requests, req[r].pc # "idle" PROVE Knows(r)'
    BY <1>1 DEF Requested
  <2>1. Knows(r)
    BY DEF IInv, Requested
  <2> QED
    BY <1>1, <1>6, <2>1 DEF Knows, Issued
<1>8. Owned'
  BY <1>1, <1>6, TokensIssued DEF IInv, Owned, Issued, Token
<1>9. LoginsAreVerified'
  BY <1>1, <1>6 DEF IInv, TypeOK, Request, LoginsAreVerified
<1> QED
  BY <1>5, <1>7, <1>8, <1>9 DEF IInv

LEMMA ExpiryKeeps ==
    ASSUME IInv, NEW t \in Tokens, TokenExpires(t) PROVE IInv'
<1> USE AccountsAssumption
<1> DEFINE new == [tokens[t] EXCEPT !.state = "expired"]
<1>1. tokens' = [tokens EXCEPT ![t] = new] /\ UNCHANGED <<rows, sessions, audited, req, ops, ghosts>>
  BY DEF TokenExpires
<1>2. Issued(t) /\ tokens[t] \in Token
  BY TokensIssued DEF TokenExpires, Usable, IInv
<1>3. new \in Token /\ new.user = tokens[t].user
  BY <1>2 DEF Token
<1>4. new \notin {None, Gone}
  BY <1>3
<1> HIDE DEF new
<1>5. TypeOK'
  BY <1>1, <1>3 DEF IInv, TypeOK, Request, ghosts
<1>6. \A s \in Tokens : /\ Issued(s)' <=> Issued(s)
                        /\ tokens[s] # None => tokens'[s] # None
                        /\ tokens'[s].user = tokens[s].user
  BY <1>1, <1>2, <1>3, <1>4 DEF IInv, TypeOK, Request, Issued
<1>7. Requested'
  <2> SUFFICES ASSUME NEW r \in Requests, req[r].pc # "idle" PROVE Knows(r)'
    BY <1>1 DEF Requested
  <2>1. Knows(r) /\ req[r].token \in Tokens \union {None}
    BY DEF IInv, TypeOK, Request, Requested
  <2> QED
    BY <1>1, <1>6, <2>1 DEF Knows, Present
<1>8. Owned' /\ LoginsAreVerified'
  BY <1>1, <1>6 DEF IInv, Owned, LoginsAreVerified, Present
<1> QED
  BY <1>5, <1>7, <1>8 DEF IInv

LEMMA ReadsKeep ==
    ASSUME IInv, NEW r \in Requests, ReadUser(r) \/ EnsureNotLastAdmin(r) PROVE IInv'
<1> USE AccountsAssumption
<1>1. CASE ReadUser(r)
  <2>1. req[r].user \in Users /\ rows[req[r].user] \in Row
    BY <1>1, RowsPresent DEF ReadUser, IInv, Requested, Knows
  <2>2. [req[r] EXCEPT !.pc = "commit", !.seen = rows[req[r].user]] \in Request
    <3>1. req[r] \in Request
      BY DEF IInv, TypeOK
    <3> QED
      BY <2>1, <3>1 DEF Request
  <2>3. TypeOK'
    BY <1>1, <2>2 DEF ReadUser, IInv, TypeOK, Request, ghosts
  <2>4. req[r].op # "fail"
    BY <1>1 DEF ReadUser, IInv, Requested, Knows
  <2>5. Requested'
    BY <1>1, <2>4 DEF ReadUser, IInv, TypeOK, Request, Requested, Knows, Present, Issued
  <2>6. Owned' /\ LoginsAreVerified'
    BY <1>1 DEF ReadUser, IInv, Owned, LoginsAreVerified, Present, Issued
  <2> QED
    BY <2>3, <2>5, <2>6 DEF IInv
<1>2. CASE EnsureNotLastAdmin(r) /\ Others(req[r].user) = {}
  BY <1>2, EndKeeps DEF EnsureNotLastAdmin
<1>3. CASE EnsureNotLastAdmin(r) /\ Others(req[r].user) # {}
  <2>1. req' = [req EXCEPT ![r] = [req[r] EXCEPT !.pc = "commit", !.counted = Others(req[r].user)]]
    BY <1>3 DEF EnsureNotLastAdmin
  <2>2. Others(req[r].user) \subseteq Users
    BY DEF Others, RemainingAdmins
  <2>3. UNCHANGED <<rows, tokens, sessions, audited, ops, ghosts>>
    BY <1>3 DEF EnsureNotLastAdmin
  <2>4. TypeOK'
    <3>1. [req[r] EXCEPT !.pc = "commit", !.counted = Others(req[r].user)] \in Request
      BY <2>2 DEF IInv, TypeOK, Request
    <3> QED
      BY <2>1, <2>3, <3>1 DEF IInv, TypeOK, Request, ghosts
  <2>5. Requested'
    BY <1>3, <2>1, <2>3 DEF EnsureNotLastAdmin, IInv, TypeOK, Request, Requested, Knows, Present, Issued
  <2>6. Owned' /\ LoginsAreVerified'
    BY <2>3 DEF IInv, Owned, LoginsAreVerified, Present, Issued
  <2> QED
    BY <2>4, <2>5, <2>6 DEF IInv
<1> QED
  BY <1>1, <1>2, <1>3

-----------------------------------------------------------------------------
(* The invariant *)

LEMMA InitInv == Init => IInv
<1> SUFFICES ASSUME Init PROVE IInv
  OBVIOUS
<1> USE AccountsAssumption
<1>1. AdminRow \in Row /\ AdminRow.verified = TRUE
  <2>1. NoRow \in Row
    BY DEF NoRow, Row, Roles, Statuses
  <2> QED
    BY <2>1 DEF AdminRow, Row, Roles, Statuses
<1>2. Idle \in Request
  BY DEF Request, Idle, NoRow, Row, Roles, Statuses
<1>3. TypeOK
  BY <1>1, <1>2 DEF Init, TypeOK, Request
<1>4. Requested /\ Owned
  BY DEF Init, Requested, Owned, Idle, Issued
<1>5. LoginsAreVerified
  BY <1>1 DEF Init, LoginsAreVerified, Present
<1> QED
  BY <1>3, <1>4, <1>5 DEF IInv

LEMMA NextInv == IInv /\ [Next]_vars => IInv'
<1> SUFFICES ASSUME IInv, [Next]_vars PROVE IInv'
  OBVIOUS
<1>1. ASSUME NEW u \in Users, NEW t \in Tokens, Register(u, t) \/ RequestPasswordReset(u, t)
      PROVE  IInv'
  BY <1>1, IssueKeeps DEF Register, RequestPasswordReset, ghosts
<1>2. ASSUME NEW r \in Requests, NEW u \in Users,
             LoginRight(r, u) \/ LoginWrong(r, u) \/ DeleteAccount(r, u)
      PROVE  IInv'
  <2>1. {"login", "fail", "leave"} \subseteq Ops
    BY DEF Ops
  <2>2. Present(u) => rows[u] \in Row
    BY RowsPresent DEF IInv
  <2>3. CASE LoginRight(r, u)
    BY <2>1, <2>2, <2>3, BeginKeeps DEF LoginRight, Enters, Row
  <2>4. CASE LoginWrong(r, u)
    BY <2>1, <2>4, BeginKeeps DEF LoginWrong
  <2>5. CASE DeleteAccount(r, u)
    BY <2>1, <2>5, BeginKeeps DEF DeleteAccount
  <2> QED
    BY <1>2, <2>3, <2>4, <2>5
<1>3. ASSUME NEW r \in Requests, NEW t \in Tokens, UseToken(r, t) PROVE IInv'
  <2>1. tokens[t] \in Token /\ Present(tokens[t].user)
    BY <1>3, TokensIssued DEF UseToken, Usable, IInv, Owned
  <2>2. tokens[t].kind \in Ops /\ tokens[t].kind \in {"verify", "reset"} /\ tokens[t].user \in Users
    BY <2>1 DEF Token, Ops
  <2> QED
    BY <1>3, <2>1, <2>2, BeginKeeps DEF UseToken, Usable
<1>4. ASSUME NEW r \in Requests, NEW op \in AdminOps, NEW a \in Users, NEW u \in Users,
             AdminActs(r, op, a, u)
      PROVE  IInv'
  <2>1. op \in Ops /\ op \notin {"login", "fail", "leave"}
    BY DEF Ops, AdminOps, StatusOf
  <2> QED
    BY <1>4, <2>1, BeginKeeps DEF AdminActs
<1>5. ASSUME NEW r \in Requests, ReadUser(r) \/ EnsureNotLastAdmin(r) PROVE IInv'
  BY <1>5, ReadsKeep
<1>6. ASSUME NEW r \in Requests, CommitUpdate(r) PROVE IInv'
  BY <1>6, UpdateKeeps
<1>7. ASSUME NEW r \in Requests, CommitDelete(r) PROVE IInv'
  <2>1. {req[r].user} \in SUBSET Users
    BY <1>7 DEF CommitDelete, IInv, Requested, Knows
  <2> QED
    BY <1>7, <2>1, AuditedUsers, RemovedKeeps DEF CommitDelete, IInv, ghosts
<1>8. ASSUME NEW r \in Requests, AnonymizeLogs(r) \/ Abort(r) PROVE IInv'
  BY <1>8, EndKeeps DEF AnonymizeLogs, Abort, ghosts
<1>9. ASSUME NEW u \in Users, LockLapses(u) PROVE IInv'
  BY <1>9, LapseKeeps
<1>10. ASSUME NEW t \in Tokens, TokenExpires(t) PROVE IInv'
  BY <1>10, ExpiryKeeps
<1>11. ASSUME NEW old \in SUBSET Users, CleanupUnverified(old) PROVE IInv'
  BY <1>11, RemovedKeeps DEF CleanupUnverified, IInv, TypeOK, ghosts
<1>12. CASE UNCHANGED vars
  BY <1>12 DEF vars, ghosts, IInv, TypeOK, Request, Requested, Knows, Owned, LoginsAreVerified, Present, Issued
<1> QED
  BY <1>1, <1>2, <1>3, <1>4, <1>5, <1>6, <1>7, <1>8, <1>9, <1>10, <1>11, <1>12 DEF Next

LEMMA Inductive == Spec => []IInv
BY InitInv, NextInv, PTL DEF Spec

\* Every field of every row, token and request is of its kind.
THEOREM TypeCorrect == Spec => []TypeOK
<1>1. IInv => TypeOK
  BY DEF IInv
<1> QED
  BY <1>1, Inductive, PTL

\* Whoever has a session has verified his address, in every instance: between
\* the check of the password and the commit nothing takes a verification back.
THEOREM SessionsAreVerified == Spec => []LoginsAreVerified
<1>1. IInv => LoginsAreVerified
  BY DEF IInv
<1> QED
  BY <1>1, Inductive, PTL

-----------------------------------------------------------------------------
(* What changes a lock or a status *)

\* A row that stays and changes its status, or loses its lock, is written by a
\* commit of a request about it.
LEMMA RowWriters ==
    ASSUME IInv, [Next]_vars, NEW u \in Users, Present(u), Present(u)',
           \/ rows'[u].status # rows[u].status
           \/ rows[u].lock = "running" /\ rows'[u].lock = "none"
    PROVE  \E r \in Requests : CommitUpdate(r) /\ req[r].user = u
<1> USE AccountsAssumption
<1>1. rows'[u] # rows[u]
  OBVIOUS
<1>2. ASSUME NEW v \in Users, NEW t \in Tokens, Register(v, t) \/ RequestPasswordReset(v, t)
      PROVE  FALSE
  BY <1>1, <1>2 DEF Register, RequestPasswordReset, IInv, TypeOK, Present
<1>3. ASSUME NEW r \in Requests, UNCHANGED rows PROVE FALSE
  BY <1>1, <1>3
<1>4. ASSUME NEW gone, Removed(gone) PROVE FALSE
  BY <1>1, <1>4 DEF Removed, Present
<1>5. ASSUME NEW v \in Users, LockLapses(v) PROVE FALSE
  <2>1. rows' = [rows EXCEPT ![v] = [rows[v] EXCEPT !.lock = "lapsed"]] /\ rows[u] \in Row
    BY <1>5, RowsPresent DEF LockLapses, IInv
  <2>2. [rows[u] EXCEPT !.lock = "lapsed"].lock = "lapsed"
        /\ [rows[u] EXCEPT !.lock = "lapsed"].status = rows[u].status
    BY <2>1 DEF Row
  <2>3. rows'[u] = IF u = v THEN [rows[u] EXCEPT !.lock = "lapsed"] ELSE rows[u]
    BY <2>1 DEF IInv, TypeOK
  <2> QED
    BY <1>1, <2>2, <2>3
<1>6. ASSUME NEW r \in Requests, CommitUpdate(r) PROVE req[r].user = u
  BY <1>1, <1>6 DEF CommitUpdate, IInv, TypeOK
<1>7. ASSUME NEW t \in Tokens, TokenExpires(t) PROVE FALSE
  BY <1>1, <1>7 DEF TokenExpires
<1>8. CASE UNCHANGED vars
  BY <1>1, <1>8 DEF vars
<1>9. ASSUME NEW r \in Requests, NEW v \in Users,
             LoginRight(r, v) \/ LoginWrong(r, v) \/ DeleteAccount(r, v)
      PROVE  FALSE
  BY <1>3, <1>9 DEF LoginRight, LoginWrong, DeleteAccount, Begin
<1>10. ASSUME NEW r \in Requests, NEW t \in Tokens, UseToken(r, t) PROVE FALSE
  BY <1>3, <1>10 DEF UseToken, Begin
<1>11. ASSUME NEW r \in Requests, NEW op \in AdminOps, NEW a \in Users, NEW v \in Users,
              AdminActs(r, op, a, v)
       PROVE  FALSE
  BY <1>3, <1>11 DEF AdminActs, Begin
<1>12. ASSUME NEW r \in Requests, ReadUser(r) \/ EnsureNotLastAdmin(r) \/ AnonymizeLogs(r) \/ Abort(r) PROVE FALSE
  BY <1>3, <1>12 DEF ReadUser, EnsureNotLastAdmin, AnonymizeLogs, Abort
<1>13. PICK r \in Requests : CommitUpdate(r)
  BY <1>2, <1>4, <1>5, <1>7, <1>8, <1>9, <1>10, <1>11, <1>12 DEF Next, CommitDelete, CleanupUnverified
<1> QED
  BY <1>6, <1>13

\* What a commit makes of lock and status comes from what its handler had read.
LEMMA UpdateWrites ==
    ASSUME IInv, NEW r \in Requests, CommitUpdate(r)
    PROVE  LET u == req[r].user IN
           /\ Committing(r)
           /\ rows'[u].status # rows[u].status =>
                \/ req[r].op \in DOMAIN StatusOf \union {"verify"}
                \/ req[r].op = "verifyByAdmin" /\ req[r].seen.status = "pending"
           /\ rows[u].lock = "running" /\ rows'[u].lock = "none" =>
                req[r].op \in {"login", "reset"} /\ req[r].seen.lock # "none"
<1> DEFINE q == req[r]
           u == q.user
           after == Changed(q.op, q.seen)
<1>1. /\ u \in Users /\ q.op \in Ops \ {"delete", "leave"} /\ q.seen \in Row /\ rows[u] \in Row
      /\ q.op = "fail" => q.seen.failed < MaxFailed
  BY RowsPresent DEF CommitUpdate, IInv, TypeOK, Request, Requested, Knows
<1>2. /\ after \in Row
      /\ after.status # q.seen.status =>
           \/ q.op \in DOMAIN StatusOf \union {"verify"}
           \/ q.op = "verifyByAdmin" /\ q.seen.status = "pending"
      /\ after.lock # q.seen.lock /\ after.lock = "none" =>
           q.op \in {"login", "reset"} /\ q.seen.lock # "none"
  BY <1>1, ChangedRow
<1>3. rows'[u] = Merged(u, q.seen, after)
  BY <1>1 DEF CommitUpdate, IInv, TypeOK
<1>4. /\ rows'[u].status # rows[u].status =>
           rows'[u].status = after.status /\ after.status # q.seen.status
      /\ rows'[u].lock # rows[u].lock =>
           rows'[u].lock = after.lock /\ after.lock # q.seen.lock
  BY <1>1, <1>2, <1>3 DEF Merged, Row
<1>5. Committing(r)
  BY DEF CommitUpdate, Committing, IInv, TypeOK, Idle
<1> QED
  BY <1>2, <1>4, <1>5

\* No running lock is lifted by a request that had not seen one.
THEOREM LocksHold == Spec => LockHolds
<1>1. IInv /\ [Next]_vars =>
        [\A u \in Users :
           Present(u) /\ rows[u].lock = "running" /\ Present(u)' /\ rows'[u].lock = "none" =>
             \E r \in Requests :
               /\ Committing(r) /\ req[r].user = u
               /\ req[r].op \in {"login", "reset"} /\ req[r].seen.lock # "none"]_vars
  BY RowWriters, UpdateWrites
<1> QED
  BY <1>1, Inductive, PTL DEF Spec, LockHolds

\* A block or lock of an administrator is left in the ways BlockHolds names only.
THEOREM BlocksHold == Spec => BlockHolds
<1>1. IInv /\ [Next]_vars =>
        [\A u \in Users :
           (Present(u) /\ Present(u)' /\ rows[u].status \in {"blocked", "locked"}
              /\ rows'[u].status # rows[u].status) =>
             \E r \in Requests :
               /\ Committing(r) /\ req[r].user = u
               /\ \/ req[r].op \in DOMAIN StatusOf \union {"verify"}
                  \/ req[r].op = "verifyByAdmin" /\ req[r].seen.status = "pending"]_vars
  BY RowWriters, UpdateWrites
<1> QED
  BY <1>1, Inductive, PTL DEF Spec, BlockHolds

-----------------------------------------------------------------------------
(* Failures counted, tokens spent, administrators counted *)

\* Where no update was lost the counter of an account is no less than the failures,
\* and whoever has counted up to the threshold has set the lock.
Counting ==
    \A u \in Users :
        /\ rows[u] = None => guesses[u] = 0
        /\ u \notin lost /\ Present(u) =>
             /\ guesses[u] <= rows[u].failed
             /\ guesses[u] >= Threshold => rows[u].lock # "none"

\* A request that tells of a failure had not seen a running lock.
Tried == \A r \in Requests : req[r].pc # "idle" /\ req[r].op = "fail" => req[r].seen.lock # "running"

Presenting(t) == {r \in Requests : req[r].pc # "idle" /\ req[r].token = t}

\* A token that may still be used was not; each effect is one of those who presented it.
Spending ==
    \A t \in Tokens :
        /\ tokens[t] = None \/ Usable(t) => spends[t] = 0
        /\ spends[t] + Cardinality(Presenting(t)) <= Cardinality(Requests)

\* Who is about to take an administrator away has counted others.
Counters ==
    \A r \in Requests :
        req[r].pc = "commit" /\ req[r].op \in {"demote", "delete"} =>
            /\ req[r].seen.role = "administrator" => req[r].counted # {}
            /\ req[r].user \notin req[r].counted

\* A request begins, with what was asked before of the row it is about.
Begins(r, op, by, u, t, pc) ==
    /\ Begin(r, op, by, u, t, pc)
    /\ op = "fail" => pc = "commit" /\ rows[u].lock # "running"
    /\ op \in {"demote", "delete"} =>
         pc = "count" \/ (pc = "commit" /\ rows[u].role # "administrator")
    /\ t # None => Usable(t)

\* What may happen to a request, with what its beginning had read.
LEMMA RequestChanges ==
    ASSUME IInv, [Next]_vars, NEW r \in Requests, req'[r] # req[r]
    PROVE  \/ \E op \in Ops, by \in Users \union {None}, u \in Users, t \in Tokens \union {None}, pc \in {"user", "count", "logs", "commit"} :
                Begins(r, op, by, u, t, pc)
           \/ ReadUser(r)
           \/ EnsureNotLastAdmin(r)
           \/ req'[r] = Idle
<1> DEFINE Begun == \E op \in Ops, by \in Users \union {None}, u \in Users, t \in Tokens \union {None}, pc \in {"user", "count", "logs", "commit"} :
                Begins(r, op, by, u, t, pc)
<1>1. ASSUME UNCHANGED req PROVE FALSE
  BY <1>1
<1>2. ASSUME NEW q \in Requests, NEW op, NEW by, NEW u, NEW t, NEW pc, Begin(q, op, by, u, t, pc) PROVE q = r
  BY <1>2 DEF Begins, Begin, IInv, TypeOK
<1>3. ASSUME NEW q \in Requests, NEW u \in Users, LoginRight(q, u) \/ LoginWrong(q, u) \/ DeleteAccount(q, u)
      PROVE  Begun
  <2>1. {"login", "fail", "leave"} \subseteq Ops
    BY DEF Ops
  <2>2. CASE LoginRight(q, u)
    BY <1>2, <2>1, <2>2 DEF LoginRight, Begins
  <2>3. CASE LoginWrong(q, u)
    BY <1>2, <2>1, <2>3 DEF LoginWrong, MayTry, Begins
  <2>4. CASE DeleteAccount(q, u)
    BY <1>2, <2>1, <2>4 DEF DeleteAccount, Begins
  <2> QED
    BY <1>3, <2>2, <2>3, <2>4
<1>4. ASSUME NEW q \in Requests, NEW t \in Tokens, UseToken(q, t) PROVE Begun
  <2>1. tokens[t] \in Token
    BY <1>4, TokensIssued DEF UseToken, Usable, IInv
  <2>2. tokens[t].kind \in {"verify", "reset"} /\ tokens[t].user \in Users
    BY <2>1 DEF Token
  <2>3. {"verify", "reset"} \subseteq Ops
    BY DEF Ops
  <2> QED
    BY <1>2, <1>4, <2>2, <2>3 DEF UseToken, Begins
<1>5. ASSUME NEW q \in Requests, NEW op \in AdminOps, NEW a \in Users, NEW u \in Users, AdminActs(q, op, a, u)
      PROVE  Begun
  <2>1. op \in Ops /\ op # "fail"
    BY DEF Ops, AdminOps, StatusOf
  <2>2. IF op \in {"demote", "delete"} /\ IsAdmin(u)
        THEN Begin(q, op, a, u, None, "count") ELSE Begin(q, op, a, u, None, "commit")
    BY <1>5 DEF AdminActs
  <2>3. Present(u)
    BY <1>5 DEF AdminActs
  <2>4. CASE op \in {"demote", "delete"} /\ IsAdmin(u)
    <3>1. Begin(q, op, a, u, None, "count")
      BY <2>2, <2>4
    <3>2. q = r
      BY <1>2, <3>1
    <3>3. Begin(r, op, a, u, None, "count")
      BY <3>1, <3>2, Zenon
    <3>4. Begins(r, op, a, u, None, "count")
      BY <2>1, <3>3 DEF Begins
    <3> QED
      BY <2>1, <3>4
  <2>5. CASE op \in {"demote", "delete"} /\ ~IsAdmin(u)
    BY <1>2, <2>1, <2>2, <2>3, <2>5 DEF IsAdmin, Begins
  <2>6. CASE op \notin {"demote", "delete"}
    BY <1>2, <2>1, <2>2, <2>6 DEF Begins
  <2> QED
    BY <2>4, <2>5, <2>6
<1>6. ASSUME NEW q \in Requests, ReadUser(q) \/ EnsureNotLastAdmin(q) PROVE q = r
  BY <1>6 DEF ReadUser, EnsureNotLastAdmin, IInv, TypeOK
<1>7. ASSUME NEW q \in Requests, CommitUpdate(q) \/ CommitDelete(q) \/ AnonymizeLogs(q) \/ Abort(q) PROVE req'[r] = Idle
  BY <1>7 DEF CommitUpdate, CommitDelete, AnonymizeLogs, Abort, IInv, TypeOK
<1>8. CASE UNCHANGED req
  BY <1>1, <1>8
<1> HIDE DEF Begun
<1>9. Begun \/ ReadUser(r) \/ EnsureNotLastAdmin(r) \/ req'[r] = Idle
  <2>1. CASE UNCHANGED vars
    BY <1>8, <2>1 DEF vars
  <2>2. CASE \E u \in Users, t \in Tokens : Register(u, t) \/ RequestPasswordReset(u, t)
    BY <1>8, <2>2 DEF Register, RequestPasswordReset
  <2>3. CASE \/ \E u \in Users : LockLapses(u)
             \/ \E t \in Tokens : TokenExpires(t)
             \/ \E old \in SUBSET Users : CleanupUnverified(old)
    BY <1>8, <2>3 DEF LockLapses, TokenExpires, CleanupUnverified
  <2> QED
    BY <1>3, <1>4, <1>5, <1>6, <1>7, <2>1, <2>2, <2>3 DEF Next
<1> QED
  BY <1>9 DEF Begun

LEMMA TriedNext == IInv /\ Tried /\ [Next]_vars => Tried'
<1> SUFFICES ASSUME IInv, Tried, [Next]_vars, NEW r \in Requests, req'[r].pc # "idle", req'[r].op = "fail"
             PROVE  req'[r].seen.lock # "running"
  BY DEF Tried
<1>1. CASE req'[r] = req[r]
  BY <1>1 DEF Tried
<1>2. ASSUME NEW op \in Ops, NEW by \in Users \union {None}, NEW u \in Users, NEW t \in Tokens \union {None}, NEW pc \in {"user", "count", "logs", "commit"},
             Begins(r, op, by, u, t, pc)
      PROVE  req'[r].seen.lock # "running"
  BY <1>2 DEF Begins, Begin, IInv, TypeOK
<1>3. CASE ReadUser(r)
  BY <1>3 DEF ReadUser, IInv, TypeOK, Requested, Knows
<1>4. CASE EnsureNotLastAdmin(r)
  BY <1>4 DEF EnsureNotLastAdmin, IInv, TypeOK, Request, Tried, Idle
<1>5. CASE req'[r] = Idle
  BY <1>5 DEF Idle
<1> QED
  BY <1>1, <1>2, <1>3, <1>4, <1>5, RequestChanges

LEMMA CountersNext == IInv /\ Counters /\ [Next]_vars => Counters'
<1> SUFFICES ASSUME IInv, Counters, [Next]_vars, NEW r \in Requests,
                    req'[r].pc = "commit", req'[r].op \in {"demote", "delete"}
             PROVE  /\ req'[r].seen.role = "administrator" => req'[r].counted # {}
                    /\ req'[r].user \notin req'[r].counted
  BY DEF Counters
<1>1. CASE req'[r] = req[r]
  BY <1>1 DEF Counters
<1>2. ASSUME NEW op \in Ops, NEW by \in Users \union {None}, NEW u \in Users, NEW t \in Tokens \union {None}, NEW pc \in {"user", "count", "logs", "commit"},
             Begins(r, op, by, u, t, pc)
      PROVE  /\ req'[r].seen.role = "administrator" => req'[r].counted # {}
             /\ req'[r].user \notin req'[r].counted
  BY <1>2 DEF Begins, Begin, IInv, TypeOK
<1>3. CASE ReadUser(r)
  BY <1>3 DEF ReadUser, IInv, TypeOK, Requested, Knows
<1>4. CASE EnsureNotLastAdmin(r)
  BY <1>4 DEF EnsureNotLastAdmin, Others, IInv, TypeOK, Request, Idle
<1>5. CASE req'[r] = Idle
  BY <1>5 DEF Idle
<1> QED
  BY <1>1, <1>2, <1>3, <1>4, <1>5, RequestChanges

\* The last administrator goes with one who takes him away himself.
LEMMA LastGoes ==
    ASSUME IInv, Counters, [Next]_vars, NEW r \in Requests,
           Committing(r), req[r].op \in {"demote", "delete"}, LastAdminGoes
    PROVE  \/ req[r].seen.role # "administrator"
           \/ req[r].counted # {} /\ req[r].counted \intersect RemainingAdmins = {}
<1>1. RemainingAdmins # RemainingAdmins'
  BY DEF LastAdminGoes
<1>2. \A v \in Users \ {req[r].user} : rows'[v] = rows[v]
  <2>1. CommitUpdate(r) \/ CommitDelete(r)
    <3>1. ASSUME UNCHANGED req PROVE FALSE
      BY <3>1 DEF Committing
    <3>2. ASSUME UNCHANGED rows PROVE FALSE
      BY <1>1, <3>2 DEF RemainingAdmins, IsAdmin, Present
    <3>3. ASSUME NEW q \in Requests, CommitUpdate(q) \/ CommitDelete(q) PROVE q = r
      BY <3>3 DEF CommitUpdate, CommitDelete, Committing, IInv, TypeOK
    <3> QED
      BY <3>1, <3>2, <3>3
         DEF Next, vars, Register, RequestPasswordReset, LoginRight, LoginWrong, DeleteAccount, UseToken,
             AdminActs, Begin, ReadUser, EnsureNotLastAdmin, AnonymizeLogs, Abort, LockLapses, TokenExpires, CleanupUnverified
  <2>2. CASE CommitUpdate(r)
    BY <2>2 DEF CommitUpdate, IInv, TypeOK
  <2>3. CASE CommitDelete(r)
    BY <2>3 DEF CommitDelete, Removed
  <2> QED
    BY <2>1, <2>2, <2>3
<1>3. RemainingAdmins \subseteq {req[r].user}
  BY <1>2 DEF LastAdminGoes, RemainingAdmins, IsAdmin, Present
<1>4. /\ req[r].seen.role = "administrator" => req[r].counted # {}
      /\ req[r].user \notin req[r].counted
  BY DEF Counters, Committing
<1> QED
  BY <1>3, <1>4

-----------------------------------------------------------------------------
(* Tokens *)

LEMMA PresentingFinite ==
    \A t : IsFiniteSet(Presenting(t)) /\ Cardinality(Presenting(t)) \in Nat
           /\ Cardinality(Presenting(t)) <= Cardinality(Requests) /\ Cardinality(Requests) \in Nat
<1> SUFFICES ASSUME NEW t
             PROVE  IsFiniteSet(Presenting(t)) /\ Cardinality(Presenting(t)) \in Nat
                    /\ Cardinality(Presenting(t)) <= Cardinality(Requests) /\ Cardinality(Requests) \in Nat
  OBVIOUS
<1>1. Presenting(t) \in SUBSET Requests
  BY DEF Presenting
<1> QED
  BY <1>1, FS_Subset, FS_CardinalityType, AccountsAssumption

\* The requests that present a token after a step: fewer, or one more, which
\* found the token usable.
LEMMA PresentingNext ==
    ASSUME IInv, [Next]_vars, NEW t \in Tokens
    PROVE  Presenting(t)' \subseteq Presenting(t) \/ Usable(t)
<1> SUFFICES ASSUME NEW r \in Requests, req'[r].pc # "idle", req'[r].token = t, r \notin Presenting(t)
             PROVE  Usable(t)
  BY DEF Presenting
<1>1. req'[r] # req[r]
  BY DEF Presenting
<1>2. t # None
  BY AccountsAssumption
<1>3. ASSUME NEW op \in Ops, NEW by \in Users \union {None}, NEW u \in Users, NEW s \in Tokens \union {None}, NEW pc \in {"user", "count", "logs", "commit"},
             Begins(r, op, by, u, s, pc)
      PROVE  Usable(t)
  <2>1. req'[r].token = s
    BY <1>3 DEF Begins, Begin, IInv, TypeOK
  <2> QED
    BY <1>2, <1>3, <2>1 DEF Begins
<1>4. CASE ReadUser(r)
  BY <1>4 DEF ReadUser, Presenting, IInv, TypeOK, Request
<1>5. CASE EnsureNotLastAdmin(r)
  BY <1>5 DEF EnsureNotLastAdmin, Presenting, IInv, TypeOK, Request, Idle
<1>6. CASE req'[r] = Idle
  BY <1>6 DEF Idle
<1> QED
  BY <1>1, <1>3, <1>4, <1>5, <1>6, RequestChanges

\* What a step may do to a token and to the count of its effects.
LEMMA TokenChanges ==
    ASSUME IInv, [Next]_vars, NEW t \in Tokens
    PROVE  \/ /\ spends'[t] = spends[t]
              /\ tokens'[t] = None \/ Usable(t)' => tokens[t] = None \/ Usable(t)
           \/ \E r \in Presenting(t) :
                /\ spends'[t] = spends[t] + 1
                /\ ~Usable(t)' /\ tokens'[t] # None
                /\ Presenting(t)' = Presenting(t) \ {r}
<1> DEFINE Kept == /\ spends'[t] = spends[t]
                   /\ tokens'[t] = None \/ Usable(t)' => tokens[t] = None \/ Usable(t)
<1> USE AccountsAssumption
<1>1. CASE UNCHANGED <<tokens, spends>>
  BY <1>1 DEF Usable, Issued
<1>2. ASSUME NEW s \in Tokens, NEW kind, NEW u, Issue(s, kind, u), UNCHANGED spends PROVE Kept
  BY <1>2 DEF Issue, IInv, TypeOK, Usable, Issued
<1>3. ASSUME NEW gone, Removed(gone), UNCHANGED spends PROVE Kept
  BY <1>3 DEF Removed, Usable, Issued
<1>4. ASSUME NEW s \in Tokens, TokenExpires(s) PROVE Kept
  <2>1. tokens[s] \in Token /\ tokens' = [tokens EXCEPT ![s] = [tokens[s] EXCEPT !.state = "expired"]]
    BY <1>4, TokensIssued DEF TokenExpires, Usable, IInv
  <2>2. [tokens[s] EXCEPT !.state = "expired"] \in Token
    BY <2>1 DEF Token
  <2>3. UNCHANGED spends
    BY <1>4 DEF TokenExpires, ghosts
  <2>4. CASE s # t
    BY <2>1, <2>3, <2>4 DEF Usable, Issued, IInv, TypeOK
  <2>5. CASE s = t
    BY <1>4, <2>3, <2>5 DEF TokenExpires
  <2> QED
    BY <2>4, <2>5
<1>5. ASSUME NEW r \in Requests, CommitUpdate(r), req[r].token # t PROVE Kept
  BY <1>5 DEF CommitUpdate, TokensAfter, Ghosts, Usable, Issued
<1>6. ASSUME NEW r \in Requests, CommitUpdate(r), req[r].token = t
      PROVE  /\ r \in Presenting(t)
             /\ spends'[t] = spends[t] + 1
             /\ ~Usable(t)' /\ tokens'[t] # None
             /\ Presenting(t)' = Presenting(t) \ {r}
  <2>1. t # None /\ Issued(t) /\ tokens[t] \in Token
    BY <1>6, TokensIssued DEF CommitUpdate, IInv, Requested, Knows
  <2>2. tokens'[t] = [tokens[t] EXCEPT !.state = "used"]
    BY <1>6 DEF CommitUpdate, TokensAfter
  <2>3. tokens'[t].state = "used" /\ tokens'[t] \in Token
    BY <2>1, <2>2 DEF Token
  <2>4. spends'[t] = spends[t] + 1
    BY <1>6 DEF CommitUpdate, Ghosts
  <2>5. r \in Presenting(t) /\ Presenting(t)' = Presenting(t) \ {r}
    BY <1>6 DEF CommitUpdate, Presenting, IInv, TypeOK, Idle
  <2> QED
    BY <2>3, <2>4, <2>5 DEF Usable
<1>7. CASE \E u \in Users, s \in Tokens : Register(u, s) \/ RequestPasswordReset(u, s)
  BY <1>2, <1>7 DEF Register, RequestPasswordReset, ghosts
<1>8. CASE (\E r \in Requests : CommitDelete(r)) \/ (\E old \in SUBSET Users : CleanupUnverified(old))
  BY <1>3, <1>8 DEF CommitDelete, CleanupUnverified, ghosts
<1>9. CASE \E r \in Requests :
            \/ \E u \in Users : LoginRight(r, u) \/ LoginWrong(r, u) \/ DeleteAccount(r, u)
            \/ \E s \in Tokens : UseToken(r, s)
            \/ \E op \in AdminOps, a \in Users, u \in Users : AdminActs(r, op, a, u)
            \/ ReadUser(r) \/ EnsureNotLastAdmin(r) \/ AnonymizeLogs(r) \/ Abort(r)
  BY <1>1, <1>9 DEF LoginRight, LoginWrong, DeleteAccount, UseToken, AdminActs, Begin, ReadUser,
                    EnsureNotLastAdmin, AnonymizeLogs, Abort, ghosts
<1>10. CASE UNCHANGED vars \/ \E u \in Users : LockLapses(u)
  BY <1>1, <1>10 DEF vars, LockLapses, ghosts
<1> QED
  BY <1>4, <1>5, <1>6, <1>7, <1>8, <1>9, <1>10 DEF Next

LEMMA SpendingNext == IInv /\ Spending /\ [Next]_vars => Spending'
<1> SUFFICES ASSUME IInv, Spending, [Next]_vars, NEW t \in Tokens
             PROVE  /\ tokens'[t] = None \/ Usable(t)' => spends'[t] = 0
                    /\ spends'[t] + Cardinality(Presenting(t)') <= Cardinality(Requests)
  BY DEF Spending
<1>1. /\ tokens[t] = None \/ Usable(t) => spends[t] = 0
      /\ spends[t] + Cardinality(Presenting(t)) <= Cardinality(Requests)
      /\ spends[t] \in Nat
  BY DEF Spending, IInv, TypeOK
<1>2. /\ IsFiniteSet(Presenting(t)) /\ Cardinality(Presenting(t)) \in Nat
      /\ Cardinality(Requests) \in Nat
  BY PresentingFinite
<1>3. Presenting(t)' \in SUBSET Requests
  BY DEF Presenting
<1>4. IsFiniteSet(Presenting(t)') /\ Cardinality(Presenting(t)') \in Nat
      /\ Cardinality(Presenting(t)') <= Cardinality(Requests)
  BY <1>3, FS_Subset, FS_CardinalityType, AccountsAssumption
<1>5. CASE /\ spends'[t] = spends[t]
           /\ tokens'[t] = None \/ Usable(t)' => tokens[t] = None \/ Usable(t)
  <2>1. CASE Usable(t)
    BY <1>1, <1>2, <1>4, <1>5, <2>1
  <2>2. CASE Presenting(t)' \subseteq Presenting(t)
    <3>1. Cardinality(Presenting(t)') <= Cardinality(Presenting(t))
      BY <1>2, <2>2, FS_Subset
    <3> QED
      BY <1>1, <1>2, <1>4, <1>5, <3>1
  <2> QED
    BY <2>1, <2>2, PresentingNext
<1>6. ASSUME NEW r \in Presenting(t), spends'[t] = spends[t] + 1, ~Usable(t)', tokens'[t] # None,
             Presenting(t)' = Presenting(t) \ {r}
      PROVE  /\ tokens'[t] = None \/ Usable(t)' => spends'[t] = 0
             /\ spends'[t] + Cardinality(Presenting(t)') <= Cardinality(Requests)
  <2>1. Cardinality(Presenting(t)') = Cardinality(Presenting(t)) - 1
    BY <1>2, <1>6, FS_RemoveElement
  <2> QED
    BY <1>1, <1>2, <1>6, <2>1
<1> QED
  BY <1>5, <1>6, TokenChanges

-----------------------------------------------------------------------------
(* Failures *)

LEMMA CommitCounts ==
    ASSUME IInv, Counting, Tried, NEW r \in Requests, CommitUpdate(r), NEW u \in Users,
           u \notin lost', Present(u)'
    PROVE  /\ guesses'[u] <= rows'[u].failed
           /\ guesses'[u] >= Threshold => rows'[u].lock # "none"
<1> DEFINE q == req[r]
           after == Changed(q.op, q.seen)
<1> USE AccountsAssumption
<1>1. /\ q.user \in Users /\ q.op \in Ops \ {"delete", "leave"} /\ q.seen \in Row /\ rows[q.user] \in Row
      /\ q.op = "fail" => q.seen.failed < MaxFailed /\ q.seen.lock # "running"
  BY RowsPresent DEF CommitUpdate, IInv, TypeOK, Request, Requested, Knows, Tried
<1>2. u \notin lost /\ Present(u) /\ rows[u] \in Row /\ guesses[u] \in Nat
  <2>1. u \notin lost
    BY DEF CommitUpdate, Ghosts
  <2>2. Present(u)
    BY DEF CommitUpdate, Present
  <2> QED
    BY <2>1, <2>2, RowsPresent DEF IInv, TypeOK
<1>3. /\ guesses[u] <= rows[u].failed
      /\ guesses[u] >= Threshold => rows[u].lock # "none"
  BY <1>2 DEF Counting
<1>4. CASE u # q.user
  BY <1>3, <1>4 DEF CommitUpdate, Ghosts, IInv, TypeOK
<1>5. CASE u = q.user
  <2>1. after \in Row
    BY <1>1, ChangedRow
  <2>2. rows'[u] = Merged(u, q.seen, after)
    BY <1>5 DEF CommitUpdate, IInv, TypeOK
  <2>3. /\ rows'[u].failed = (IF after.failed # q.seen.failed THEN after.failed ELSE rows[u].failed)
        /\ rows'[u].lock = (IF after.lock # q.seen.lock THEN after.lock ELSE rows[u].lock)
    BY <1>1, <2>1, <2>2 DEF Merged, Row
  <2> HIDE DEF after
  <2>4. CASE q.op = "fail"
    <3>1. /\ after.failed = q.seen.failed + 1
          /\ after.lock = IF q.seen.failed + 1 >= Threshold THEN "running" ELSE q.seen.lock
      BY <1>1, <2>4 DEF after, Changed, LockDuration, Row
    <3>2. rows[u].failed = q.seen.failed /\ guesses'[u] = guesses[u] + 1
      BY <1>5, <2>4 DEF CommitUpdate, Ghosts, IInv, TypeOK
    <3>3. q.seen.failed \in Nat /\ after.failed # q.seen.failed
      BY <1>1, <3>1 DEF Row
    <3>4. rows'[u].failed = q.seen.failed + 1
      BY <2>3, <3>1, <3>3
    <3>5. guesses'[u] <= rows'[u].failed
      BY <1>2, <1>3, <3>2, <3>3, <3>4
    <3>6. guesses'[u] >= Threshold => rows'[u].lock = "running"
      <4>1. guesses'[u] >= Threshold => q.seen.failed + 1 >= Threshold
        BY <1>2, <3>2, <3>3, <3>4, <3>5
      <4>2. guesses'[u] >= Threshold => after.lock = "running"
        BY <3>1, <4>1
      <4> QED
        BY <1>1, <2>3, <2>4, <4>2
    <3> QED
      BY <3>5, <3>6
  <2>5. CASE q.op \in {"login", "reset"}
    <3>1. guesses'[u] = 0
      BY <1>5, <2>5 DEF CommitUpdate, Ghosts, IInv, TypeOK
    <3>2. rows'[u].failed \in Nat
      BY <1>1, <1>2, <2>1, <2>3 DEF Row
    <3> QED
      BY <3>1, <3>2
  <2>6. CASE q.op \notin {"fail", "login", "reset"}
    <3>1. after.failed = q.seen.failed /\ after.lock = q.seen.lock
      <4>1. q.op \in {"verify", "verifyByAdmin", "promote", "demote"} \union DOMAIN StatusOf
        BY <1>1, <2>6 DEF Ops, AdminOps
      <4>2. CASE q.op \in {"verify", "verifyByAdmin", "promote", "demote"}
        BY <1>1, <4>2 DEF after, Changed, VerifiedByAdmin, Row
      <4>3. CASE q.op \in DOMAIN StatusOf
        <5>1. after = [q.seen EXCEPT !.status = StatusOf[q.op]]
          BY <4>3 DEF after, Changed, StatusOf
        <5> QED
          BY <1>1, <5>1 DEF Row
      <4> QED
        BY <4>1, <4>2, <4>3
    <3>2. guesses'[u] = guesses[u]
      BY <1>5, <2>6 DEF CommitUpdate, Ghosts, IInv, TypeOK
    <3> QED
      BY <1>3, <2>3, <3>1, <3>2
  <2> QED
    BY <2>4, <2>5, <2>6
<1> QED
  BY <1>4, <1>5

LEMMA CountingNext == IInv /\ Tried /\ Counting /\ [Next]_vars => Counting'
<1> SUFFICES ASSUME IInv, Tried, Counting, [Next]_vars, NEW u \in Users
             PROVE  /\ rows'[u] = None => guesses'[u] = 0
                    /\ u \notin lost' /\ Present(u)' =>
                         /\ guesses'[u] <= rows'[u].failed
                         /\ guesses'[u] >= Threshold => rows'[u].lock # "none"
  BY DEF Counting
<1> USE AccountsAssumption
<1> DEFINE Goal == /\ rows'[u] = None => guesses'[u] = 0
                   /\ u \notin lost' /\ Present(u)' =>
                        /\ guesses'[u] <= rows'[u].failed
                        /\ guesses'[u] >= Threshold => rows'[u].lock # "none"
<1>1. /\ rows[u] = None => guesses[u] = 0
      /\ u \notin lost /\ Present(u) =>
           /\ guesses[u] <= rows[u].failed
           /\ guesses[u] >= Threshold => rows[u].lock # "none"
  BY DEF Counting
<1>2. ASSUME UNCHANGED <<rows, guesses, lost>> PROVE Goal
  BY <1>1, <1>2 DEF Present
<1>3. ASSUME NEW v \in Users, NEW t \in Tokens, Register(v, t) PROVE Goal
  <2>1. rows' = [rows EXCEPT ![v] = NoRow] /\ rows[v] = None /\ UNCHANGED <<guesses, lost>>
    BY <1>3 DEF Register, ghosts
  <2>2. CASE u # v
    BY <1>1, <2>1, <2>2 DEF Present, IInv, TypeOK
  <2>3. CASE u = v
    <3>1. rows'[u] = NoRow /\ guesses'[u] = 0
      BY <1>1, <2>1, <2>3 DEF IInv, TypeOK
    <3>2. NoRow.failed = 0
      BY DEF NoRow
    <3> QED
      BY <3>1, <3>2
  <2> QED
    BY <2>2, <2>3
<1>4. ASSUME NEW gone, Removed(gone), UNCHANGED ghosts PROVE Goal
  BY <1>1, <1>4 DEF Removed, Present, ghosts
<1>5. ASSUME NEW v \in Users, LockLapses(v) PROVE Goal
  <2>1. /\ rows' = [rows EXCEPT ![v] = [rows[v] EXCEPT !.lock = "lapsed"]]
        /\ rows[v] \in Row /\ UNCHANGED <<guesses, lost>>
    BY <1>5, RowsPresent DEF LockLapses, IInv, ghosts
  <2>2. /\ [rows[v] EXCEPT !.lock = "lapsed"].failed = rows[v].failed
        /\ [rows[v] EXCEPT !.lock = "lapsed"].lock = "lapsed"
        /\ [rows[v] EXCEPT !.lock = "lapsed"] \in Row
    BY <2>1 DEF Row
  <2>3. CASE u # v
    BY <1>1, <2>1, <2>3 DEF Present, IInv, TypeOK
  <2>4. CASE u = v
    <3>1. rows'[u] = [rows[u] EXCEPT !.lock = "lapsed"] /\ Present(u)
      BY <1>5, <2>1, <2>4 DEF LockLapses, IInv, TypeOK
    <3> QED
      BY <1>1, <2>1, <2>2, <2>4, <3>1
  <2> QED
    BY <2>3, <2>4
<1>6. ASSUME NEW r \in Requests, CommitUpdate(r) PROVE Goal
  <2>1. rows'[u] = None => rows[u] = None /\ u # req[r].user
    <3>1. /\ req[r].op \in Ops \ {"delete", "leave"} /\ req[r].seen \in Row /\ rows[req[r].user] \in Row
          /\ req[r].user \in Users
          /\ req[r].op = "fail" => req[r].seen.failed < MaxFailed
      BY <1>6, RowsPresent DEF CommitUpdate, IInv, TypeOK, Request, Requested, Knows
    <3>2. Merged(req[r].user, req[r].seen, Changed(req[r].op, req[r].seen)) \in Row
      BY <3>1, ChangedRow, MergedRow
    <3> QED
      BY <1>6, <3>1, <3>2 DEF CommitUpdate, IInv, TypeOK
  <2>2. rows'[u] = None => guesses'[u] = 0
    BY <1>1, <1>6, <2>1 DEF CommitUpdate, Ghosts, IInv, TypeOK
  <2> QED
    BY <1>6, <2>2, CommitCounts
<1>7. ASSUME NEW r \in Requests, NEW v \in Users,
             LoginRight(r, v) \/ LoginWrong(r, v) \/ DeleteAccount(r, v)
      PROVE  Goal
  BY <1>2, <1>7 DEF LoginRight, LoginWrong, DeleteAccount, Begin, ghosts
<1>8. ASSUME NEW r \in Requests, NEW t \in Tokens, UseToken(r, t) PROVE Goal
  BY <1>2, <1>8 DEF UseToken, Begin, ghosts
<1>9. ASSUME NEW r \in Requests, NEW op \in AdminOps, NEW a \in Users, NEW v \in Users,
              AdminActs(r, op, a, v)
       PROVE  Goal
  BY <1>2, <1>9 DEF AdminActs, Begin, ghosts
<1>10. ASSUME NEW r \in Requests, ReadUser(r) \/ EnsureNotLastAdmin(r) \/ AnonymizeLogs(r) \/ Abort(r) PROVE Goal
  BY <1>2, <1>10 DEF ReadUser, EnsureNotLastAdmin, AnonymizeLogs, Abort, ghosts
<1>11. ASSUME UNCHANGED vars PROVE Goal
  BY <1>2, <1>11 DEF vars
<1>12. ASSUME NEW v \in Users, NEW t \in Tokens, RequestPasswordReset(v, t) PROVE Goal
  BY <1>2, <1>12 DEF RequestPasswordReset, ghosts
<1>13. ASSUME NEW t \in Tokens, TokenExpires(t) PROVE Goal
  BY <1>2, <1>13 DEF TokenExpires, ghosts
<1>14. ASSUME NEW r \in Requests, CommitDelete(r) PROVE Goal
  BY <1>4, <1>14 DEF CommitDelete
<1>15. ASSUME NEW old \in SUBSET Users, CleanupUnverified(old) PROVE Goal
  BY <1>4, <1>15 DEF CleanupUnverified
<1> HIDE DEF Goal
<1>16. ASSUME \E v \in Users, t \in Tokens : Register(v, t) \/ RequestPasswordReset(v, t)
       PROVE  Goal
  BY <1>3, <1>12, <1>16
<1>17. ASSUME NEW r \in Requests,
              \/ \E v \in Users : LoginRight(r, v) \/ LoginWrong(r, v) \/ DeleteAccount(r, v)
              \/ \E t \in Tokens : UseToken(r, t)
              \/ \E op \in AdminOps, a \in Users, v \in Users : AdminActs(r, op, a, v)
              \/ ReadUser(r) \/ EnsureNotLastAdmin(r)
              \/ CommitUpdate(r) \/ CommitDelete(r) \/ AnonymizeLogs(r) \/ Abort(r)
       PROVE  Goal
  BY <1>6, <1>7, <1>8, <1>9, <1>10, <1>14, <1>17
<1>18. ASSUME \/ \E v \in Users : LockLapses(v)
              \/ \E t \in Tokens : TokenExpires(t)
              \/ \E old \in SUBSET Users : CleanupUnverified(old)
       PROVE  Goal
  BY <1>5, <1>13, <1>15, <1>18
<1>19. Goal
  BY <1>11, <1>16, <1>17, <1>18 DEF Next
<1> QED
  BY <1>19 DEF Goal

-----------------------------------------------------------------------------
(* The invariant of the counts, and what follows from it *)

CountInv == IInv /\ Tried /\ Counting /\ Counters /\ Spending

LEMMA InitCounts == Init => Tried /\ Counting /\ Counters /\ Spending
<1> SUFFICES ASSUME Init PROVE Tried /\ Counting /\ Counters /\ Spending
  OBVIOUS
<1> USE AccountsAssumption
<1>1. \A r \in Requests : req[r] = Idle
  BY DEF Init
<1>2. Idle.pc = "idle"
  BY DEF Idle
<1>3. Tried /\ Counters
  BY <1>1, <1>2 DEF Tried, Counters
<1>4. Counting
  <2>1. AdminRow.failed = 0
    BY DEF AdminRow, NoRow
  <2>2. \A u \in Users : guesses[u] = 0 /\ (Present(u) => rows[u].failed = 0)
    BY <2>1 DEF Init, Present
  <2> QED
    BY <2>2 DEF Counting
<1>5. Spending
  <2>1. \A t \in Tokens : Presenting(t) = {}
    BY <1>1, <1>2 DEF Presenting
  <2>2. Cardinality({}) = 0
    BY FS_EmptySet
  <2>3. \A t \in Tokens : spends[t] = 0
    BY DEF Init
  <2>4. Cardinality(Requests) \in Nat
    BY FS_CardinalityType
  <2> QED
    BY <2>1, <2>2, <2>3, <2>4 DEF Spending
<1> QED
  BY <1>3, <1>4, <1>5

LEMMA CountsKept == Spec => []CountInv
<1>1. Init => CountInv
  BY InitInv, InitCounts DEF CountInv
<1>2. CountInv /\ [Next]_vars => CountInv'
  BY NextInv, TriedNext, CountingNext, CountersNext, SpendingNext DEF CountInv
<1> QED
  BY <1>1, <1>2, PTL DEF Spec

\* As many failures in a row as the threshold lock an account, unless the update of
\* one of them was lost to a simultaneous one.
THEOREM LocksComeInTime == Spec => []LockInTime
<1>1. CountInv => LockInTime
  BY DEF CountInv, Counting, LockInTime
<1> QED
  BY <1>1, CountsKept, PTL

\* A token has no more effects than requests that could present it at once.
THEOREM SpendsAreBounded == Spec => []SpendsBounded
<1>1. CountInv => SpendsBounded
  <2> SUFFICES ASSUME CountInv, NEW t \in Tokens PROVE spends[t] <= Cardinality(Requests)
    BY DEF SpendsBounded
  <2>1. spends[t] \in Nat /\ spends[t] + Cardinality(Presenting(t)) <= Cardinality(Requests)
    BY DEF CountInv, IInv, TypeOK, Spending
  <2> QED
    BY <2>1, PresentingFinite
<1> QED
  BY <1>1, CountsKept, PTL

\* Whoever takes the last administrator away had counted others, all of whom
\* have ceased to be administrators since, or had read a user who was none.
THEOREM LastAdminIsCounted == Spec => LastAdminCounted
<1>1. CountInv /\ [Next]_vars =>
        [\A r \in Requests :
           Committing(r) /\ req[r].op \in {"demote", "delete"} /\ LastAdminGoes =>
             \/ req[r].seen.role # "administrator"
             \/ req[r].counted # {} /\ req[r].counted \intersect RemainingAdmins = {}]_vars
  BY LastGoes DEF CountInv
<1> QED
  BY <1>1, CountsKept, PTL DEF Spec, LastAdminCounted
=============================================================================
