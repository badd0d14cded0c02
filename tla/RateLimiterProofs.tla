--------------------------- MODULE RateLimiterProofs ---------------------------
(***************************************************************************)
(* Proofs about RateLimiter, for every number of requests, callers and     *)
(* endpoints, all limits and windows, and any number of faults.            *)
(*                                                                         *)
(* The argument.  A request is charged at most once by each store for each *)
(* of its keys (Good).  What a store holds of a key is then, request by     *)
(* request, what was charged to it: every entry comes from a charge        *)
(* (FromCharges), and every charge the window still reaches is there        *)
(* (InStore).  So counting entries is counting charges, and a check that    *)
(* passes below the limit leaves the window within it.                      *)
(***************************************************************************)
EXTENDS RateLimiter, FiniteSetTheorems, TLAPS

AuthKey == <<"auth", "address">>

\* A request as it stands in its coroutine, and the charges that go with it.
GoodCharges(q) ==
    /\ \A c, d \in q.charged : c.key = d.key /\ c.store = d.store => c = d
    /\ \A c \in q.charged : c.store = "redis" => c.key \in Keys

HasSession(q) == \E c \in q.charged : c.key[1] = "session"

Waiting(q) ==
    /\ q.key \in Keys /\ q.endpoint = "tool"
    /\ q.user = None <=> q.key[1] # "user"
    /\ q.key[1] = "ip" => HasSession(q)
    /\ \A c \in q.charged : \/ c.key[1] = "session" /\ q.key[1] = "ip"
                            \/ c.key = q.key /\ c.store = "redis" /\ q.pc = "raised"

Good(q) ==
    /\ GoodCharges(q)
    /\ q.pc = "idle" => q.charged = {} /\ q.key = None /\ q.endpoint = "tool"
    /\ q.pc \in {"sent", "raised"} => Waiting(q)
    /\ q.pc = "address" =>
         /\ q.user = None /\ q.endpoint = "tool" /\ HasSession(q)
         /\ \A c \in q.charged : c.key[1] = "session"
    /\ q.pc = "passed" /\ q.endpoint = "tool" =>
         (IF q.user = None THEN {"session", "ip"} ELSE {"user"}) \subseteq {c.key[1] : c \in q.charged}
    /\ q.pc = "passed" /\ q.endpoint \in AuthEndpoints =>
         \A c \in q.charged : c.key = AuthKey /\ c.store = "memory"
    /\ q.pc = "refused" =>
         \A c \in q.charged : \/ c.key[1] = "session" /\ q.key[1] = "ip"
                              \/ c.key = q.key /\ c.store = "redis"

AllGood == \A r \in Requests : Good(req[r])

\* A restart is one of the faults.
Lives == life \in 1..MaxFaults + 1 /\ faults \in 0..MaxFaults /\ life <= faults + 1

\* The charges a window still reaches are in the store that made them.
InRedis ==
    \A r \in Requests : \A c \in req[r].charged : c.store = "redis" =>
        /\ c.at <= newest[c.key]
        /\ c.at > newest[c.key] - HardWindow => [id |-> r, at |-> c.at] \in zset[c.key]

InProcess ==
    \A r \in Requests : \A c \in req[r].charged : c.store = "memory" =>
        /\ c.at <= clock /\ c.life <= life
        /\ c.life = life /\ c.key \in Keys /\ c.at > clock - HardWindow =>
             [id |-> r, at |-> c.at] \in memory[c.key]
        /\ c.life = life /\ c.key = AuthKey /\ c.at > clock - ShortestWindow =>
             [id |-> r, at |-> c.at] \in auth

\* What the stores hold was charged.
FromCharges ==
    \A k \in Keys :
        /\ \A e \in zset[k] : \E c \in req[e.id].charged :
              c.key = k /\ c.store = "redis" /\ c.at = e.at
        /\ \A e \in memory[k] : \E c \in req[e.id].charged :
              c.key = k /\ c.store = "memory" /\ c.at = e.at

Books == InRedis /\ InProcess /\ FromCharges

IInv == TypeOK /\ AllGood /\ Lives /\ Books /\ WindowsHold /\ RefusedForCause

-----------------------------------------------------------------------------
(* Counting *)

\* There are finitely many entries, and so finitely many of any of them.
LEMMA EntriesFinite ==
    /\ IsFiniteSet(Entry)
    /\ \A E \in SUBSET Entry : IsFiniteSet(E)
<1> DEFINE P == Requests \X Time
           f == [e \in Entry |-> <<e.id, e.at>>]
<1>1. IsFiniteSet(Requests) /\ IsFiniteSet(Time)
  BY RateAssumption, FS_Interval DEF Time
<1>2. IsFiniteSet(P)
  BY <1>1, FS_Product
<1>3. f \in Injection(Entry, P)
  BY DEF Injection, IsInjective, Entry
<1>4. IsFiniteSet(Entry)
  BY <1>2, <1>3, FS_Injection
<1> QED
  BY <1>4, FS_Subset

\* Records of distinct requests, each of which has an entry, are no more than
\* the entries.
LEMMA Fewer ==
    ASSUME NEW G, NEW E, IsFiniteSet(E),
           \A g, h \in G : g.id = h.id => g = h,
           \A g \in G : \E e \in E : e.id = g.id
    PROVE  IsFiniteSet(G) /\ Cardinality(G) <= Cardinality(E)
<1> DEFINE f == [g \in G |-> CHOOSE e \in E : e.id = g.id]
<1>1. \A g \in G : f[g] \in E /\ f[g].id = g.id
  OBVIOUS
<1>2. f \in [G -> E]
  BY <1>1
<1> HIDE DEF f
<1>3. f \in Injection(G, E)
  BY <1>1, <1>2 DEF Injection, IsInjective
<1> QED
  BY <1>3, FS_Injection

\* The same, for a set of requests.
LEMMA FewerRequests ==
    ASSUME NEW Q, NEW E, IsFiniteSet(E), \A q \in Q : \E e \in E : e.id = q
    PROVE  IsFiniteSet(Q) /\ Cardinality(Q) <= Cardinality(E)
<1> DEFINE f == [q \in Q |-> CHOOSE e \in E : e.id = q]
<1>1. \A q \in Q : f[q] \in E /\ f[q].id = q
  OBVIOUS
<1>2. f \in [Q -> E]
  BY <1>1
<1> HIDE DEF f
<1>3. f \in Injection(Q, E)
  BY <1>1, <1>2 DEF Injection, IsInjective
<1> QED
  BY <1>3, FS_Injection

\* One more than a set that is smaller than n makes n at most.
LEMMA OneMore ==
    ASSUME NEW S, NEW x, NEW n \in Nat, IsFiniteSet(S), Cardinality(S) < n
    PROVE  IsFiniteSet(S \cup {x}) /\ Cardinality(S \cup {x}) <= n
<1>1. Cardinality(S) \in Nat
  BY FS_CardinalityType
<1>2. IsFiniteSet(S \cup {x}) /\ Cardinality(S \cup {x}) <= Cardinality(S) + 1
  BY <1>1, FS_AddElement
<1>3. Cardinality(S \cup {x}) \in Nat
  BY <1>2, FS_CardinalityType
<1> QED
  BY <1>1, <1>2, <1>3

LEMMA Smallest ==
    ASSUME NEW T \in SUBSET Nat, T # {} PROVE \E x \in T : \A y \in T : x <= y
<1> DEFINE R == OpToRel(<, Nat)
<1>1. IsWellFoundedOn(R, Nat)
  BY NatLessThanWellFounded
<1> HIDE DEF R
<1>2. PICK x \in T : \A y \in T : ~(<<y, x>> \in R)
  BY <1>1, WFMin
<1>3. \A y \in T : ~(y < x)
  BY <1>2 DEF R, OpToRel
<1> QED
  BY <1>2, <1>3

\* The shortest window is a window, and no endpoint has a shorter one.
LEMMA ShortestIs ==
    ASSUME NEW n \in AuthEndpoints
    PROVE  ShortestWindow \in Nat /\ ShortestWindow <= AuthLimit[n].window
<1> DEFINE T == {AuthLimit[m].window : m \in AuthEndpoints}
<1>1. T \in SUBSET Nat /\ AuthLimit[n].window \in T
  BY RateAssumption
<1>2. PICK w \in T : \A v \in T : w <= v
  BY <1>1, Smallest
<1>3. ShortestWindow \in T /\ \A m \in AuthEndpoints : ShortestWindow <= AuthLimit[m].window
  BY <1>2 DEF ShortestWindow
<1> QED
  BY <1>1, <1>3

LEMMA KeyKinds ==
    /\ \A k \in Keys : k[1] \in {"session", "user", "ip"} /\ k # AuthKey /\ k # None
    /\ <<"ip", "address">> \in Keys
    /\ \A k \in Keys : k[1] = "ip" => k = <<"ip", "address">>
BY RateAssumption DEF Keys, AuthKey

LEMMA LimitsNat ==
    \A k \in Keys : Limit[k[1]].soft \in Nat /\ Limit[k[1]].hard \in Nat
BY RateAssumption, KeyKinds

-----------------------------------------------------------------------------
(* What a request has been charged *)

\* A check by either store: a charge when it allows, none when it refuses.
LEMMA CheckedGood ==
    ASSUME NEW q, NEW c0, NEW N, NEW q2, Good(q), q.pc \in {"sent", "raised"},
           c0.key = q.key, c0.store = "memory" \/ (c0.store = "redis" /\ q.pc = "sent"),
           N = {} \/ N = {c0},
           q2.user = q.user, q2.key = q.key, q2.endpoint = q.endpoint, q2.charged = q.charged \cup N,
           q2.pc = (IF N = {} THEN "refused" ELSE IF q.key[1] = "session" THEN "address" ELSE "passed")
    PROVE  Good(q2)
<1>1. Waiting(q) /\ GoodCharges(q) /\ q.key \in Keys /\ q.key[1] \in {"session", "user", "ip"}
  BY KeyKinds DEF Good, Waiting
<1>2. \A c \in q.charged : \/ c.key[1] = "session" /\ q.key[1] = "ip"
                           \/ c.key = q.key /\ c.store = "redis" /\ q.pc = "raised"
  BY <1>1 DEF Waiting
<1>3. GoodCharges(q2)
  BY <1>1, <1>2 DEF GoodCharges
<1>4. q2.endpoint = "tool" /\ q2.endpoint \notin AuthEndpoints
  BY <1>1, RateAssumption DEF Waiting
<1>5. CASE N = {}
  <2>1. q2.pc = "refused" /\ q2.charged = q.charged
    BY <1>5
  <2> QED
    BY <1>2, <1>3, <2>1 DEF Good
<1>6. CASE N = {c0} /\ q.key[1] = "session"
  <2>1. q2.pc = "address" /\ q.user = None /\ c0 \in q2.charged
    BY <1>1, <1>6 DEF Waiting
  <2>2. \A c \in q2.charged : c.key[1] = "session"
    BY <1>2, <1>6
  <2> QED
    BY <1>3, <1>4, <2>1, <2>2 DEF Good, HasSession
<1>7. CASE N = {c0} /\ q.key[1] # "session"
  <2>1. q2.pc = "passed" /\ c0 \in q2.charged /\ q.charged \subseteq q2.charged
    BY <1>7
  <2>2. (IF q2.user = None THEN {"session", "ip"} ELSE {"user"}) \subseteq {c.key[1] : c \in q2.charged}
    <3>1. CASE q.key[1] = "user"
      BY <1>1, <2>1, <3>1 DEF Waiting
    <3>2. CASE q.key[1] = "ip"
      BY <1>1, <2>1, <3>2 DEF Waiting, HasSession
    <3> QED
      BY <1>1, <1>7, <3>1, <3>2
  <2> QED
    BY <1>3, <1>4, <2>1, <2>2 DEF Good
<1> QED
  BY <1>5, <1>6, <1>7

\* The script ran and its answer is lost: the fallback will charge again.
LEMMA RaisedGood ==
    ASSUME NEW q, NEW c0, NEW N, NEW q2, Good(q), q.pc = "sent",
           c0.key = q.key, c0.store = "redis", N = {} \/ N = {c0},
           q2.user = q.user, q2.key = q.key, q2.endpoint = q.endpoint, q2.charged = q.charged \cup N,
           q2.pc = "raised"
    PROVE  Good(q2)
<1>1. Waiting(q) /\ GoodCharges(q)
  BY DEF Good
<1>2. \A c \in q.charged : c.key[1] = "session" /\ q.key[1] = "ip"
  BY <1>1 DEF Waiting
<1>3. GoodCharges(q2)
  BY <1>1, <1>2 DEF GoodCharges, Waiting
<1>4. Waiting(q2)
  BY <1>1, <1>2 DEF Waiting, HasSession
<1> QED
  BY <1>3, <1>4 DEF Good

\* The requests as TypeOK has them.
Req == [pc : {"idle", "sent", "raised", "address", "passed", "ungated", "refused", "lost"},
        endpoint : {"tool"} \union AuthEndpoints,
        user : Users \union {None},
        key : Keys \union {None}, at : Time, charged : SUBSET Charge]

\* One request moves.
Moves(r, q) == req' = [req EXCEPT ![r] = q] /\ q \in Req /\ Good(q)

LEMMA MovesKeep ==
    ASSUME TypeOK, AllGood, NEW r \in Requests, NEW q, Moves(r, q)
    PROVE  /\ req' \in [Requests -> Req] /\ AllGood'
           /\ req'[r] = q /\ \A s \in Requests \ {r} : req'[s] = req[s]
<1>1. req \in [Requests -> Req]
  BY DEF TypeOK, Req
<1>2. req' \in [Requests -> Req] /\ req'[r] = q /\ \A s \in Requests \ {r} : req'[s] = req[s]
  BY <1>1 DEF Moves
<1> QED
  BY <1>2 DEF AllGood, Moves

LEMMA ReqType ==
    ASSUME TypeOK, AllGood, NEW r \in Requests
    PROVE  /\ req[r] \in Req /\ Good(req[r])
           /\ req[r].pc \in {"sent", "raised"} => req[r].key \in Keys
BY DEF TypeOK, Req, AllGood, Good, Waiting

\* A request is identified, and waits for its first check.
LEMMA ArriveMoves ==
    ASSUME TypeOK, AllGood, NEW r \in Requests, NEW c \in Callers, Arrive(r, c)
    PROVE  \E q : Moves(r, q) /\ q.charged = req[r].charged /\ q.pc \in {"sent", "ungated"}
<1>1. req[r] \in Req /\ Good(req[r]) /\ req[r].pc = "idle"
  BY ReqType DEF Arrive
<1>2. req[r].charged = {} /\ req[r].key = None /\ req[r].endpoint = "tool"
  BY <1>1 DEF Good
<1>3. ASSUME NEW user \in Users \cup {None}, NEW key \in Keys, user = None <=> key[1] # "user",
             key[1] # "ip", Identified(r, user, key)
      PROVE  \E q : Moves(r, q) /\ q.charged = req[r].charged /\ q.pc = "sent"
  <2> DEFINE q == [req[r] EXCEPT !.pc = "sent", !.user = user, !.key = key, !.at = clock]
  <2>1. q \in Req
    BY <1>1 DEF Req, TypeOK
  <2>2. /\ q.pc = "sent" /\ q.user = user /\ q.key = key /\ q.charged = {} /\ q.endpoint = "tool"
    BY <1>1, <1>2 DEF Req
  <2>3. req' = [req EXCEPT ![r] = q]
    BY <1>3 DEF Identified
  <2> HIDE DEF q
  <2>4. Waiting(q)
    BY <1>3, <2>2 DEF Waiting
  <2>5. Good(q)
    BY <2>2, <2>4 DEF Good, GoodCharges
  <2> QED
    BY <1>2, <2>1, <2>2, <2>3, <2>5 DEF Moves
<1>4. CASE IdentifyHttp(r, c)
  <2>1. PICK user \in {UserOf[c], None} :
          Identified(r, user, IF user = None THEN <<"session", "unknown">> ELSE <<"user", user>>)
    BY <1>4 DEF IdentifyHttp
  <2> DEFINE key == IF user = None THEN <<"session", "unknown">> ELSE <<"user", user>>
  <2>2. user \in Users \cup {None} /\ key \in Keys /\ (user = None <=> key[1] # "user") /\ key[1] # "ip"
    BY DEF Users, Keys
  <2> QED
    BY <1>3, <2>1, <2>2
<1>5. CASE IdentifyWs(r, c)
  <2> DEFINE user == UserOf[c]
             key == IF user = None THEN <<"session", c>> ELSE <<"user", user>>
  <2>1. user \in Users \cup {None} /\ key \in Keys /\ (user = None <=> key[1] # "user") /\ key[1] # "ip"
    BY DEF Users, Keys
  <2>2. Identified(r, user, key)
    BY <1>5 DEF IdentifyWs
  <2> HIDE DEF user, key
  <2> QED
    BY <1>3, <2>1, <2>2
<1>6. CASE Unreadable(r)
  <2> DEFINE q == [req[r] EXCEPT !.pc = "ungated"]
  <2>1. q \in Req /\ q.pc = "ungated" /\ q.charged = req[r].charged
    BY <1>1 DEF Req
  <2>2. req' = [req EXCEPT ![r] = q]
    BY <1>6 DEF Unreadable
  <2> HIDE DEF q
  <2>3. Good(q)
    BY <1>2, <2>1 DEF Good, GoodCharges
  <2> QED
    BY <2>1, <2>2, <2>3 DEF Moves
<1> QED
  BY <1>3, <1>4, <1>5, <1>6 DEF Arrive

LEMMA AddressMoves ==
    ASSUME TypeOK, AllGood, NEW r \in Requests, CheckAddress(r)
    PROVE  \E q : Moves(r, q) /\ q.charged = req[r].charged /\ q.pc = "sent"
<1>1. req[r] \in Req /\ Good(req[r]) /\ req[r].pc = "address"
  BY ReqType DEF CheckAddress
<1> DEFINE q == [req[r] EXCEPT !.pc = "sent", !.key = <<"ip", "address">>, !.at = clock]
<1>2. q \in Req
  BY <1>1, KeyKinds DEF Req, TypeOK
<1>3. /\ q.pc = "sent" /\ q.user = req[r].user /\ q.key = <<"ip", "address">> /\ q.key[1] = "ip"
      /\ q.charged = req[r].charged /\ q.endpoint = req[r].endpoint
  BY <1>1 DEF Req
<1>4. req' = [req EXCEPT ![r] = q]
  BY DEF CheckAddress
<1> HIDE DEF q
<1>5. Waiting(q)
  BY <1>1, <1>3, KeyKinds DEF Good, Waiting, HasSession
<1>6. Good(q)
  BY <1>1, <1>3, <1>5 DEF Good, GoodCharges
<1> QED
  BY <1>2, <1>3, <1>4, <1>6 DEF Moves

RedisOne(r) == [key |-> req[r].key, at |-> req[r].at, store |-> "redis", life |-> life,
                late |-> req[r].at < newest[req[r].key]]

MemoryOne(r) == [key |-> req[r].key, at |-> clock, store |-> "memory", life |-> life, late |-> FALSE]

AuthOne == [key |-> AuthKey, at |-> clock, store |-> "memory", life |-> life, late |-> FALSE]

\* The script runs for r, whatever becomes of its answer.
ScriptRuns(r, q) ==
    /\ Moves(r, q) /\ req[r].pc = "sent"
    /\ req[r].key \in Keys /\ req[r].at \in Time
    /\ Script(r, req[r].key, req[r].at)
    /\ q.key = req[r].key /\ q.at = req[r].at /\ q.endpoint = "tool"
    /\ q.charged = req[r].charged \cup RedisCharge(r)
    /\ q.pc = "refused" => ~ScriptAllows(req[r].key, req[r].at)
    /\ UNCHANGED <<clock, life, memory, auth>>

LEMMA ScriptMoves ==
    ASSUME TypeOK, AllGood, NEW r \in Requests, Evaluate(r) \/ LoseReply(r)
    PROVE  /\ faults' \in faults..MaxFaults
           /\ \E q : ScriptRuns(r, q)
<1>1. req[r] \in Req /\ Good(req[r]) /\ req[r].pc = "sent" /\ req[r].key \in Keys
  BY ReqType DEF Evaluate, LoseReply
<1>2. req[r].at \in Time /\ req[r].endpoint = "tool" /\ Waiting(req[r])
  BY <1>1 DEF Req, Good, Waiting
<1> DEFINE k == req[r].key
           N == RedisCharge(r)
           c0 == RedisOne(r)
<1>3. c0 \in Charge
  BY <1>1, <1>2 DEF RedisOne, Charge, TypeOK
<1>4. N = (IF ScriptAllows(k, req[r].at) THEN {c0} ELSE {})
  BY DEF RedisCharge, RedisOne
<1>5. c0.key = k /\ c0.store = "redis"
  BY DEF RedisOne
<1>6. k[1] \in {"session", "user", "ip"}
  BY <1>1, KeyKinds
<1> HIDE DEF N, c0
<1>7. CASE Evaluate(r)
  <2> DEFINE label == IF N = {} THEN "refused" ELSE IF k[1] = "session" THEN "address" ELSE "passed"
             q == [req[r] EXCEPT !.pc = label, !.charged = @ \cup N]
  <2>1. After(r, ScriptAllows(k, req[r].at)) = label
    BY <1>4 DEF After
  <2>2. req' = [req EXCEPT ![r].pc = label, ![r].charged = @ \cup N]
    BY <1>7, <2>1 DEF Evaluate, N
  <2>a. label \in {"refused", "address", "passed"} /\ (label = "refused" => N = {})
    OBVIOUS
  <2>b. Script(r, k, req[r].at) /\ UNCHANGED <<clock, life, faults, memory, auth>>
    BY <1>7 DEF Evaluate
  <2>lab. label = (IF N = {} THEN "refused" ELSE IF k[1] = "session" THEN "address" ELSE "passed")
    OBVIOUS
  <2> HIDE DEF label
  <2>3. req' = [req EXCEPT ![r] = q]
    BY <1>1, <2>2 DEF TypeOK, Req
  <2>4. q \in Req
    BY <1>1, <1>3, <1>4, <2>a DEF Req
  <2>5. /\ q.pc = label /\ q.user = req[r].user /\ q.key = k /\ q.at = req[r].at
        /\ q.endpoint = req[r].endpoint /\ q.charged = req[r].charged \cup N
    BY <1>1 DEF Req
  <2> HIDE DEF q
  <2>6. Good(q)
    BY <1>1, <1>4, <1>5, <2>5, <2>lab, CheckedGood
  <2>7. Moves(r, q)
    BY <2>3, <2>4, <2>6 DEF Moves
  <2>8. q.pc = "refused" => ~ScriptAllows(k, req[r].at)
    BY <1>4, <2>5, <2>a
  <2>9. ScriptRuns(r, q)
    BY <1>1, <1>2, <2>5, <2>7, <2>8, <2>b DEF ScriptRuns, N
  <2> QED
    BY <2>9, <2>b DEF TypeOK
<1>8. CASE LoseReply(r)
  <2> DEFINE q == [req[r] EXCEPT !.pc = "raised", !.charged = @ \cup N]
  <2>2. req' = [req EXCEPT ![r].pc = "raised", ![r].charged = @ \cup N]
    BY <1>8 DEF LoseReply, N
  <2>b. Script(r, k, req[r].at) /\ UNCHANGED <<clock, life, memory, auth>> /\ faults' = faults + 1 /\ faults < MaxFaults
    BY <1>8 DEF LoseReply
  <2>3. req' = [req EXCEPT ![r] = q]
    BY <1>1, <2>2 DEF TypeOK, Req
  <2>4. q \in Req
    BY <1>1, <1>3, <1>4 DEF Req
  <2>5. /\ q.pc = "raised" /\ q.user = req[r].user /\ q.key = k /\ q.at = req[r].at
        /\ q.endpoint = req[r].endpoint /\ q.charged = req[r].charged \cup N
    BY <1>1 DEF Req
  <2> HIDE DEF q
  <2>6. Good(q)
    BY <1>1, <1>4, <1>5, <2>5, RaisedGood
  <2>7. Moves(r, q)
    BY <2>3, <2>4, <2>6 DEF Moves
  <2>8. ScriptRuns(r, q)
    BY <1>1, <1>2, <2>5, <2>7, <2>b DEF ScriptRuns, N
  <2>9. faults' \in faults..MaxFaults
    BY <2>b, RateAssumption DEF TypeOK
  <2> QED
    BY <2>8, <2>9
<1> QED
  BY <1>7, <1>8

\* The fallback answers for r.
FallsBack(r, q) ==
    /\ Moves(r, q) /\ req[r].pc \in {"sent", "raised"}
    /\ req[r].key \in Keys
    /\ memory' = [memory EXCEPT ![req[r].key] = InMemory(req[r].key) \union Recorded(r, req[r].key)]
    /\ q.key = req[r].key /\ q.at = clock /\ q.endpoint = "tool"
    /\ q.charged = req[r].charged \cup (IF MemoryAllows(req[r].key) THEN {MemoryOne(r)} ELSE {})
    /\ q.pc = "refused" => ~MemoryAllows(req[r].key)
    /\ UNCHANGED <<clock, life, zset, auth, newest>>

LEMMA FallbackMoves ==
    ASSUME TypeOK, AllGood, NEW r \in Requests, Fallback(r)
    PROVE  /\ faults' \in faults..MaxFaults
           /\ \E q : FallsBack(r, q)
<1>1. req[r] \in Req /\ Good(req[r]) /\ req[r].pc \in {"sent", "raised"} /\ req[r].key \in Keys
  BY ReqType DEF Fallback
<1>2. req[r].endpoint = "tool"
  BY <1>1 DEF Good, Waiting
<1> DEFINE k == req[r].key
           N == IF MemoryAllows(k) THEN {MemoryOne(r)} ELSE {}
           c0 == MemoryOne(r)
<1>3. c0 \in Charge
  BY <1>1 DEF MemoryOne, Charge, TypeOK
<1>4. N = (IF MemoryAllows(k) THEN {c0} ELSE {})
  OBVIOUS
<1>5. c0.key = k /\ c0.store = "memory"
  BY DEF MemoryOne
<1>n. {[key |-> k, at |-> clock, store |-> "memory", life |-> life, late |-> FALSE] : e \in Recorded(r, k)} = N
  BY DEF Recorded, MemoryOne
<1>6. faults' \in faults..MaxFaults
  BY RateAssumption DEF Fallback, TypeOK
<1> HIDE DEF N, c0
<1> DEFINE label == IF N = {} THEN "refused" ELSE IF k[1] = "session" THEN "address" ELSE "passed"
           q == [req[r] EXCEPT !.pc = label, !.at = clock, !.charged = @ \cup N]
<1>7. After(r, MemoryAllows(k)) = label
  BY <1>4 DEF After
<1>8. req' = [req EXCEPT ![r].pc = label, ![r].at = clock, ![r].charged = @ \cup N]
  BY <1>7, <1>n DEF Fallback
<1>a. label \in {"refused", "address", "passed"} /\ (label = "refused" => N = {})
  OBVIOUS
<1>b. /\ memory' = [memory EXCEPT ![k] = InMemory(k) \union Recorded(r, k)]
      /\ UNCHANGED <<clock, life, zset, auth, newest>>
  BY DEF Fallback
<1>lab. label = (IF N = {} THEN "refused" ELSE IF k[1] = "session" THEN "address" ELSE "passed")
  OBVIOUS
<1> HIDE DEF label
<1>9. req' = [req EXCEPT ![r] = q]
  BY <1>1, <1>8 DEF TypeOK, Req
<1>10. q \in Req
  BY <1>1, <1>3, <1>4, <1>a DEF Req, TypeOK
<1>11. /\ q.pc = label /\ q.user = req[r].user /\ q.key = k /\ q.at = clock
       /\ q.endpoint = req[r].endpoint /\ q.charged = req[r].charged \cup N
  BY <1>1 DEF Req
<1> HIDE DEF q
<1>12. Good(q)
  BY <1>1, <1>4, <1>5, <1>11, <1>lab, CheckedGood
<1>13. Moves(r, q)
  BY <1>9, <1>10, <1>12 DEF Moves
<1>14. q.pc = "refused" => ~MemoryAllows(k)
  BY <1>4, <1>11, <1>a
<1>15. FallsBack(r, q)
  BY <1>1, <1>2, <1>11, <1>13, <1>14, <1>b DEF FallsBack, N
<1> QED
  BY <1>6, <1>15

\* A login or a registration: counted against its address, or turned away.
EntersAuth(r, name, q) ==
    /\ Moves(r, q) /\ req[r].charged = {}
    /\ q.endpoint = name /\ q.key = None
    /\ \/ /\ Cardinality(PrunedAuth(name)) < AuthLimit[name].max
          /\ auth' = PrunedAuth(name) \union {[id |-> r, at |-> clock]}
          /\ q.pc = "passed" /\ q.charged = {AuthOne}
       \/ /\ auth' = PrunedAuth(name)
          /\ q.pc = "refused" /\ q.charged = {}
    /\ UNCHANGED <<clock, life, faults, zset, memory, newest>>

LEMMA AuthMoves ==
    ASSUME TypeOK, AllGood, NEW r \in Requests, NEW name \in AuthEndpoints, EnforceAuthLimit(r, name)
    PROVE  \E q : EntersAuth(r, name, q)
<1>1. req[r] \in Req /\ Good(req[r]) /\ req[r].pc = "idle"
  BY ReqType DEF EnforceAuthLimit
<1>2. req[r].charged = {} /\ req[r].key = None
  BY <1>1 DEF Good
<1>3. UNCHANGED <<clock, life, faults, zset, memory, newest>>
  BY DEF EnforceAuthLimit
<1>4. CASE Cardinality(PrunedAuth(name)) < AuthLimit[name].max
  <2> DEFINE q == [req[r] EXCEPT !.pc = "passed", !.endpoint = name, !.charged = {AuthOne}]
  <2>1. /\ auth' = PrunedAuth(name) \union {[id |-> r, at |-> clock]}
        /\ req' = [req EXCEPT ![r] = q]
    BY <1>4 DEF EnforceAuthLimit, AuthOne, AuthKey
  <2>2. AuthOne \in Charge /\ AuthOne.key = AuthKey /\ AuthOne.store = "memory"
    BY DEF AuthOne, AuthKey, Charge, TypeOK
  <2>3. q \in Req
    BY <1>1, <2>2 DEF Req
  <2>4. q.pc = "passed" /\ q.endpoint = name /\ q.key = None /\ q.charged = {AuthOne}
    BY <1>1, <1>2 DEF Req
  <2> HIDE DEF q
  <2>5. Good(q)
    BY <2>2, <2>4, RateAssumption DEF Good, GoodCharges
  <2>6. EntersAuth(r, name, q)
    BY <1>2, <1>3, <1>4, <2>1, <2>3, <2>4, <2>5 DEF EntersAuth, Moves
  <2> QED
    BY <2>6
<1>5. CASE ~(Cardinality(PrunedAuth(name)) < AuthLimit[name].max)
  <2> DEFINE q == [req[r] EXCEPT !.pc = "refused", !.endpoint = name]
  <2>1. auth' = PrunedAuth(name) /\ req' = [req EXCEPT ![r] = q]
    BY <1>5 DEF EnforceAuthLimit
  <2>3. q \in Req
    BY <1>1 DEF Req
  <2>4. q.pc = "refused" /\ q.endpoint = name /\ q.key = None /\ q.charged = {}
    BY <1>1, <1>2 DEF Req
  <2> HIDE DEF q
  <2>5. Good(q)
    BY <2>4 DEF Good, GoodCharges
  <2>6. EntersAuth(r, name, q)
    BY <1>2, <1>3, <2>1, <2>3, <2>4, <2>5 DEF EntersAuth, Moves
  <2> QED
    BY <2>6
<1> QED
  BY <1>4, <1>5

\* A restart forgets the requests, not what they were charged.
LEMMA RestartForgets ==
    ASSUME TypeOK, AllGood, Restart
    PROVE  /\ req' \in [Requests -> Req] /\ AllGood'
           /\ \A r \in Requests : req'[r].charged = req[r].charged /\
                (req'[r] = req[r] \/ req'[r].pc = "lost")
<1>1. ASSUME NEW r \in Requests
      PROVE  /\ req'[r] \in Req /\ Good(req'[r]) /\ req'[r].charged = req[r].charged
             /\ req'[r] = req[r] \/ req'[r].pc = "lost"
  <2>1. req[r] \in Req /\ Good(req[r])
    BY ReqType
  <2> DEFINE q == [req[r] EXCEPT !.pc = "lost"]
  <2>2. q \in Req /\ q.pc = "lost" /\ q.charged = req[r].charged
    BY <2>1 DEF Req
  <2>3. req'[r] = q \/ req'[r] = req[r]
    BY DEF Restart
  <2> HIDE DEF q
  <2>4. Good(q)
    BY <2>1, <2>2 DEF Good, GoodCharges
  <2> QED
    BY <2>1, <2>2, <2>3, <2>4
<1>2. req' \in [Requests -> Req]
  BY <1>1 DEF Restart
<1> QED
  BY <1>1, <1>2 DEF AllGood

LEMMA CoreInductive ==
    /\ Init => TypeOK /\ AllGood /\ Lives
    /\ TypeOK /\ AllGood /\ Lives /\ [Next]_vars => TypeOK' /\ AllGood' /\ Lives'
<1>lives. ASSUME Lives, life' = life, faults' \in faults..MaxFaults PROVE Lives'
  <2>1. life \in 1..MaxFaults + 1 /\ faults \in 0..MaxFaults /\ life <= faults + 1 /\ MaxFaults \in Nat
    BY <1>lives, RateAssumption DEF Lives
  <2> DEFINE f == faults'
  <2>2. life \in Int /\ faults \in Int /\ life' = life /\ f \in faults..MaxFaults
    BY <1>lives, <2>1
  <2> HIDE DEF f
  <2>a. f \in Int /\ faults <= f /\ f <= MaxFaults
    BY <2>1, <2>2
  <2>3. life' <= f + 1 /\ f \in 0..MaxFaults
    BY <2>1, <2>2, <2>a
  <2>4. life' \in 1..MaxFaults + 1
    BY <1>lives, <2>1
  <2> QED
    BY <2>3, <2>4 DEF Lives, f
<1>typed. ASSUME clock' \in Time, Lives', zset' \in [Keys -> SUBSET Entry],
                 memory' \in [Keys -> SUBSET Entry], auth' \in SUBSET Entry,
                 newest' \in [Keys -> Time], req' \in [Requests -> Req]
          PROVE  TypeOK'
  BY <1>typed DEF TypeOK, Lives, Req
<1>same. ASSUME Lives PROVE faults \in faults..MaxFaults
  BY <1>same, RateAssumption DEF Lives
<1>types. ASSUME TypeOK
          PROVE  /\ clock \in Time /\ zset \in [Keys -> SUBSET Entry]
                 /\ memory \in [Keys -> SUBSET Entry] /\ auth \in SUBSET Entry
                 /\ newest \in [Keys -> Time] /\ req \in [Requests -> Req]
  BY <1>types DEF TypeOK, Req
<1>1. ASSUME Init PROVE TypeOK /\ AllGood /\ Lives
  <2>1. 0 \in Time /\ 1 \in 1..MaxFaults + 1 /\ 0 \in 0..MaxFaults
    BY RateAssumption DEF Time
  <2>2. Idle \in Req /\ Good(Idle)
    BY <2>1 DEF Idle, Req, Good, GoodCharges
  <2> QED
    BY <1>1, <2>1, <2>2, RateAssumption DEF Init, AllGood, Req, TypeOK, Lives
<1>2. ASSUME TypeOK, AllGood, Lives, [Next]_vars PROVE TypeOK' /\ AllGood' /\ Lives'
  <2>1. ASSUME NEW r \in Requests, \/ \E c \in Callers : Arrive(r, c)
                                   \/ CheckAddress(r)
        PROVE  TypeOK' /\ AllGood' /\ Lives'
    <3>1. req' \in [Requests -> Req] /\ AllGood'
      BY <1>2, <2>1, ArriveMoves, AddressMoves, MovesKeep
    <3>2. UNCHANGED <<clock, life, faults, zset, memory, auth, newest>>
      BY <2>1 DEF Arrive, CheckAddress
    <3> QED
      BY <1>2, <1>lives, <1>same, <1>typed, <1>types, <3>1, <3>2
  <2>3. ASSUME NEW r \in Requests, Evaluate(r) \/ LoseReply(r) PROVE TypeOK' /\ AllGood' /\ Lives'
    <3>1. PICK q : ScriptRuns(r, q)
      BY <1>2, <2>3, ScriptMoves
    <3>2. req' \in [Requests -> Req] /\ AllGood'
      BY <1>2, <3>1, MovesKeep DEF ScriptRuns
    <3> DEFINE k == req[r].key
               a == req[r].at
    <3>3. k \in Keys /\ a \in Time /\ Script(r, k, a) /\ UNCHANGED <<clock, life, memory, auth>>
      BY <3>1 DEF ScriptRuns
    <3> HIDE DEF k, a
    <3>4. zset' \in [Keys -> SUBSET Entry]
      BY <1>2, <1>types, <3>3 DEF Script, Kept, Entry
    <3>5. newest' \in [Keys -> Time]
      BY <1>2, <1>types, <3>3 DEF Script
    <3>6. faults' \in faults..MaxFaults
      BY <1>2, <2>3, ScriptMoves
    <3> QED
      BY <1>2, <1>lives, <1>same, <1>typed, <1>types, <3>2, <3>3, <3>4, <3>5, <3>6
  <2>4. ASSUME NEW r \in Requests, Fallback(r) PROVE TypeOK' /\ AllGood' /\ Lives'
    <3>1. PICK q : FallsBack(r, q)
      BY <1>2, <2>4, FallbackMoves
    <3>2. req' \in [Requests -> Req] /\ AllGood'
      BY <1>2, <3>1, MovesKeep DEF FallsBack
    <3>3. memory' \in [Keys -> SUBSET Entry]
      BY <1>2, <1>types, <3>1 DEF FallsBack, InMemory, Recorded, Entry
    <3>4. faults' \in faults..MaxFaults
      BY <1>2, <2>4, FallbackMoves
    <3>5. UNCHANGED <<clock, life, zset, auth, newest>>
      BY <3>1 DEF FallsBack
    <3> QED
      BY <1>2, <1>lives, <1>same, <1>typed, <1>types, <3>2, <3>3, <3>4, <3>5
  <2>5. ASSUME NEW r \in Requests, NEW name \in AuthEndpoints, EnforceAuthLimit(r, name)
        PROVE  TypeOK' /\ AllGood' /\ Lives'
    <3>1. PICK q : EntersAuth(r, name, q)
      BY <1>2, <2>5, AuthMoves
    <3>2. req' \in [Requests -> Req] /\ AllGood'
      BY <1>2, <3>1, MovesKeep DEF EntersAuth
    <3>3. auth' \in SUBSET Entry
      BY <1>2, <1>types, <3>1 DEF EntersAuth, PrunedAuth, Entry
    <3>4. UNCHANGED <<clock, life, faults, zset, memory, newest>>
      BY <3>1 DEF EntersAuth
    <3> QED
      BY <1>2, <1>lives, <1>same, <1>typed, <1>types, <3>2, <3>3, <3>4
  <2>6. ASSUME Tick PROVE TypeOK' /\ AllGood' /\ Lives'
    <3>1. clock' \in Time
      BY <1>2, <1>types, <2>6, RateAssumption DEF Tick, Time
    <3>2. UNCHANGED <<life, faults, zset, memory, auth, newest, req>>
      BY <2>6 DEF Tick
    <3>3. AllGood'
      BY <1>2, <3>2 DEF AllGood
    <3> QED
      BY <1>2, <1>lives, <1>same, <1>typed, <1>types, <3>1, <3>2, <3>3
  <2>7. ASSUME Restart PROVE TypeOK' /\ AllGood' /\ Lives'
    <3>1. req' \in [Requests -> Req] /\ AllGood'
      BY <1>2, <2>7, RestartForgets
    <3>2. Lives'
      BY <1>2, <2>7, RateAssumption DEF Restart, Lives
    <3>3. memory' \in [Keys -> SUBSET Entry] /\ auth' \in SUBSET Entry /\ UNCHANGED <<clock, zset, newest>>
      BY <2>7 DEF Restart
    <3> QED
      BY <1>2, <1>typed, <1>types, <3>1, <3>2, <3>3
  <2>8. ASSUME UNCHANGED vars PROVE TypeOK' /\ AllGood' /\ Lives'
    <3>1. UNCHANGED <<clock, life, faults, zset, memory, auth, newest, req>>
      BY <2>8 DEF vars
    <3>2. AllGood'
      BY <1>2, <3>1 DEF AllGood
    <3> QED
      BY <1>2, <1>lives, <1>same, <1>typed, <1>types, <3>1, <3>2
  <2> QED
    BY <1>2, <2>1, <2>3, <2>4, <2>5, <2>6, <2>7, <2>8 DEF Next
<1> QED
  BY <1>1, <1>2

-----------------------------------------------------------------------------
(* The stores keep the books *)

\* Every time is a number.
LEMMA Times ==
    ASSUME TypeOK
    PROVE  /\ clock \in Nat /\ life \in Nat
           /\ \A k \in Keys : newest[k] \in Nat
           /\ \A r \in Requests : \A c \in req[r].charged : c.at \in Nat /\ c.life \in Nat
           /\ \A r \in Requests : req[r].at \in Nat
           /\ \A k \in Keys : \A e \in zset[k] \cup memory[k] : e.at \in Nat /\ e.id \in Requests
           /\ \A e \in auth : e.at \in Nat /\ e.id \in Requests
           /\ SoftWindow \in Nat /\ HardWindow \in Nat /\ ShortestWindow \in Nat
<1>1. Time \subseteq Nat
  BY DEF Time
<1>2. \A r \in Requests : req[r].charged \subseteq Charge /\ req[r].at \in Time
  BY DEF TypeOK
<1>3. \A c \in Charge : c.at \in Time /\ c.life \in Nat
  BY DEF Charge
<1>4. \A r \in Requests : \A c \in req[r].charged : c.at \in Nat /\ c.life \in Nat
  BY <1>1, <1>2, <1>3
<1>5. \A e \in Entry : e.at \in Nat /\ e.id \in Requests
  BY <1>1 DEF Entry
<1>6. clock \in Nat /\ life \in Nat /\ (\A k \in Keys : newest[k] \in Nat)
  <2>1. clock \in Time /\ life \in 1..MaxFaults + 1 /\ newest \in [Keys -> Time]
    BY DEF TypeOK
  <2>2. \A n \in 1..MaxFaults + 1 : n \in Nat
    OBVIOUS
  <2>3. clock \in Nat /\ \A k \in Keys : newest[k] \in Nat
    BY <1>1, <2>1
  <2> QED
    BY <2>1, <2>2, <2>3
<1>7. auth \subseteq Entry /\ \A k \in Keys : zset[k] \subseteq Entry /\ memory[k] \subseteq Entry
  BY DEF TypeOK
<1>8. SoftWindow \in Nat /\ HardWindow \in Nat /\ ShortestWindow \in Nat
  BY RateAssumption, ShortestIs
<1>9. \A k \in Keys : \A e \in zset[k] \cup memory[k] : e.at \in Nat /\ e.id \in Requests
  BY <1>5, <1>7
<1>10. \A e \in auth : e.at \in Nat /\ e.id \in Requests
  BY <1>5, <1>7
<1>11. \A r \in Requests : req[r].at \in Nat
  BY <1>1, <1>2
<1> QED
  BY <1>4, <1>6, <1>8, <1>9, <1>10, <1>11

\* No request is charged, and no store loses what its windows still reach.
LEMMA QuietBooks ==
    ASSUME TypeOK, AllGood, Books,
           \A r \in Requests : req'[r].charged = req[r].charged,
           UNCHANGED <<life, zset, memory, auth, newest>>,
           clock' \in Nat, clock <= clock'
    PROVE  Books'
<1> USE Times
<1>1. InRedis'
  BY DEF Books, InRedis
<1>2. InProcess'
  <2> SUFFICES ASSUME NEW r \in Requests, NEW c \in req[r].charged, c.store = "memory"
               PROVE  /\ c.at <= clock' /\ c.life <= life
                      /\ c.life = life /\ c.key \in Keys /\ c.at > clock' - HardWindow =>
                           [id |-> r, at |-> c.at] \in memory[c.key]
                      /\ c.life = life /\ c.key = AuthKey /\ c.at > clock' - ShortestWindow =>
                           [id |-> r, at |-> c.at] \in auth
    BY DEF InProcess
  <2>1. /\ c.at <= clock /\ c.life <= life
        /\ c.life = life /\ c.key \in Keys /\ c.at > clock - HardWindow =>
             [id |-> r, at |-> c.at] \in memory[c.key]
        /\ c.life = life /\ c.key = AuthKey /\ c.at > clock - ShortestWindow =>
             [id |-> r, at |-> c.at] \in auth
    BY DEF Books, InProcess
  <2>2. c.at > clock' - HardWindow => c.at > clock - HardWindow
    OBVIOUS
  <2>3. c.at > clock' - ShortestWindow => c.at > clock - ShortestWindow
    OBVIOUS
  <2> QED
    BY <2>1, <2>2, <2>3
<1>3. FromCharges'
  BY DEF Books, FromCharges
<1> QED
  BY <1>1, <1>2, <1>3 DEF Books

\* The script prunes what is out of its window, and records what it allows.
LEMMA ScriptBooks ==
    ASSUME TypeOK, AllGood, Books, NEW r \in Requests, NEW q, ScriptRuns(r, q)
    PROVE  Books'
<1> DEFINE k == req[r].key
           a == req[r].at
           N == RedisCharge(r)
           one == [id |-> r, at |-> a]
<1>1. /\ k \in Keys /\ a \in Nat /\ newest[k] \in Nat /\ HardWindow \in Nat
      /\ UNCHANGED <<clock, life, memory, auth>>
  BY Times DEF ScriptRuns
<1>2. /\ req'[r].charged = req[r].charged \cup N
      /\ \A s \in Requests \ {r} : req'[s] = req[s]
      /\ AllGood'
  BY MovesKeep DEF ScriptRuns
<1>3. /\ \A c \in N : c = RedisOne(r) /\ one \in zset'[k]
      /\ \A e \in zset[k] : e.at > a - HardWindow => e \in zset'[k]
      /\ \A e \in zset'[k] : e \in zset[k] \/ (e = one /\ RedisOne(r) \in N)
      /\ \A m \in Keys \ {k} : zset'[m] = zset[m] /\ newest'[m] = newest[m]
      /\ newest'[k] = IF a > newest[k] THEN a ELSE newest[k]
  <2>1. /\ zset' = [zset EXCEPT ![k] = Kept(k, a) \cup (IF ScriptAllows(k, a) THEN {one} ELSE {})]
        /\ newest' = [newest EXCEPT ![k] = IF a > newest[k] THEN a ELSE newest[k]]
    BY DEF ScriptRuns, Script
  <2>2. N = IF ScriptAllows(k, a) THEN {RedisOne(r)} ELSE {}
    BY DEF RedisCharge, RedisOne
  <2>3. DOMAIN zset = Keys /\ DOMAIN newest = Keys
    BY DEF TypeOK
  <2> HIDE DEF N, one, a, k
  <2> QED
    BY <1>1, <2>1, <2>2, <2>3 DEF Kept
<1>4. RedisOne(r).key = k /\ RedisOne(r).at = a /\ RedisOne(r).store = "redis"
  BY DEF RedisOne
<1> HIDE DEF N, a, k
<1>5. InRedis'
  <2> SUFFICES ASSUME NEW s \in Requests, NEW c \in req'[s].charged, c.store = "redis"
               PROVE  /\ c.at <= newest'[c.key]
                      /\ c.at > newest'[c.key] - HardWindow => [id |-> s, at |-> c.at] \in zset'[c.key]
    BY DEF InRedis
  <2>1. CASE c \in req[s].charged
    <3>1. /\ c.at <= newest[c.key] /\ c.at \in Nat
          /\ c.at > newest[c.key] - HardWindow => [id |-> s, at |-> c.at] \in zset[c.key]
      BY <2>1, Times DEF Books, InRedis
    <3>2. c.key \in Keys
      BY <2>1 DEF AllGood, Good, GoodCharges
    <3>3. CASE c.key = k
      <4>1. c.at <= newest'[k] /\ (c.at > newest'[k] - HardWindow => c.at > newest[k] - HardWindow /\ c.at > a - HardWindow)
        BY <1>1, <1>3, <3>1, <3>3
      <4> QED
        BY <1>3, <3>1, <3>3, <4>1
    <3>4. CASE c.key # k
      BY <1>3, <3>1, <3>2, <3>4
    <3> QED
      BY <3>3, <3>4
  <2>2. CASE c \notin req[s].charged
    <3>1. s = r /\ c \in N
      BY <1>2, <2>2
    <3>2. a <= newest'[k]
      BY <1>1, <1>3
    <3> QED
      BY <1>3, <1>4, <3>1, <3>2
  <2> QED
    BY <2>1, <2>2
<1>6. InProcess'
  <2>1. \A s \in Requests : \A c \in req'[s].charged : c.store = "memory" => c \in req[s].charged
    BY <1>2, <1>3, <1>4
  <2> QED
    BY <1>1, <2>1 DEF Books, InProcess
<1>7. FromCharges'
  <2>1. \A s \in Requests : req[s].charged \subseteq req'[s].charged
    BY <1>2
  <2>2. ASSUME NEW m \in Keys, NEW e \in zset'[m]
        PROVE  \E c \in req'[e.id].charged : c.key = m /\ c.store = "redis" /\ c.at = e.at
    <3>1. CASE e \in zset[m]
      BY <2>1, <3>1, Times DEF Books, FromCharges
    <3>2. CASE e \notin zset[m]
      <4>1. m = k /\ e.id = r /\ e.at = a /\ RedisOne(r) \in req'[r].charged
        BY <1>2, <1>3, <2>2, <3>2
      <4> QED
        BY <1>4, <4>1
    <3> QED
      BY <3>1, <3>2
  <2>3. ASSUME NEW m \in Keys, NEW e \in memory'[m]
        PROVE  \E c \in req'[e.id].charged : c.key = m /\ c.store = "memory" /\ c.at = e.at
    BY <1>1, <2>1, <2>3, Times DEF Books, FromCharges
  <2> QED
    BY <2>2, <2>3 DEF FromCharges
<1> QED
  BY <1>5, <1>6, <1>7 DEF Books

\* So does the fallback.
LEMMA FallbackBooks ==
    ASSUME TypeOK, AllGood, Books, NEW r \in Requests, NEW q, FallsBack(r, q)
    PROVE  Books'
<1> DEFINE k == req[r].key
           N == IF MemoryAllows(k) THEN {MemoryOne(r)} ELSE {}
           one == [id |-> r, at |-> clock]
<1>1. /\ k \in Keys /\ clock \in Nat /\ life \in Nat /\ HardWindow \in Nat
      /\ UNCHANGED <<clock, life, zset, auth, newest>>
  BY Times DEF FallsBack
<1>2. /\ req'[r].charged = req[r].charged \cup N
      /\ \A s \in Requests \ {r} : req'[s] = req[s]
  BY MovesKeep DEF FallsBack
<1>3. /\ \A c \in N : c = MemoryOne(r) /\ one \in memory'[k]
      /\ \A e \in memory[k] : e.at > clock - HardWindow => e \in memory'[k]
      /\ \A e \in memory'[k] : e \in memory[k] \/ (e = one /\ MemoryOne(r) \in N)
      /\ \A m \in Keys \ {k} : memory'[m] = memory[m]
  <2>1. memory' = [memory EXCEPT ![k] = InMemory(k) \cup Recorded(r, k)]
    BY DEF FallsBack
  <2>2. Recorded(r, k) = IF MemoryAllows(k) THEN {one} ELSE {}
    BY DEF Recorded
  <2>3. DOMAIN memory = Keys
    BY DEF TypeOK
  <2> HIDE DEF one, k
  <2> QED
    BY <1>1, <2>1, <2>2, <2>3 DEF InMemory
<1>4. /\ MemoryOne(r).key = k /\ MemoryOne(r).at = clock /\ MemoryOne(r).store = "memory"
      /\ MemoryOne(r).life = life /\ k # AuthKey
  BY <1>1, KeyKinds DEF MemoryOne
<1> HIDE DEF N, k
<1>5. InRedis'
  <2>1. \A s \in Requests : \A c \in req'[s].charged : c.store = "redis" => c \in req[s].charged
    BY <1>2, <1>3, <1>4
  <2> QED
    BY <1>1, <2>1 DEF Books, InRedis
<1>6. InProcess'
  <2> SUFFICES ASSUME NEW s \in Requests, NEW c \in req'[s].charged, c.store = "memory"
               PROVE  /\ c.at <= clock /\ c.life <= life
                      /\ c.life = life /\ c.key \in Keys /\ c.at > clock - HardWindow =>
                           [id |-> s, at |-> c.at] \in memory'[c.key]
                      /\ c.life = life /\ c.key = AuthKey /\ c.at > clock - ShortestWindow =>
                           [id |-> s, at |-> c.at] \in auth
    BY <1>1 DEF InProcess
  <2>1. CASE c \in req[s].charged
    <3>1. /\ c.at <= clock /\ c.life <= life
          /\ c.life = life /\ c.key \in Keys /\ c.at > clock - HardWindow =>
               [id |-> s, at |-> c.at] \in memory[c.key]
          /\ c.life = life /\ c.key = AuthKey /\ c.at > clock - ShortestWindow =>
               [id |-> s, at |-> c.at] \in auth
      BY <2>1 DEF Books, InProcess
    <3>2. CASE c.key = k
      BY <1>3, <3>1, <3>2
    <3>3. CASE c.key # k
      BY <1>3, <3>1, <3>3
    <3> QED
      BY <3>2, <3>3
  <2>2. CASE c \notin req[s].charged
    <3>1. s = r /\ c \in N
      BY <1>2, <2>2
    <3>2. c.at = clock /\ c.life = life /\ c.key = k /\ k # AuthKey /\ one \in memory'[k]
      BY <1>3, <1>4, <3>1
    <3> QED
      BY <1>1, <3>1, <3>2
  <2> QED
    BY <2>1, <2>2
<1>7. FromCharges'
  <2>1. \A s \in Requests : req[s].charged \subseteq req'[s].charged
    BY <1>2
  <2>2. ASSUME NEW m \in Keys, NEW e \in memory'[m]
        PROVE  \E c \in req'[e.id].charged : c.key = m /\ c.store = "memory" /\ c.at = e.at
    <3>1. CASE e \in memory[m]
      BY <2>1, <3>1, Times DEF Books, FromCharges
    <3>2. CASE e \notin memory[m]
      <4>1. m = k /\ e.id = r /\ e.at = clock /\ MemoryOne(r) \in req'[r].charged
        BY <1>2, <1>3, <2>2, <3>2
      <4> QED
        BY <1>4, <4>1
    <3> QED
      BY <3>1, <3>2
  <2>3. ASSUME NEW m \in Keys, NEW e \in zset'[m]
        PROVE  \E c \in req'[e.id].charged : c.key = m /\ c.store = "redis" /\ c.at = e.at
    BY <1>1, <2>1, <2>3, Times DEF Books, FromCharges
  <2> QED
    BY <2>2, <2>3 DEF FromCharges
<1> QED
  BY <1>5, <1>6, <1>7 DEF Books

\* A login prunes the list of its address, but nothing the shortest window reaches.
LEMMA AuthBooks ==
    ASSUME TypeOK, AllGood, Books, NEW r \in Requests, NEW name \in AuthEndpoints, NEW q,
           EntersAuth(r, name, q)
    PROVE  Books'
<1>1. /\ clock \in Nat /\ life \in Nat /\ ShortestWindow \in Nat /\ AuthLimit[name].window \in Nat
      /\ ShortestWindow <= AuthLimit[name].window
      /\ UNCHANGED <<clock, life, zset, memory, newest>>
  BY Times, ShortestIs, RateAssumption DEF EntersAuth
<1>2. /\ req[r].charged = {} /\ \A c \in req'[r].charged : c = AuthOne /\ [id |-> r, at |-> clock] \in auth'
      /\ \A s \in Requests \ {r} : req'[s] = req[s]
  BY MovesKeep DEF EntersAuth
<1>3. AuthOne.key = AuthKey /\ AuthOne.at = clock /\ AuthOne.store = "memory" /\ AuthOne.life = life
  BY DEF AuthOne
<1>4. \A e \in auth : e.at > clock - AuthLimit[name].window => e \in auth'
  BY DEF EntersAuth, PrunedAuth
<1>5. InRedis'
  <2>1. \A s \in Requests : \A c \in req'[s].charged : c.store = "redis" => c \in req[s].charged
    BY <1>2, <1>3
  <2> QED
    BY <1>1, <2>1 DEF Books, InRedis
<1>6. InProcess'
  <2> SUFFICES ASSUME NEW s \in Requests, NEW c \in req'[s].charged, c.store = "memory"
               PROVE  /\ c.at <= clock /\ c.life <= life
                      /\ c.life = life /\ c.key \in Keys /\ c.at > clock - HardWindow =>
                           [id |-> s, at |-> c.at] \in memory[c.key]
                      /\ c.life = life /\ c.key = AuthKey /\ c.at > clock - ShortestWindow =>
                           [id |-> s, at |-> c.at] \in auth'
    BY <1>1 DEF InProcess
  <2>1. CASE s # r
    <3>1. c \in req[s].charged
      BY <1>2, <2>1
    <3>2. /\ c.at <= clock /\ c.life <= life /\ c.at \in Nat
          /\ c.life = life /\ c.key \in Keys /\ c.at > clock - HardWindow =>
               [id |-> s, at |-> c.at] \in memory[c.key]
          /\ c.life = life /\ c.key = AuthKey /\ c.at > clock - ShortestWindow =>
               [id |-> s, at |-> c.at] \in auth
      BY <3>1, Times DEF Books, InProcess
    <3>3. c.at > clock - ShortestWindow => c.at > clock - AuthLimit[name].window
      BY <1>1, <3>2
    <3> QED
      BY <1>4, <3>2, <3>3
  <2>2. CASE s = r
    BY <1>1, <1>2, <1>3, <2>2, KeyKinds
  <2> QED
    BY <2>1, <2>2
<1>7. FromCharges'
  <2>1. \A s \in Requests : req[s].charged \subseteq req'[s].charged
    BY <1>2
  <2> QED
    BY <1>1, <2>1, Times DEF Books, FromCharges
<1> QED
  BY <1>5, <1>6, <1>7 DEF Books

\* What memory held is charged to a life that is over.
LEMMA RestartBooks ==
    ASSUME TypeOK, AllGood, Books, Restart
    PROVE  Books'
<1>1. /\ \A s \in Requests : req'[s].charged = req[s].charged
      /\ life' = life + 1 /\ UNCHANGED <<clock, zset, newest>>
      /\ \A m \in Keys : memory'[m] = {}
  BY RestartForgets DEF Restart
<1>2. InRedis'
  BY <1>1 DEF Books, InRedis
<1>3. InProcess'
  <2>1. ASSUME NEW s \in Requests, NEW c \in req[s].charged, c.store = "memory"
        PROVE  c.at <= clock /\ c.life <= life' /\ c.life # life'
    <3>1. c.at <= clock /\ c.life <= life
      BY <2>1 DEF Books, InProcess
    <3>2. c.life \in Nat /\ life \in Nat
      BY Times
    <3> QED
      BY <1>1, <3>1, <3>2
  <2> QED
    BY <1>1, <2>1 DEF InProcess
<1>4. FromCharges'
  BY <1>1, Times DEF Books, FromCharges
<1> QED
  BY <1>2, <1>3, <1>4 DEF Books

-----------------------------------------------------------------------------
(* Counting charges *)

\* The charges of the requests as f has them.
ChargesOf(f) == UNION {{[id |-> r, charge |-> c] : c \in f[r].charged} : r \in Requests}

\* What is added to them when r is charged N.
ChargedTo(r, N) == {[id |-> r, charge |-> c] : c \in N}

LEMMA Charged ==
    ASSUME NEW f, NEW g
    PROVE  g \in ChargesOf(f) <=>
             \E r \in Requests : \E c \in f[r].charged : g = [id |-> r, charge |-> c]
BY DEF ChargesOf

Charging(f, f2, r, N) ==
    f2[r].charged = f[r].charged \cup N /\ \A s \in Requests \ {r} : f2[s] = f[s]

\* One request moves: only its charges are added.
LEMMA ChargesAdded ==
    ASSUME NEW f, NEW f2, NEW r \in Requests, NEW N, Charging(f, f2, r, N)
    PROVE  ChargesOf(f2) = ChargesOf(f) \cup ChargedTo(r, N)
<1> DEFINE A == ChargedTo(r, N)
<1>0. f2[r].charged = f[r].charged \cup N /\ \A s \in Requests \ {r} : f2[s] = f[s]
  BY DEF Charging
<1>1. ASSUME NEW g \in ChargesOf(f2) PROVE g \in ChargesOf(f) \/ g \in A
  <2>1. PICK s \in Requests : \E c \in f2[s].charged : g = [id |-> s, charge |-> c]
    BY <1>1, Charged
  <2>2. PICK c \in f2[s].charged : g = [id |-> s, charge |-> c]
    BY <2>1
  <2>3. CASE c \in f[s].charged
    BY <2>2, <2>3, Charged
  <2>4. CASE c \notin f[s].charged
    BY <1>0, <2>2, <2>4 DEF ChargedTo
  <2> QED
    BY <2>3, <2>4
<1>2. ASSUME NEW g \in ChargesOf(f) PROVE g \in ChargesOf(f2)
  <2>1. PICK s \in Requests : \E c \in f[s].charged : g = [id |-> s, charge |-> c]
    BY <1>2, Charged
  <2>2. f[s].charged \subseteq f2[s].charged
    BY <1>0
  <2> QED
    BY <2>1, <2>2, Charged
<1>3. ASSUME NEW g \in A PROVE g \in ChargesOf(f2)
  <2>1. PICK c \in N : g = [id |-> r, charge |-> c]
    BY <1>3 DEF ChargedTo
  <2> QED
    BY <1>0, <2>1, Charged
<1> HIDE DEF A
<1>4. ChargesOf(f2) = ChargesOf(f) \cup A
  BY <1>1, <1>2, <1>3
<1> QED
  BY <1>4 DEF A

LEMMA ChargesSame ==
    ASSUME NEW f, NEW f2, \A s \in Requests : f2[s].charged = f[s].charged
    PROVE  ChargesOf(f2) = ChargesOf(f)
<1>1. ASSUME NEW g, NEW h1, NEW h2, \A s \in Requests : h2[s].charged = h1[s].charged, g \in ChargesOf(h1)
      PROVE  g \in ChargesOf(h2)
  <2>1. PICK s \in Requests : \E c \in h1[s].charged : g = [id |-> s, charge |-> c]
    BY <1>1, Charged
  <2>2. h2[s].charged = h1[s].charged
    BY <1>1
  <2> QED
    BY <2>1, <2>2, Charged
<1>2. \A g : g \in ChargesOf(f2) <=> g \in ChargesOf(f)
  BY <1>1
<1> QED
  BY <1>2

\* A store charges a request once for each key: a set of charges of one key and one
\* store is no larger than the set of the requests.
LEMMA OnePerRequest ==
    ASSUME NEW f, \A r \in Requests : Good(f[r]), NEW C \in SUBSET ChargesOf(f),
           \A g, h \in C : g.charge.key = h.charge.key /\ g.charge.store = h.charge.store
    PROVE  /\ \A g, h \in C : g.id = h.id => g = h
           /\ IsFiniteSet(C)
<1>1. \A g \in C : /\ g.id \in Requests /\ g.charge \in f[g.id].charged
                   /\ g = [id |-> g.id, charge |-> g.charge]
  BY Charged
<1>2. ASSUME NEW g \in C, NEW h \in C, g.id = h.id PROVE g = h
  <2>1. g.charge = h.charge
    BY <1>1, <1>2 DEF Good, GoodCharges
  <2> QED
    BY <1>1, <1>2, <2>1
<1>3. IsFiniteSet(C)
  <2>1. \A g \in C : \E e \in Entry : e.id = g.id
    <3> TAKE g \in C
    <3>1. [id |-> g.id, at |-> 0] \in Entry
      BY <1>1, RateAssumption DEF Entry, Time
    <3> QED
      BY <3>1
  <2> QED
    BY <1>2, <2>1, EntriesFinite, Fewer
<1> QED
  BY <1>2, <1>3

\* The charges of C that count, for a window of that width, with the charge g.
Win(C, g, width) ==
    {h \in C : /\ h.charge.key = g.charge.key
               /\ g.charge.at - width <= h.charge.at /\ h.charge.at <= g.charge.at}

InLimits(C, g, soft, hard) ==
    LET limit == Limit[g.charge.key[1]] IN
    /\ ~Over(Cardinality(Win(C, g, soft)), limit.soft)
    /\ ~Over(Cardinality(Win(C, g, hard)), limit.hard)

LEMMA Within ==
    ASSUME NEW C, NEW soft, NEW hard
    PROVE  WithinLimits(C, soft, hard) <=> \A g \in C : InLimits(C, g, soft, hard)
<1>1. ASSUME NEW g \in C, NEW width
      PROVE  Between({h \in C : h.charge.key = g.charge.key}, g.charge.at - width, g.charge.at)
               = Cardinality(Win(C, g, width))
  <2>1. {x \in {h \in C : h.charge.key = g.charge.key} :
            g.charge.at - width <= x.charge.at /\ x.charge.at <= g.charge.at} = Win(C, g, width)
    BY DEF Win
  <2> QED
    BY <2>1 DEF Between
<1> QED
  BY <1>1 DEF WithinLimits, InLimits

\* A charge that comes after those of its key changes no earlier window.
LEMMA AddKeeps ==
    ASSUME NEW C, NEW g, NEW soft, NEW hard, WithinLimits(C, soft, hard),
           g.charge.at \in Int, \A h \in C : h.charge.at \in Int,
           \A h \in C : h.charge.key = g.charge.key => h.charge.at <= g.charge.at,
           InLimits(C \cup {g}, g, soft, hard)
    PROVE  WithinLimits(C \cup {g}, soft, hard)
<1> DEFINE D == C \cup {g}
<1>1. ASSUME NEW h \in C PROVE InLimits(D, h, soft, hard)
  <2>1. InLimits(C, h, soft, hard)
    BY Within
  <2>2. CASE h.charge.key = g.charge.key /\ h.charge.at = g.charge.at
    <3>1. \A width : Win(D, h, width) = Win(D, g, width)
      BY <2>2 DEF Win
    <3> QED
      BY <2>2, <3>1 DEF InLimits
  <2>3. CASE ~(h.charge.key = g.charge.key /\ h.charge.at = g.charge.at)
    <3>1. ~(g.charge.key = h.charge.key /\ g.charge.at <= h.charge.at)
      BY <2>3
    <3>2. \A width : Win(D, h, width) = Win(C, h, width)
      BY <3>1 DEF Win
    <3> QED
      BY <2>1, <3>2 DEF InLimits
  <2> QED
    BY <2>2, <2>3
<1> HIDE DEF D
<1>2. \A h \in D : InLimits(D, h, soft, hard)
  BY <1>1 DEF D
<1> QED
  BY <1>2, Within DEF D

\* What was counted before a check leaves room for one.
LEMMA Room ==
    ASSUME NEW W, NEW g, NEW E, NEW limit \in Nat, IsFiniteSet(E),
           ~Full(Cardinality(E), limit),
           \A h, i \in W : h.id = i.id => h = i,
           \A h \in W \ {g} : \E e \in E : e.id = h.id
    PROVE  ~Over(Cardinality(W), limit)
<1> SUFFICES ASSUME limit > 0 PROVE Cardinality(W) <= limit
  <2>1. IsFiniteSet(W \ {g})
    BY Fewer
  <2>2. IsFiniteSet((W \ {g}) \cup {g})
    BY <2>1, FS_AddElement
  <2>3. IsFiniteSet(W)
    <3>1. W \subseteq (W \ {g}) \cup {g}
      OBVIOUS
    <3> QED
      BY <2>2, <3>1, FS_Subset
  <2>4. Cardinality(W) \in Nat
    BY <2>3, FS_CardinalityType
  <2> QED
    BY <2>4 DEF Over
<1>1. IsFiniteSet(W \ {g}) /\ Cardinality(W \ {g}) <= Cardinality(E)
  BY Fewer
<1>2. Cardinality(E) < limit
  <2>1. Cardinality(E) \in Nat
    BY FS_CardinalityType
  <2> QED
    BY <2>1 DEF Full
<1>3. Cardinality(W \ {g}) < limit
  <2>1. Cardinality(W \ {g}) \in Nat /\ Cardinality(E) \in Nat
    BY <1>1, FS_CardinalityType
  <2> QED
    BY <1>1, <1>2, <2>1
<1>4. IsFiniteSet((W \ {g}) \cup {g}) /\ Cardinality((W \ {g}) \cup {g}) <= limit
  BY <1>1, <1>3, OneMore
<1>5. W \subseteq (W \ {g}) \cup {g}
  OBVIOUS
<1>6. Cardinality(W) <= Cardinality((W \ {g}) \cup {g}) /\ IsFiniteSet(W)
  BY <1>4, <1>5, FS_Subset
<1>7. Cardinality(W) \in Nat /\ Cardinality((W \ {g}) \cup {g}) \in Nat
  BY <1>4, <1>6, FS_CardinalityType
<1> QED
  BY <1>4, <1>6, <1>7

-----------------------------------------------------------------------------
(* The windows hold *)

RedisPart(f) == {g \in ChargesOf(f) : g.charge.store = "redis" /\ ~g.charge.late}

MemoryPart(f, l) ==
    {g \in ChargesOf(f) : g.charge.store = "memory" /\ g.charge.life = l /\ g.charge.key \in Keys}

LEMMA Parts ==
    /\ RedisWindow <=> WithinLimits(RedisPart(req), SoftWindow, HardWindow - 1)
    /\ MemoryWindow <=> \A l \in 1..life : WithinLimits(MemoryPart(req, l), SoftWindow - 1, HardWindow - 1)
    /\ RedisWindow' <=> WithinLimits(RedisPart(req'), SoftWindow, HardWindow - 1)
    /\ MemoryWindow' <=> \A l \in 1..life' : WithinLimits(MemoryPart(req', l), SoftWindow - 1, HardWindow - 1)
<1>1. Charges = ChargesOf(req) /\ Charges' = ChargesOf(req')
  BY DEF Charges, ChargesOf
<1> QED
  BY <1>1 DEF RedisWindow, MemoryWindow, RedisPart, MemoryPart

LEMMA ChargeFacts ==
    ASSUME TypeOK, AllGood, NEW g \in ChargesOf(req)
    PROVE  /\ g.id \in Requests /\ g.charge \in req[g.id].charged
           /\ g = [id |-> g.id, charge |-> g.charge]
           /\ g.charge.at \in Nat /\ (g.charge.store = "redis" => g.charge.key \in Keys)
<1>1. PICK r \in Requests : \E c \in req[r].charged : g = [id |-> r, charge |-> c]
  BY Charged
<1>2. g.id \in Requests /\ g.charge \in req[g.id].charged /\ g = [id |-> g.id, charge |-> g.charge]
  BY <1>1
<1>3. g.charge.at \in Nat
  BY <1>2, Times
<1>4. g.charge.store = "redis" => g.charge.key \in Keys
  BY <1>2 DEF AllGood, Good, GoodCharges
<1> QED
  BY <1>2, <1>3, <1>4

\* The script keeps the limits of its key: what it counts is every charge of the
\* window, since no later stamp has pruned one.
LEMMA ScriptWindow ==
    ASSUME TypeOK, AllGood, Books, RedisWindow, NEW r \in Requests, NEW q, ScriptRuns(r, q)
    PROVE  RedisWindow'
<1> DEFINE k == req[r].key
           a == req[r].at
           N == RedisCharge(r)
           C == RedisPart(req)
           one == [id |-> r, charge |-> RedisOne(r)]
<1>1. k \in Keys /\ a \in Nat /\ newest[k] \in Nat /\ SoftWindow \in Nat /\ HardWindow \in Nat
  BY Times DEF ScriptRuns
<1>2. /\ req'[r].charged = req[r].charged \cup N
      /\ \A s \in Requests \ {r} : req'[s] = req[s]
      /\ AllGood'
  BY MovesKeep DEF ScriptRuns
<1>3. ChargesOf(req') = ChargesOf(req) \cup ChargedTo(r, N)
  <2> HIDE DEF N
  <2>1. Charging(req, req', r, N)
    BY <1>2 DEF Charging
  <2> QED
    BY <2>1, ChargesAdded
<1>4. WithinLimits(C, SoftWindow, HardWindow - 1)
  BY Parts
<1>5. RedisOne(r).key = k /\ RedisOne(r).at = a /\ RedisOne(r).store = "redis"
      /\ (RedisOne(r).late <=> a < newest[k])
  BY DEF RedisOne
<1>6. N = IF ScriptAllows(k, a) THEN {RedisOne(r)} ELSE {}
  BY DEF RedisCharge, RedisOne
<1>7. CASE ~ScriptAllows(k, a) \/ a < newest[k]
  <2>1. RedisPart(req') = C
    <3> HIDE DEF N, a, k
    <3>1. ASSUME NEW g \in ChargedTo(r, N) PROVE g.charge.late
      <4>1. PICK c \in N : g = [id |-> r, charge |-> c]
        BY <3>1 DEF ChargedTo
      <4>2. c = RedisOne(r) /\ g.charge = c /\ a < newest[k]
        BY <1>6, <1>7, <4>1
      <4> QED
        BY <1>5, <4>2
    <3> QED
      BY <1>3, <3>1 DEF RedisPart
  <2> QED
    BY <1>4, <2>1, Parts
<1>8. CASE ScriptAllows(k, a) /\ a >= newest[k]
  <2> HIDE DEF N
  <2>1. RedisPart(req') = C \cup {one}
    <3>1. ChargedTo(r, N) = {one}
      BY <1>6, <1>8 DEF ChargedTo
    <3>a. one.charge = RedisOne(r)
      OBVIOUS
    <3>b. ~(a < newest[k])
      BY <1>1, <1>8
    <3> HIDE DEF one
    <3>2. one.charge.store = "redis" /\ ~one.charge.late
      BY <1>5, <3>a, <3>b
    <3> QED
      BY <1>3, <3>1, <3>2 DEF RedisPart
  <2>2. one.charge.key = k /\ one.charge.at = a /\ one.charge.store = "redis" /\ one.id = r
    BY <1>5
  <2>3. ASSUME NEW h \in C
        PROVE  /\ h.id \in Requests /\ h.charge.at \in Nat /\ h.charge.store = "redis"
               /\ h.charge.key = k => h.charge.at <= a
               /\ h.charge.key = k /\ h.charge.at > a - HardWindow =>
                    [id |-> h.id, at |-> h.charge.at] \in Kept(k, a)
    <3>1. /\ h.id \in Requests /\ h.charge \in req[h.id].charged /\ h.charge.at \in Nat
          /\ h.charge.store = "redis"
      BY ChargeFacts DEF RedisPart
    <3>2. /\ h.charge.at <= newest[h.charge.key]
          /\ h.charge.at > newest[h.charge.key] - HardWindow =>
               [id |-> h.id, at |-> h.charge.at] \in zset[h.charge.key]
      BY <3>1 DEF Books, InRedis
    <3>3. h.charge.at > a - HardWindow => h.charge.at > newest[k] - HardWindow
      BY <1>1, <1>8, <3>1
    <3>4. h.charge.key = k => h.charge.at <= a
      BY <1>1, <1>8, <3>1, <3>2
    <3> HIDE DEF k, a
    <3> QED
      BY <3>1, <3>2, <3>3, <3>4 DEF Kept
  <2> HIDE DEF C, one, k, a
  <2>4. InLimits(C \cup {one}, one, SoftWindow, HardWindow - 1)
    <3>1. /\ ~Full(SoftCount(k, a), Limit[k[1]].soft)
          /\ ~Full(Cardinality(Kept(k, a)), Limit[k[1]].hard)
          /\ Limit[k[1]].soft \in Nat /\ Limit[k[1]].hard \in Nat
      BY <1>1, <1>8, LimitsNat DEF ScriptAllows, Exceeds
    <3>2. Kept(k, a) \in SUBSET Entry
      BY <1>1 DEF Kept, TypeOK
    <3>3. ASSUME NEW width
          PROVE  \A h, i \in Win(C \cup {one}, one, width) : h.id = i.id => h = i
      <4>1. Win(C \cup {one}, one, width) \in SUBSET ChargesOf(req')
        BY <2>1 DEF Win, RedisPart
      <4>2. \A h, i \in Win(C \cup {one}, one, width) :
              h.charge.key = i.charge.key /\ h.charge.store = i.charge.store
        BY <2>2, <2>3 DEF Win
      <4>3. \A s \in Requests : Good(req'[s])
        BY <1>2 DEF AllGood
      <4> QED
        BY <4>1, <4>2, <4>3, OnePerRequest
    <3>4. ~Over(Cardinality(Win(C \cup {one}, one, SoftWindow)), Limit[k[1]].soft)
      <4> DEFINE E == {e \in Kept(k, a) : e.at >= a - SoftWindow}
                 W == Win(C \cup {one}, one, SoftWindow)
      <4>1. IsFiniteSet(E) /\ ~Full(Cardinality(E), Limit[k[1]].soft)
        BY <3>1, <3>2, EntriesFinite DEF SoftCount
      <4>2. ASSUME NEW h \in W \ {one} PROVE \E e \in E : e.id = h.id
        <5>1. h \in C /\ h.charge.key = k /\ a - SoftWindow <= h.charge.at
          BY <2>2, <4>2 DEF Win
        <5>a. h.charge.at \in Nat
          BY <2>3, <5>1
        <5>2. h.charge.at > a - HardWindow /\ h.charge.at >= a - SoftWindow
          BY <1>1, <5>1, <5>a, RateAssumption
        <5> DEFINE e == [id |-> h.id, at |-> h.charge.at]
        <5>3. e \in Kept(k, a)
          BY <2>3, <5>1, <5>2
        <5> QED
          BY <5>2, <5>3
      <4> HIDE DEF E, W
      <4>3. \A h, i \in W : h.id = i.id => h = i
        BY <3>3 DEF W
      <4> QED
        BY <3>1, <4>1, <4>2, <4>3, Room DEF W
    <3>5. ~Over(Cardinality(Win(C \cup {one}, one, HardWindow - 1)), Limit[k[1]].hard)
      <4> DEFINE E == Kept(k, a)
                 W == Win(C \cup {one}, one, HardWindow - 1)
      <4>1. IsFiniteSet(E) /\ ~Full(Cardinality(E), Limit[k[1]].hard)
        BY <3>1, <3>2, EntriesFinite
      <4>2. ASSUME NEW h \in W \ {one} PROVE \E e \in E : e.id = h.id
        <5>1. h \in C /\ h.charge.key = k /\ a - (HardWindow - 1) <= h.charge.at
          BY <2>2, <4>2 DEF Win
        <5>a. h.charge.at \in Nat
          BY <2>3, <5>1
        <5>2. h.charge.at > a - HardWindow
          BY <1>1, <5>1, <5>a
        <5>3. [id |-> h.id, at |-> h.charge.at] \in Kept(k, a)
          BY <2>3, <5>1, <5>2
        <5> QED
          BY <5>3
      <4> HIDE DEF E, W
      <4>3. \A h, i \in W : h.id = i.id => h = i
        BY <3>3 DEF W
      <4> QED
        BY <3>1, <4>1, <4>2, <4>3, Room DEF W
    <3>6. Limit[one.charge.key[1]] = Limit[k[1]]
      BY <2>2
    <3> DEFINE D == C \cup {one}
    <3> HIDE DEF D
    <3>7. /\ ~Over(Cardinality(Win(D, one, SoftWindow)), Limit[one.charge.key[1]].soft)
          /\ ~Over(Cardinality(Win(D, one, HardWindow - 1)), Limit[one.charge.key[1]].hard)
      BY <3>4, <3>5, <3>6 DEF D
    <3>8. InLimits(D, one, SoftWindow, HardWindow - 1)
      BY <3>7 DEF InLimits
    <3> QED
      BY <3>8 DEF D
  <2>5. WithinLimits(C \cup {one}, SoftWindow, HardWindow - 1)
    <3>1. \A h \in C : h.charge.at \in Int
      <4> TAKE h \in C
      <4>1. h.charge.at \in Nat
        BY <2>3
      <4> QED
        BY <4>1
    <3>a. \A h \in C : h.charge.key = one.charge.key => h.charge.at <= one.charge.at
      <4> TAKE h \in C
      <4> QED
        BY <2>2, <2>3
    <3>2. one.charge.at \in Int
      BY <1>1, <2>2
    <3>3. WithinLimits(C, SoftWindow, HardWindow - 1)
      BY <1>4 DEF C
    <3> QED
      BY <2>4, <3>1, <3>2, <3>3, <3>a, AddKeeps
  <2> QED
    BY <2>1, <2>5, Parts
<1> QED
  BY <1>1, <1>7, <1>8

\* The fallback keeps the limits of its key, within a life of the process.
LEMMA FallbackWindow ==
    ASSUME TypeOK, AllGood, Books, MemoryWindow, NEW r \in Requests, NEW q, FallsBack(r, q)
    PROVE  MemoryWindow'
<1> DEFINE k == req[r].key
           N == IF MemoryAllows(k) THEN {MemoryOne(r)} ELSE {}
           C == MemoryPart(req, life)
           one == [id |-> r, charge |-> MemoryOne(r)]
           soft == SoftWindow - 1
           hard == HardWindow - 1
<1>1. /\ k \in Keys /\ clock \in Nat /\ life' = life
      /\ SoftWindow \in Nat /\ HardWindow \in Nat /\ SoftWindow < HardWindow
  BY Times, RateAssumption DEF FallsBack
<1>2. /\ req'[r].charged = req[r].charged \cup N
      /\ \A s \in Requests \ {r} : req'[s] = req[s]
      /\ AllGood'
  BY MovesKeep DEF FallsBack
<1>3. ChargesOf(req') = ChargesOf(req) \cup ChargedTo(r, N)
  <2> HIDE DEF N
  <2>1. Charging(req, req', r, N)
    BY <1>2 DEF Charging
  <2> QED
    BY <2>1, ChargesAdded
<1>4. \A l \in 1..life : WithinLimits(MemoryPart(req, l), soft, hard)
  BY Parts
<1>5. MemoryOne(r).key = k /\ MemoryOne(r).at = clock /\ MemoryOne(r).store = "memory"
      /\ MemoryOne(r).life = life
  BY DEF MemoryOne
<1>6. ChargedTo(r, N) = IF MemoryAllows(k) THEN {one} ELSE {}
  BY DEF ChargedTo
<1>7. one.charge.key = k /\ one.charge.at = clock /\ one.charge.store = "memory" /\ one.id = r
      /\ one.charge.life = life
  BY <1>5
<1> HIDE DEF N, one, k
<1>8. ASSUME NEW l \in 1..life, ~MemoryAllows(k) \/ l # life
      PROVE  WithinLimits(MemoryPart(req', l), soft, hard)
  <2>1. MemoryPart(req', l) = MemoryPart(req, l)
    BY <1>3, <1>6, <1>7, <1>8 DEF MemoryPart
  <2> QED
    BY <1>4, <2>1
<1>9. ASSUME MemoryAllows(k), life \in 1..life
      PROVE  WithinLimits(MemoryPart(req', life), soft, hard)
  <2>1. MemoryPart(req', life) = C \cup {one}
    BY <1>1, <1>3, <1>6, <1>7, <1>9 DEF MemoryPart
  <2>3. ASSUME NEW h \in C
        PROVE  /\ h.id \in Requests /\ h.charge.at \in Nat /\ h.charge.store = "memory"
               /\ h.charge.at <= clock
               /\ h.charge.key = k /\ h.charge.at > clock - HardWindow =>
                    [id |-> h.id, at |-> h.charge.at] \in InMemory(k)
    <3>1. /\ h.id \in Requests /\ h.charge \in req[h.id].charged /\ h.charge.at \in Nat
          /\ h.charge.store = "memory" /\ h.charge.life = life /\ h.charge.key \in Keys
      BY ChargeFacts DEF MemoryPart
    <3>2. /\ h.charge.at <= clock
          /\ h.charge.at > clock - HardWindow => [id |-> h.id, at |-> h.charge.at] \in memory[h.charge.key]
      BY <3>1 DEF Books, InProcess
    <3> QED
      BY <3>1, <3>2 DEF InMemory
  <2>4. ASSUME NEW h \in C PROVE h.charge.at \in Nat /\ h.charge.at <= clock
    BY <2>3
  <2> HIDE DEF C
  <2>5. InLimits(C \cup {one}, one, soft, hard)
    <3>1. /\ ~Full(Cardinality({e \in InMemory(k) : e.at > clock - SoftWindow}), Limit[k[1]].soft)
          /\ ~Full(Cardinality(InMemory(k)), Limit[k[1]].hard)
          /\ Limit[k[1]].soft \in Nat /\ Limit[k[1]].hard \in Nat
      BY <1>1, <1>9, LimitsNat DEF MemoryAllows, Exceeds
    <3>2. InMemory(k) \in SUBSET Entry
      BY <1>1 DEF InMemory, TypeOK
    <3>3. ASSUME NEW width
          PROVE  \A h, i \in Win(C \cup {one}, one, width) : h.id = i.id => h = i
      <4>1. Win(C \cup {one}, one, width) \in SUBSET ChargesOf(req')
        BY <2>1 DEF Win, MemoryPart
      <4>2. \A h, i \in Win(C \cup {one}, one, width) :
              h.charge.key = i.charge.key /\ h.charge.store = i.charge.store
        BY <1>7, <2>3 DEF Win
      <4>3. \A s \in Requests : Good(req'[s])
        BY <1>2 DEF AllGood
      <4> QED
        BY <4>1, <4>2, <4>3, OnePerRequest
    <3>4. ~Over(Cardinality(Win(C \cup {one}, one, soft)), Limit[k[1]].soft)
      <4> DEFINE E == {e \in InMemory(k) : e.at > clock - SoftWindow}
                 W == Win(C \cup {one}, one, soft)
      <4>1. IsFiniteSet(E) /\ ~Full(Cardinality(E), Limit[k[1]].soft)
        BY <3>1, <3>2, EntriesFinite
      <4>2. ASSUME NEW h \in W \ {one} PROVE \E e \in E : e.id = h.id
        <5>1. h \in C /\ h.charge.key = k /\ clock - (SoftWindow - 1) <= h.charge.at
          BY <1>7, <4>2 DEF Win
        <5>a. h.charge.at \in Nat
          BY <2>4, <5>1
        <5>2. h.charge.at > clock - HardWindow /\ h.charge.at > clock - SoftWindow
          BY <1>1, <5>1, <5>a
        <5> DEFINE e == [id |-> h.id, at |-> h.charge.at]
        <5>3. e \in InMemory(k)
          BY <2>3, <5>1, <5>2
        <5> QED
          BY <5>2, <5>3
      <4> HIDE DEF E, W
      <4>3. \A h, i \in W : h.id = i.id => h = i
        BY <3>3 DEF W
      <4> QED
        BY <3>1, <4>1, <4>2, <4>3, Room DEF W
    <3>5. ~Over(Cardinality(Win(C \cup {one}, one, hard)), Limit[k[1]].hard)
      <4> DEFINE E == InMemory(k)
                 W == Win(C \cup {one}, one, hard)
      <4>1. IsFiniteSet(E) /\ ~Full(Cardinality(E), Limit[k[1]].hard)
        BY <3>1, <3>2, EntriesFinite
      <4>2. ASSUME NEW h \in W \ {one} PROVE \E e \in E : e.id = h.id
        <5>1. h \in C /\ h.charge.key = k /\ clock - (HardWindow - 1) <= h.charge.at
          BY <1>7, <4>2 DEF Win
        <5>a. h.charge.at \in Nat
          BY <2>4, <5>1
        <5>2. h.charge.at > clock - HardWindow
          BY <1>1, <5>1, <5>a
        <5>3. [id |-> h.id, at |-> h.charge.at] \in InMemory(k)
          BY <2>3, <5>1, <5>2
        <5> QED
          BY <5>3
      <4> HIDE DEF E, W
      <4>3. \A h, i \in W : h.id = i.id => h = i
        BY <3>3 DEF W
      <4> QED
        BY <3>1, <4>1, <4>2, <4>3, Room DEF W
    <3>6. Limit[one.charge.key[1]] = Limit[k[1]]
      BY <1>7
    <3> DEFINE D == C \cup {one}
    <3> HIDE DEF D, soft, hard
    <3>7. /\ ~Over(Cardinality(Win(D, one, soft)), Limit[one.charge.key[1]].soft)
          /\ ~Over(Cardinality(Win(D, one, hard)), Limit[one.charge.key[1]].hard)
      BY <3>4, <3>5, <3>6 DEF D
    <3>8. InLimits(D, one, soft, hard)
      BY <3>7 DEF InLimits
    <3> QED
      BY <3>8 DEF D
  <2>6. WithinLimits(C \cup {one}, soft, hard)
    <3>1. \A h \in C : h.charge.at \in Int
      <4> TAKE h \in C
      <4>1. h.charge.at \in Nat
        BY <2>4
      <4> QED
        BY <4>1
    <3>a. \A h \in C : h.charge.key = one.charge.key => h.charge.at <= one.charge.at
      <4> TAKE h \in C
      <4> QED
        BY <1>7, <2>4
    <3>2. one.charge.at \in Int
      BY <1>1, <1>7
    <3>3. WithinLimits(C, soft, hard)
      BY <1>4, <1>9 DEF C
    <3> HIDE DEF soft, hard
    <3> QED
      BY <2>5, <3>1, <3>2, <3>3, <3>a, AddKeeps
  <2> QED
    BY <2>1, <2>6
<1>10. \A l \in 1..life : WithinLimits(MemoryPart(req', l), soft, hard)
  <2> TAKE l \in 1..life
  <2> HIDE DEF soft, hard
  <2>1. CASE MemoryAllows(k) /\ l = life
    BY <1>9, <2>1
  <2>2. CASE ~(MemoryAllows(k) /\ l = life)
    BY <1>8, <2>2
  <2> QED
    BY <2>1, <2>2
<1> QED
  BY <1>1, <1>10, Parts

\* A charge in memory leaves the windows of Redis alone.
LEMMA RedisKept ==
    ASSUME RedisWindow, NEW r \in Requests, NEW N, Charging(req, req', r, N),
           \A c \in N : c.store = "memory"
    PROVE  RedisWindow'
<1>1. ChargesOf(req') = ChargesOf(req) \cup ChargedTo(r, N)
  BY ChargesAdded
<1>2. \A g \in ChargedTo(r, N) : g.charge.store = "memory"
  BY DEF ChargedTo
<1>3. RedisPart(req') = RedisPart(req)
  BY <1>1, <1>2 DEF RedisPart
<1> QED
  BY <1>3, Parts

\* A charge in Redis, or of a login, leaves the windows of the fallback alone.
LEMMA MemoryKept ==
    ASSUME MemoryWindow, life' = life, NEW r \in Requests, NEW N, Charging(req, req', r, N),
           \A c \in N : c.store = "redis" \/ c.key \notin Keys
    PROVE  MemoryWindow'
<1>1. ChargesOf(req') = ChargesOf(req) \cup ChargedTo(r, N)
  BY ChargesAdded
<1>2. \A g \in ChargedTo(r, N) : g.charge.store = "redis" \/ g.charge.key \notin Keys
  BY DEF ChargedTo
<1>3. \A l : MemoryPart(req', l) = MemoryPart(req, l)
  BY <1>1, <1>2 DEF MemoryPart
<1> QED
  BY <1>3, Parts

\* Without a charge no window changes; a new life has none of its own yet.
LEMMA QuietWindows ==
    ASSUME TypeOK, AllGood, Books, RedisWindow, MemoryWindow,
           \A r \in Requests : req'[r].charged = req[r].charged,
           life' = life \/ life' = life + 1
    PROVE  RedisWindow' /\ MemoryWindow'
<1>1. ChargesOf(req') = ChargesOf(req)
  BY ChargesSame
<1>2. RedisPart(req') = RedisPart(req) /\ \A l : MemoryPart(req', l) = MemoryPart(req, l)
  BY <1>1 DEF RedisPart, MemoryPart
<1>3. ASSUME NEW l \in 1..life'
      PROVE  WithinLimits(MemoryPart(req, l), SoftWindow - 1, HardWindow - 1)
  <2>1. life \in Nat
    BY Times
  <2>2. CASE l \in 1..life
    BY <2>2, Parts
  <2>3. CASE l \notin 1..life
    <3>1. l > life /\ l \in Nat
      BY <1>3, <2>1, <2>3
    <3>2. ASSUME NEW g \in MemoryPart(req, l) PROVE FALSE
      <4>1. g.id \in Requests /\ g.charge \in req[g.id].charged /\ g.charge.store = "memory" /\ g.charge.life = l
        BY ChargeFacts DEF MemoryPart
      <4>2. g.charge.life <= life
        BY <4>1 DEF Books, InProcess
      <4> QED
        BY <2>1, <3>1, <4>1, <4>2
    <3> QED
      BY <3>2, Within
  <2> QED
    BY <2>2, <2>3
<1> QED
  BY <1>2, <1>3, Parts

\* Nobody passes a login or a registration but in EnforceAuthLimit.
LEMMA QuietBurst ==
    ASSUME AuthBurst,
           \A r \in Requests : req'[r].pc = "passed" /\ req'[r].endpoint \in AuthEndpoints => req'[r] = req[r]
    PROVE  AuthBurst'
<1> SUFFICES ASSUME NEW r \in Requests, req'[r].pc = "passed", req'[r].endpoint \in AuthEndpoints
             PROVE  Cardinality(AuthPassesUpTo(r)') <= AuthLimit[req'[r].endpoint].max
  BY DEF AuthBurst
<1>1. req'[r] = req[r]
  OBVIOUS
<1>2. AuthPassesUpTo(r)' \subseteq AuthPassesUpTo(r)
  BY <1>1 DEF AuthPassesUpTo
<1>3. AuthPassesUpTo(r) \subseteq Requests
  BY DEF AuthPassesUpTo
<1>4. IsFiniteSet(AuthPassesUpTo(r))
  BY <1>3, FS_Subset, RateAssumption
<1>5. Cardinality(AuthPassesUpTo(r)') <= Cardinality(AuthPassesUpTo(r)) /\ IsFiniteSet(AuthPassesUpTo(r)')
  BY <1>2, <1>4, FS_Subset
<1>6. Cardinality(AuthPassesUpTo(r)') \in Nat /\ Cardinality(AuthPassesUpTo(r)) \in Nat
  BY <1>4, <1>5, FS_CardinalityType
<1>7. Cardinality(AuthPassesUpTo(r)) <= AuthLimit[req[r].endpoint].max
  BY <1>1 DEF AuthBurst
<1>8. AuthLimit[req[r].endpoint].max \in Nat
  BY <1>1, RateAssumption
<1> QED
  BY <1>1, <1>5, <1>6, <1>7, <1>8

\* A login that passes was counted among those the shortest window reaches.
LEMMA AuthWindow ==
    ASSUME TypeOK, AllGood, Books, AuthBurst, NEW r0 \in Requests, NEW name \in AuthEndpoints, NEW q,
           EntersAuth(r0, name, q)
    PROVE  AuthBurst'
<1>1. /\ clock \in Nat /\ life \in Nat /\ ShortestWindow \in Nat
      /\ AuthLimit[name].window \in Nat /\ AuthLimit[name].max \in Nat
      /\ ShortestWindow <= AuthLimit[name].window
  BY Times, ShortestIs, RateAssumption
<1>2. /\ req'[r0] = q /\ AllGood'
      /\ \A s \in Requests \ {r0} : req'[s] = req[s]
  BY MovesKeep DEF EntersAuth
<1>3. CASE q.pc = "refused"
  BY <1>2, <1>3, QuietBurst
<1>4. CASE q.pc # "refused"
  <2>1. /\ q.pc = "passed" /\ q.charged = {AuthOne} /\ q.endpoint = name
        /\ Cardinality(PrunedAuth(name)) < AuthLimit[name].max
    BY <1>4 DEF EntersAuth
  <2>2. AuthOne.at = clock /\ AuthOne.life = life
    BY DEF AuthOne
  <2>3. IsFiniteSet(PrunedAuth(name))
    <3>1. PrunedAuth(name) \in SUBSET Entry
      BY DEF PrunedAuth, TypeOK
    <3> QED
      BY <3>1, EntriesFinite
  <2>4. ASSUME NEW s \in Requests \ {r0}, req'[s].pc = "passed", req'[s].endpoint \in AuthEndpoints,
               NEW d \in req'[s].charged
        PROVE  /\ d.key = AuthKey /\ d.store = "memory" /\ d.at \in Nat /\ d.at <= clock
               /\ d.life = life /\ d.at > clock - ShortestWindow =>
                    \E e \in PrunedAuth(name) : e.id = s
    <3>1. req'[s] = req[s] /\ d \in req[s].charged
      BY <1>2, <2>4
    <3>2. d.key = AuthKey /\ d.store = "memory"
      BY <2>4, <3>1 DEF AllGood, Good
    <3>3. /\ d.at <= clock /\ d.at \in Nat
          /\ d.life = life /\ d.at > clock - ShortestWindow => [id |-> s, at |-> d.at] \in auth
      BY <3>1, <3>2, Times DEF Books, InProcess
    <3>4. d.at > clock - ShortestWindow => d.at > clock - AuthLimit[name].window
      BY <1>1, <3>3
    <3>5. d.life = life /\ d.at > clock - ShortestWindow => [id |-> s, at |-> d.at] \in PrunedAuth(name)
      BY <3>3, <3>4 DEF PrunedAuth
    <3> QED
      BY <3>2, <3>3, <3>5
  <2> SUFFICES ASSUME NEW r \in Requests, req'[r].pc = "passed", req'[r].endpoint \in AuthEndpoints
               PROVE  Cardinality(AuthPassesUpTo(r)') <= AuthLimit[req'[r].endpoint].max
    BY DEF AuthBurst
  <2> DEFINE P == AuthPassesUpTo(r)'
  <2>5. P = {s \in Requests :
               /\ req'[s].pc = "passed" /\ req'[s].endpoint = req'[r].endpoint
               /\ \E c \in req'[r].charged, d \in req'[s].charged :
                    c.life = d.life /\ d.at \in (c.at - ShortestWindow + 1)..c.at}
    BY DEF AuthPassesUpTo
  <2> HIDE DEF P
  <2>6. CASE r0 \in P
    <3>1. req'[r].endpoint = name
      BY <1>2, <2>1, <2>5, <2>6
    <3>2. \A c \in req'[r].charged : c.life = life /\ c.at = clock
      <4>1. CASE r = r0
        BY <1>2, <2>1, <2>2, <4>1
      <4>2. CASE r # r0
        <5>1. PICK c0 \in req'[r].charged : c0.life = life /\ clock \in (c0.at - ShortestWindow + 1)..c0.at
          BY <1>2, <2>1, <2>2, <2>5, <2>6
        <5>2. /\ c0.key = AuthKey /\ c0.store = "memory" /\ c0.at \in Nat /\ c0.at <= clock
          BY <2>4, <4>2, <5>1
        <5>3. c0.at = clock
          BY <1>1, <5>1, <5>2
        <5>4. \A c \in req'[r].charged : c.key = AuthKey /\ c.store = "memory"
          BY <2>4, <4>2
        <5>5. \A c \in req'[r].charged : c = c0
          BY <1>2, <5>2, <5>4 DEF AllGood, Good, GoodCharges
        <5> QED
          BY <5>1, <5>3, <5>5
      <4> QED
        BY <4>1, <4>2
    <3>3. ASSUME NEW s \in P \ {r0} PROVE \E e \in PrunedAuth(name) : e.id = s
      <4>1. /\ s \in Requests \ {r0} /\ req'[s].pc = "passed" /\ req'[s].endpoint \in AuthEndpoints
        BY <2>5, <3>3
      <4>2. PICK c \in req'[r].charged, d \in req'[s].charged :
              c.life = d.life /\ d.at \in (c.at - ShortestWindow + 1)..c.at
        BY <2>5, <3>3
      <4>3. d.life = life /\ d.at \in (clock - ShortestWindow + 1)..clock
        BY <3>2, <4>2
      <4>4. d.at > clock - ShortestWindow
        BY <1>1, <4>3
      <4> QED
        BY <2>4, <4>1, <4>2, <4>3, <4>4
    <3>4. IsFiniteSet(P \ {r0}) /\ Cardinality(P \ {r0}) <= Cardinality(PrunedAuth(name))
      BY <2>3, <3>3, FewerRequests
    <3>5. Cardinality(P \ {r0}) < AuthLimit[name].max
      <4>1. Cardinality(P \ {r0}) \in Nat /\ Cardinality(PrunedAuth(name)) \in Nat
        BY <2>3, <3>4, FS_CardinalityType
      <4> QED
        BY <1>1, <2>1, <3>4, <4>1
    <3>6. Cardinality((P \ {r0}) \cup {r0}) <= AuthLimit[name].max
      BY <1>1, <3>4, <3>5, OneMore
    <3>7. (P \ {r0}) \cup {r0} = P
      BY <2>6
    <3> QED
      BY <3>1, <3>6, <3>7 DEF P
  <2>7. CASE r = r0 /\ r0 \notin P
    <3>1. req'[r].charged = {AuthOne} /\ req'[r].endpoint = name
      BY <1>2, <2>1, <2>7
    <3>2. ~(clock \in (clock - ShortestWindow + 1)..clock)
      BY <2>2, <2>5, <2>7, <3>1
    <3>3. ShortestWindow = 0
      BY <1>1, <3>2
    <3>4. ASSUME NEW s \in P PROVE FALSE
      <4>1. PICK d \in req'[s].charged : d.at \in (clock - ShortestWindow + 1)..clock
        BY <2>2, <2>5, <3>1
      <4> QED
        BY <1>1, <3>3, <4>1
    <3>5. Cardinality(P) = 0
      BY <3>4, FS_EmptySet
    <3>6. Cardinality(P) <= AuthLimit[req'[r].endpoint].max
      BY <1>1, <3>1, <3>5
    <3> QED
      BY <3>6 DEF P
  <2>8. CASE r # r0 /\ r0 \notin P
    <3>1. r # r0
      BY <2>8
    <3>2. req'[r] = req[r]
      BY <1>2, <3>1
    <3>3. P \subseteq AuthPassesUpTo(r)
      BY <1>2, <2>5, <2>8, <3>2 DEF AuthPassesUpTo
    <3>4. AuthPassesUpTo(r) \subseteq Requests
      BY DEF AuthPassesUpTo
    <3>5. IsFiniteSet(AuthPassesUpTo(r))
      BY <3>4, FS_Subset, RateAssumption
    <3>6. Cardinality(P) <= Cardinality(AuthPassesUpTo(r)) /\ IsFiniteSet(P)
      BY <3>3, <3>5, FS_Subset
    <3>7. Cardinality(P) \in Nat /\ Cardinality(AuthPassesUpTo(r)) \in Nat
      BY <3>5, <3>6, FS_CardinalityType
    <3>8. Cardinality(AuthPassesUpTo(r)) <= AuthLimit[req[r].endpoint].max
      BY <3>2 DEF AuthBurst
    <3>9. AuthLimit[req[r].endpoint].max \in Nat
      BY <3>2, RateAssumption
    <3>10. Cardinality(P) <= AuthLimit[req'[r].endpoint].max
      BY <3>2, <3>6, <3>7, <3>8, <3>9
    <3> QED
      BY <3>10 DEF P
  <2> QED
    BY <2>6, <2>7, <2>8
<1> QED
  BY <1>3, <1>4

-----------------------------------------------------------------------------
(* A refusal has its cause *)

\* The charges of others that a store holds against r.
Others(f, k, r, store) ==
    {g \in ChargesOf(f) : g.charge.key = k /\ g.charge.store = store /\ g.id # r}

Cause(f, k, at, r) ==
    \E store \in {"redis", "memory"} :
      \/ Limit[k[1]].hard \in 1..Between(Others(f, k, r, store), at - HardWindow + 1, MaxClock)
      \/ Limit[k[1]].soft \in 1..Between(Others(f, k, r, store), at - SoftWindow, MaxClock)

LEMMA Causes ==
    /\ RefusedForCause <=> \A r \in Requests :
         req[r].pc = "refused" /\ req[r].key # None => Cause(req, req[r].key, req[r].at, r)
    /\ RefusedForCause' <=> \A r \in Requests :
         req'[r].pc = "refused" /\ req'[r].key # None => Cause(req', req'[r].key, req'[r].at, r)
<1>1. Charges = ChargesOf(req) /\ Charges' = ChargesOf(req')
  BY DEF Charges, ChargesOf
<1> QED
  BY <1>1 DEF RefusedForCause, Cause, Others

LEMMA OthersFinite ==
    ASSUME NEW f, \A r \in Requests : Good(f[r]), NEW k, NEW r, NEW store
    PROVE  IsFiniteSet(Others(f, k, r, store))
<1>1. Others(f, k, r, store) \in SUBSET ChargesOf(f)
  BY DEF Others
<1>2. \A g, h \in Others(f, k, r, store) : g.charge.key = h.charge.key /\ g.charge.store = h.charge.store
  BY DEF Others
<1> QED
  BY <1>1, <1>2, OnePerRequest

\* A cause remains one: charges are never taken back.
LEMMA CauseStays ==
    ASSUME NEW f, NEW f2, \A s \in Requests : Good(f2[s]),
           \A s \in Requests : f[s].charged \subseteq f2[s].charged,
           NEW k, NEW at, NEW r, Cause(f, k, at, r)
    PROVE  Cause(f2, k, at, r)
<1>1. ASSUME NEW store, NEW first, NEW n, n \in 1..Between(Others(f, k, r, store), first, MaxClock)
      PROVE  n \in 1..Between(Others(f2, k, r, store), first, MaxClock)
  <2> DEFINE B == {g \in Others(f, k, r, store) : first <= g.charge.at /\ g.charge.at <= MaxClock}
             B2 == {g \in Others(f2, k, r, store) : first <= g.charge.at /\ g.charge.at <= MaxClock}
  <2>1. ChargesOf(f) \subseteq ChargesOf(f2)
    <3>1. ASSUME NEW g \in ChargesOf(f) PROVE g \in ChargesOf(f2)
      <4>1. PICK s \in Requests : \E c \in f[s].charged : g = [id |-> s, charge |-> c]
        BY <3>1, Charged
      <4> QED
        BY <4>1, Charged
    <3> QED
      BY <3>1
  <2>2. B \subseteq B2
    BY <2>1 DEF Others
  <2>3. IsFiniteSet(B2)
    <3>1. IsFiniteSet(Others(f2, k, r, store)) /\ B2 \subseteq Others(f2, k, r, store)
      BY OthersFinite
    <3> QED
      BY <3>1, FS_Subset
  <2>4. Between(Others(f, k, r, store), first, MaxClock) = Cardinality(B)
    BY DEF Between
  <2>5. Between(Others(f2, k, r, store), first, MaxClock) = Cardinality(B2)
    BY DEF Between
  <2> HIDE DEF B, B2
  <2>6. IsFiniteSet(B) /\ Cardinality(B) <= Cardinality(B2)
    BY <2>2, <2>3, FS_Subset
  <2>7. Cardinality(B) \in Nat /\ Cardinality(B2) \in Nat
    BY <2>3, <2>6, FS_CardinalityType
  <2>8. n \in 1..Cardinality(B)
    BY <1>1, <2>4
  <2>9. n \in 1..Cardinality(B2)
    BY <2>6, <2>7, <2>8
  <2> QED
    BY <2>5, <2>9
<1> QED
  BY <1>1 DEF Cause

\* What a store counts was charged to others, each of them once.
LEMMA Counted ==
    ASSUME TypeOK, AllGood, AllGood', \A s \in Requests : req[s].charged \subseteq req'[s].charged,
           NEW k, NEW r, NEW store, NEW E \in SUBSET Entry,
           \A e \in E : \E c \in req[e.id].charged : c.key = k /\ c.store = store /\ c.at = e.at,
           \A c \in req[r].charged : ~(c.key = k /\ c.store = store),
           NEW first \in Int, \A e \in E : first <= e.at,
           NEW n \in Nat, Full(Cardinality(E), n)
    PROVE  n \in 1..Between(Others(req', k, r, store), first, MaxClock)
<1> DEFINE B == {g \in Others(req', k, r, store) : first <= g.charge.at /\ g.charge.at <= MaxClock}
<1>1. IsFiniteSet(B)
  <2>1. \A s \in Requests : Good(req'[s])
    BY DEF AllGood
  <2>2. IsFiniteSet(Others(req', k, r, store)) /\ B \subseteq Others(req', k, r, store)
    BY <2>1, OthersFinite
  <2> QED
    BY <2>2, FS_Subset
<1>2. ASSUME NEW e \in E
      PROVE  e.id \in Requests /\ e = [id |-> e.id, at |-> e.at] /\ e.id # r /\ e.at \in Nat /\ e.at <= MaxClock
  <2>1. e \in Entry
    OBVIOUS
  <2>2. e.id \in Requests /\ e = [id |-> e.id, at |-> e.at] /\ e.at \in Time
    BY <2>1 DEF Entry
  <2>3. e.at \in Nat /\ e.at <= MaxClock
    BY <2>2, RateAssumption DEF Time
  <2>4. e.id # r
    OBVIOUS
  <2> QED
    BY <2>2, <2>3, <2>4
<1>3. ASSUME NEW e \in E, NEW d \in E, e.id = d.id PROVE e = d
  <2>1. PICK c \in req[e.id].charged : c.key = k /\ c.store = store /\ c.at = e.at
    OBVIOUS
  <2>2. PICK c2 \in req[e.id].charged : c2.key = k /\ c2.store = store /\ c2.at = d.at
    BY <1>3
  <2>3. c = c2
    BY <1>2, <2>1, <2>2 DEF AllGood, Good, GoodCharges
  <2> QED
    BY <1>2, <1>3, <2>1, <2>2, <2>3
<1>4. ASSUME NEW e \in E PROVE \E g \in B : g.id = e.id
  <2>1. PICK c \in req[e.id].charged : c.key = k /\ c.store = store /\ c.at = e.at
    OBVIOUS
  <2> DEFINE g == [id |-> e.id, charge |-> c]
  <2>2. c \in req'[e.id].charged
    BY <1>2, <2>1
  <2>3. g \in ChargesOf(req')
    BY <1>2, <2>2, Charged
  <2>4. g \in Others(req', k, r, store)
    BY <1>2, <2>1, <2>3 DEF Others
  <2> QED
    BY <1>2, <2>1, <2>4
<1> HIDE DEF B
<1>5. IsFiniteSet(E) /\ Cardinality(E) <= Cardinality(B)
  BY <1>1, <1>3, <1>4, Fewer
<1>6. Cardinality(E) \in Nat /\ Cardinality(B) \in Nat
  BY <1>1, <1>5, FS_CardinalityType
<1>7. n \in 1..Cardinality(B)
  BY <1>5, <1>6 DEF Full
<1> QED
  BY <1>7 DEF Between, B

\* The script refuses, for what Redis holds of others.
LEMMA ScriptCause ==
    ASSUME TypeOK, AllGood, Books, NEW r \in Requests, NEW q, ScriptRuns(r, q),
           ~ScriptAllows(req[r].key, req[r].at)
    PROVE  Cause(req', req[r].key, req[r].at, r)
<1> DEFINE k == req[r].key
           a == req[r].at
<1>1. k \in Keys /\ a \in Nat /\ SoftWindow \in Nat /\ HardWindow \in Nat
      /\ Limit[k[1]].soft \in Nat /\ Limit[k[1]].hard \in Nat
  BY Times, LimitsNat DEF ScriptRuns
<1>2. AllGood' /\ \A s \in Requests : req[s].charged \subseteq req'[s].charged
  <2>1. req'[r].charged = req[r].charged \cup RedisCharge(r) /\ AllGood'
        /\ \A s \in Requests \ {r} : req'[s] = req[s]
    BY MovesKeep DEF ScriptRuns
  <2> QED
    BY <2>1
<1>3. \A c \in req[r].charged : ~(c.key = k /\ c.store = "redis")
  <2>1. Waiting(req[r]) /\ req[r].pc = "sent"
    BY DEF ScriptRuns, AllGood, Good
  <2> QED
    BY <2>1 DEF Waiting
<1>4. \A e \in zset[k] : \E c \in req[e.id].charged : c.key = k /\ c.store = "redis" /\ c.at = e.at
  BY <1>1 DEF Books, FromCharges
<1>5. zset[k] \in SUBSET Entry /\ \A e \in zset[k] : e.at \in Nat
  BY <1>1, Times DEF TypeOK
<1> DEFINE E1 == {e \in Kept(k, a) : e.at >= a - SoftWindow}
           E2 == Kept(k, a)
<1>6. Full(Cardinality(E1), Limit[k[1]].soft) \/ Full(Cardinality(E2), Limit[k[1]].hard)
  BY DEF ScriptAllows, Exceeds, SoftCount
<1>7. E2 \subseteq zset[k] /\ E1 \subseteq zset[k]
  BY DEF Kept
<1>8. (\A e \in E1 : a - SoftWindow <= e.at) /\ a - SoftWindow \in Int
  BY <1>1, <1>5, <1>7
<1>9. (\A e \in E2 : a - HardWindow + 1 <= e.at) /\ a - HardWindow + 1 \in Int
  BY <1>1, <1>5, <1>7 DEF Kept
<1> HIDE DEF E1, E2, k, a
<1>10. CASE Full(Cardinality(E1), Limit[k[1]].soft)
  <2>1. E1 \in SUBSET Entry /\
        \A e \in E1 : \E c \in req[e.id].charged : c.key = k /\ c.store = "redis" /\ c.at = e.at
    BY <1>4, <1>5, <1>7
  <2>2. Limit[k[1]].soft \in 1..Between(Others(req', k, r, "redis"), a - SoftWindow, MaxClock)
    BY <1>1, <1>2, <1>3, <1>8, <1>10, <2>1, Counted
  <2> QED
    BY <2>2 DEF Cause, k, a
<1>11. CASE Full(Cardinality(E2), Limit[k[1]].hard)
  <2>1. E2 \in SUBSET Entry /\
        \A e \in E2 : \E c \in req[e.id].charged : c.key = k /\ c.store = "redis" /\ c.at = e.at
    BY <1>4, <1>5, <1>7
  <2>2. Limit[k[1]].hard \in 1..Between(Others(req', k, r, "redis"), a - HardWindow + 1, MaxClock)
    BY <1>1, <1>2, <1>3, <1>9, <1>11, <2>1, Counted
  <2> QED
    BY <2>2 DEF Cause, k, a
<1> QED
  BY <1>6, <1>10, <1>11

\* The fallback refuses, for what it holds of others.
LEMMA FallbackCause ==
    ASSUME TypeOK, AllGood, Books, NEW r \in Requests, NEW q, FallsBack(r, q),
           ~MemoryAllows(req[r].key)
    PROVE  Cause(req', req[r].key, clock, r)
<1> DEFINE k == req[r].key
<1>1. k \in Keys /\ clock \in Nat /\ SoftWindow \in Nat /\ HardWindow \in Nat
      /\ Limit[k[1]].soft \in Nat /\ Limit[k[1]].hard \in Nat
  BY Times, LimitsNat DEF FallsBack
<1>2. AllGood' /\ \A s \in Requests : req[s].charged \subseteq req'[s].charged
  <2>1. req[r].charged \subseteq req'[r].charged /\ AllGood'
        /\ \A s \in Requests \ {r} : req'[s] = req[s]
    BY MovesKeep DEF FallsBack
  <2> QED
    BY <2>1
<1>3. \A c \in req[r].charged : ~(c.key = k /\ c.store = "memory")
  <2>1. Waiting(req[r])
    BY DEF FallsBack, AllGood, Good
  <2> QED
    BY <2>1 DEF Waiting
<1>4. \A e \in memory[k] : \E c \in req[e.id].charged : c.key = k /\ c.store = "memory" /\ c.at = e.at
  BY <1>1 DEF Books, FromCharges
<1>5. memory[k] \in SUBSET Entry /\ \A e \in memory[k] : e.at \in Nat
  BY <1>1, Times DEF TypeOK
<1> DEFINE E1 == {e \in InMemory(k) : e.at > clock - SoftWindow}
           E2 == InMemory(k)
<1>6. Full(Cardinality(E1), Limit[k[1]].soft) \/ Full(Cardinality(E2), Limit[k[1]].hard)
  BY DEF MemoryAllows, Exceeds
<1>7. E2 \subseteq memory[k] /\ E1 \subseteq memory[k]
  BY DEF InMemory
<1>8. (\A e \in E1 : clock - SoftWindow <= e.at) /\ clock - SoftWindow \in Int
  BY <1>1, <1>5, <1>7
<1>9. (\A e \in E2 : clock - HardWindow + 1 <= e.at) /\ clock - HardWindow + 1 \in Int
  BY <1>1, <1>5, <1>7 DEF InMemory
<1> HIDE DEF E1, E2, k
<1>10. CASE Full(Cardinality(E1), Limit[k[1]].soft)
  <2>1. E1 \in SUBSET Entry /\
        \A e \in E1 : \E c \in req[e.id].charged : c.key = k /\ c.store = "memory" /\ c.at = e.at
    BY <1>4, <1>5, <1>7
  <2>2. Limit[k[1]].soft \in 1..Between(Others(req', k, r, "memory"), clock - SoftWindow, MaxClock)
    BY <1>1, <1>2, <1>3, <1>8, <1>10, <2>1, Counted
  <2> QED
    BY <2>2 DEF Cause, k
<1>11. CASE Full(Cardinality(E2), Limit[k[1]].hard)
  <2>1. E2 \in SUBSET Entry /\
        \A e \in E2 : \E c \in req[e.id].charged : c.key = k /\ c.store = "memory" /\ c.at = e.at
    BY <1>4, <1>5, <1>7
  <2>2. Limit[k[1]].hard \in 1..Between(Others(req', k, r, "memory"), clock - HardWindow + 1, MaxClock)
    BY <1>1, <1>2, <1>3, <1>9, <1>11, <2>1, Counted
  <2> QED
    BY <2>2 DEF Cause, k
<1> QED
  BY <1>6, <1>10, <1>11

\* A step that refuses nobody else keeps the causes of the refused.
LEMMA CausesStay ==
    ASSUME RefusedForCause, AllGood', \A s \in Requests : req[s].charged \subseteq req'[s].charged,
           \A r \in Requests : req'[r].pc = "refused" /\ req'[r].key # None =>
             \/ req'[r] = req[r]
             \/ Cause(req', req'[r].key, req'[r].at, r)
    PROVE  RefusedForCause'
<1>1. \A s \in Requests : Good(req'[s])
  BY DEF AllGood
<1>2. ASSUME NEW r \in Requests, req'[r].pc = "refused", req'[r].key # None
      PROVE  Cause(req', req'[r].key, req'[r].at, r)
  <2>1. CASE req'[r] = req[r]
    <3>1. Cause(req, req[r].key, req[r].at, r)
      BY <1>2, <2>1, Causes
    <3> QED
      BY <1>1, <2>1, <3>1, CauseStays
  <2> QED
    BY <1>2, <2>1
<1> QED
  BY <1>2, Causes

-----------------------------------------------------------------------------
(* The invariant *)

Tally == Books /\ RedisWindow /\ MemoryWindow /\ AuthBurst /\ RefusedForCause

\* A step that charges nobody, starts no new life, and neither passes nor refuses.
LEMMA QuietStep ==
    ASSUME TypeOK, AllGood, Tally, AllGood',
           \A r \in Requests : /\ req'[r].charged = req[r].charged
                               /\ req'[r] = req[r] \/ req'[r].pc \notin {"passed", "refused"},
           UNCHANGED <<life, zset, memory, auth, newest>>, clock' = clock \/ clock' = clock + 1
    PROVE  Tally'
<1>1. clock' \in Nat /\ clock <= clock'
  BY Times
<1>2. Books'
  BY <1>1, QuietBooks DEF Tally
<1>3. RedisWindow' /\ MemoryWindow'
  BY QuietWindows DEF Tally
<1>4. AuthBurst'
  BY QuietBurst DEF Tally
<1>5. RefusedForCause'
  BY CausesStay DEF Tally
<1> QED
  BY <1>2, <1>3, <1>4, <1>5 DEF Tally

LEMMA ScriptStep ==
    ASSUME TypeOK, AllGood, Tally, NEW r \in Requests, NEW q, ScriptRuns(r, q)
    PROVE  Tally'
<1>1. /\ req'[r] = q /\ AllGood' /\ \A s \in Requests \ {r} : req'[s] = req[s]
      /\ q.charged = req[r].charged \cup RedisCharge(r) /\ q.endpoint = "tool" /\ life' = life
      /\ q.key = req[r].key /\ q.at = req[r].at
      /\ q.pc = "refused" => ~ScriptAllows(req[r].key, req[r].at)
  BY MovesKeep DEF ScriptRuns
<1>2. Charging(req, req', r, RedisCharge(r))
  BY <1>1 DEF Charging
<1>3. \A c \in RedisCharge(r) : c.store = "redis"
  BY DEF RedisCharge
<1>4. Books' /\ RedisWindow'
  BY ScriptBooks, ScriptWindow DEF Tally
<1>5. MemoryWindow'
  BY <1>1, <1>2, <1>3, MemoryKept DEF Tally
<1>6. AuthBurst'
  <2>1. \A s \in Requests : req'[s].pc = "passed" /\ req'[s].endpoint \in AuthEndpoints => req'[s] = req[s]
    BY <1>1, RateAssumption
  <2> QED
    BY <2>1, QuietBurst DEF Tally
<1>7. RefusedForCause'
  <2>1. \A s \in Requests : req[s].charged \subseteq req'[s].charged
    BY <1>1
  <2>2. q.pc = "refused" => Cause(req', q.key, q.at, r)
    BY <1>1, ScriptCause DEF Tally
  <2>3. \A s \in Requests : req'[s].pc = "refused" /\ req'[s].key # None =>
             req'[s] = req[s] \/ Cause(req', req'[s].key, req'[s].at, s)
    BY <1>1, <2>2
  <2> QED
    BY <1>1, <2>1, <2>3, CausesStay DEF Tally
<1> QED
  BY <1>4, <1>5, <1>6, <1>7 DEF Tally

LEMMA FallbackStep ==
    ASSUME TypeOK, AllGood, Tally, NEW r \in Requests, NEW q, FallsBack(r, q)
    PROVE  Tally'
<1> DEFINE N == IF MemoryAllows(req[r].key) THEN {MemoryOne(r)} ELSE {}
<1>1. /\ req'[r] = q /\ AllGood' /\ \A s \in Requests \ {r} : req'[s] = req[s]
      /\ q.charged = req[r].charged \cup N /\ q.endpoint = "tool"
      /\ q.key = req[r].key /\ q.at = clock
      /\ q.pc = "refused" => ~MemoryAllows(req[r].key)
  BY MovesKeep DEF FallsBack
<1>3. \A c \in N : c.store = "memory"
  BY DEF MemoryOne
<1> HIDE DEF N
<1>2. Charging(req, req', r, N)
  BY <1>1 DEF Charging
<1>4. Books' /\ MemoryWindow'
  BY FallbackBooks, FallbackWindow DEF Tally
<1>5. RedisWindow'
  BY <1>2, <1>3, RedisKept DEF Tally
<1>6. AuthBurst'
  <2>1. \A s \in Requests : req'[s].pc = "passed" /\ req'[s].endpoint \in AuthEndpoints => req'[s] = req[s]
    BY <1>1, RateAssumption
  <2> QED
    BY <2>1, QuietBurst DEF Tally
<1>7. RefusedForCause'
  <2>1. \A s \in Requests : req[s].charged \subseteq req'[s].charged
    BY <1>1
  <2>2. q.pc = "refused" => Cause(req', q.key, q.at, r)
    BY <1>1, FallbackCause DEF Tally
  <2>3. \A s \in Requests : req'[s].pc = "refused" /\ req'[s].key # None =>
             req'[s] = req[s] \/ Cause(req', req'[s].key, req'[s].at, s)
    BY <1>1, <2>2
  <2> QED
    BY <1>1, <2>1, <2>3, CausesStay DEF Tally
<1> QED
  BY <1>4, <1>5, <1>6, <1>7 DEF Tally

LEMMA AuthStep ==
    ASSUME TypeOK, AllGood, Tally, NEW r \in Requests, NEW name \in AuthEndpoints, NEW q,
           EntersAuth(r, name, q)
    PROVE  Tally'
<1>1. /\ req'[r] = q /\ AllGood' /\ \A s \in Requests \ {r} : req'[s] = req[s]
      /\ req[r].charged = {} /\ (q.charged = {AuthOne} \/ q.charged = {}) /\ q.key = None /\ life' = life
  BY MovesKeep DEF EntersAuth
<1>2. Charging(req, req', r, q.charged)
  BY <1>1 DEF Charging
<1>3. \A c \in q.charged : c.store = "memory" /\ c.key \notin Keys
  BY <1>1, KeyKinds DEF AuthOne
<1>4. Books' /\ AuthBurst'
  BY AuthBooks, AuthWindow DEF Tally
<1>5. RedisWindow'
  BY <1>2, <1>3, RedisKept DEF Tally
<1>6. MemoryWindow'
  BY <1>1, <1>2, <1>3, MemoryKept DEF Tally
<1>7. RefusedForCause'
  <2>1. \A s \in Requests : req[s].charged \subseteq req'[s].charged
    BY <1>1
  <2>3. \A s \in Requests : req'[s].pc = "refused" /\ req'[s].key # None => req'[s] = req[s]
    BY <1>1
  <2> QED
    BY <1>1, <2>1, <2>3, CausesStay DEF Tally
<1> QED
  BY <1>4, <1>5, <1>6, <1>7 DEF Tally

LEMMA RestartStep ==
    ASSUME TypeOK, AllGood, Tally, Restart
    PROVE  Tally'
<1>1. /\ AllGood' /\ life' = life + 1
      /\ \A r \in Requests : req'[r].charged = req[r].charged /\ (req'[r] = req[r] \/ req'[r].pc = "lost")
  BY RestartForgets DEF Restart
<1>2. Books'
  BY RestartBooks DEF Tally
<1>3. RedisWindow' /\ MemoryWindow'
  BY <1>1, QuietWindows DEF Tally
<1>4. AuthBurst'
  <2>1. \A s \in Requests : req'[s].pc = "passed" /\ req'[s].endpoint \in AuthEndpoints => req'[s] = req[s]
    BY <1>1
  <2> QED
    BY <2>1, QuietBurst DEF Tally
<1>5. RefusedForCause'
  <2>1. \A s \in Requests : req[s].charged \subseteq req'[s].charged
    BY <1>1
  <2>3. \A s \in Requests : req'[s].pc = "refused" /\ req'[s].key # None => req'[s] = req[s]
    BY <1>1
  <2> QED
    BY <1>1, <2>1, <2>3, CausesStay DEF Tally
<1> QED
  BY <1>2, <1>3, <1>4, <1>5 DEF Tally

LEMMA InitKept == Init => Tally
<1> SUFFICES ASSUME Init PROVE Tally
  OBVIOUS
<1>1. \A r \in Requests : req[r].charged = {} /\ req[r].pc = "idle"
  BY DEF Init, Idle
<1>2. Books
  BY <1>1 DEF Init, Books, InRedis, InProcess, FromCharges
<1>3. \A g : g \notin ChargesOf(req)
  BY <1>1, Charged
<1>4. RedisWindow
  <2>1. \A g \in RedisPart(req) : InLimits(RedisPart(req), g, SoftWindow, HardWindow - 1)
    BY <1>3 DEF RedisPart
  <2> QED
    BY <2>1, Within, Parts
<1>5. MemoryWindow
  <2>1. \A l : \A g \in MemoryPart(req, l) : InLimits(MemoryPart(req, l), g, SoftWindow - 1, HardWindow - 1)
    BY <1>3 DEF MemoryPart
  <2> QED
    BY <2>1, Within, Parts
<1>6. AuthBurst /\ RefusedForCause
  BY <1>1 DEF AuthBurst, RefusedForCause
<1> QED
  BY <1>2, <1>4, <1>5, <1>6 DEF Tally

\* The invariant holds, whatever the limits, the windows and the number of faults.
THEOREM Invariant == Spec => []IInv
<1>1. Init => IInv
  <2> SUFFICES ASSUME Init PROVE IInv
    OBVIOUS
  <2>1. TypeOK /\ AllGood /\ Lives
    BY CoreInductive
  <2>2. Tally
    BY InitKept
  <2> QED
    BY <2>1, <2>2 DEF IInv, Tally, WindowsHold
<1>2. IInv /\ [Next]_vars => IInv'
  <2> SUFFICES ASSUME IInv, [Next]_vars PROVE IInv'
    OBVIOUS
  <2>1. TypeOK /\ AllGood /\ Lives /\ Tally
    BY DEF IInv, Tally, WindowsHold
  <2>2. TypeOK' /\ AllGood' /\ Lives'
    BY <2>1, CoreInductive
  <2>3. ASSUME NEW r \in Requests, \/ \E c \in Callers : Arrive(r, c)
                                   \/ CheckAddress(r)
        PROVE  Tally'
    <3>1. PICK q : Moves(r, q) /\ q.charged = req[r].charged /\ q.pc \in {"sent", "ungated"}
      BY <2>1, <2>3, ArriveMoves, AddressMoves
    <3>2. req'[r] = q /\ \A s \in Requests \ {r} : req'[s] = req[s]
      BY <2>1, <3>1, MovesKeep
    <3>3. UNCHANGED <<clock, life, zset, memory, auth, newest>>
      BY <2>3 DEF Arrive, CheckAddress
    <3>4. \A s \in Requests : /\ req'[s].charged = req[s].charged
                              /\ req'[s] = req[s] \/ req'[s].pc \notin {"passed", "refused"}
      BY <3>1, <3>2
    <3> QED
      BY <2>1, <2>2, <3>3, <3>4, QuietStep
  <2>4. ASSUME NEW r \in Requests, Evaluate(r) \/ LoseReply(r) PROVE Tally'
    <3>1. PICK q : ScriptRuns(r, q)
      BY <2>1, <2>4, ScriptMoves
    <3> QED
      BY <2>1, <3>1, ScriptStep
  <2>5. ASSUME NEW r \in Requests, Fallback(r) PROVE Tally'
    <3>1. PICK q : FallsBack(r, q)
      BY <2>1, <2>5, FallbackMoves
    <3> QED
      BY <2>1, <3>1, FallbackStep
  <2>6. ASSUME NEW r \in Requests, NEW name \in AuthEndpoints, EnforceAuthLimit(r, name) PROVE Tally'
    <3>1. PICK q : EntersAuth(r, name, q)
      BY <2>1, <2>6, AuthMoves
    <3> QED
      BY <2>1, <3>1, AuthStep
  <2>7. ASSUME Tick \/ UNCHANGED vars PROVE Tally'
    <3>1. /\ UNCHANGED <<life, zset, memory, auth, newest, req>>
          /\ clock' = clock \/ clock' = clock + 1
      BY <2>7 DEF Tick, vars
    <3> QED
      BY <2>1, <2>2, <3>1, QuietStep
  <2>8. ASSUME Restart PROVE Tally'
    BY <2>1, <2>8, RestartStep
  <2>9. Tally'
    BY <2>3, <2>4, <2>5, <2>6, <2>7, <2>8 DEF Next
  <2> QED
    BY <2>2, <2>9 DEF IInv, Tally, WindowsHold
<1> QED
  BY <1>1, <1>2, PTL DEF Spec

\* Type correctness.
THEOREM LimiterTypeCorrect == Spec => []TypeOK
<1>1. IInv => TypeOK
  BY DEF IInv
<1> QED
  BY <1>1, Invariant, PTL

\* In every window, the script keeps the limits of a key however requests overtake
\* each other, the fallback keeps them within a life of the process, and the login
\* and the registration keep their maximum in the shorter of their windows.
THEOREM LimitsHold == Spec => []WindowsHold
<1>1. IInv => WindowsHold
  BY DEF IInv
<1> QED
  BY <1>1, Invariant, PTL

\* Nobody is refused without enough charges of other requests in the window.
THEOREM RefusalHasCause == Spec => []RefusedForCause
<1>1. IInv => RefusedForCause
  BY DEF IInv
<1> QED
  BY <1>1, Invariant, PTL

\* A tool request that passed was charged in every scope it has.
THEOREM ChargedInEveryScope == Spec => []PassedIsCharged
<1>1. IInv => PassedIsCharged
  BY DEF IInv, AllGood, Good, PassedIsCharged
<1> QED
  BY <1>1, Invariant, PTL

\* A refusal costs nothing in the store that refuses.
THEOREM RefusalIsFree == Spec => []RefusedKeepsQuota
<1>1. IInv => RefusedKeepsQuota
  BY DEF IInv, AllGood, Good, RefusedKeepsQuota
<1> QED
  BY <1>1, Invariant, PTL

=============================================================================
