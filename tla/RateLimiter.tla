---------------------------- MODULE RateLimiter ----------------------------
(***************************************************************************)
(* The rate limiter: SlidingWindowRateLimiter over Redis with its           *)
(* in-memory fallback, the two scopes of a visitor, the two ways a tool      *)
(* request reaches it (RateLimitMiddleware over HTTP, tool_stream over a     *)
(* WebSocket), and the counters of the login and registration endpoints.     *)
(*                                                                          *)
(* Time is a clock of ticks.  A request takes its time stamp in one step     *)
(* and Redis evaluates the script in a later one: the await in between lets  *)
(* scripts run in another order than their stamps.  Limits do not change     *)
(* here; how they are stored and edited is module ToolConfig.  The EXPIRE    *)
(* of a key (twice the window) removes entries that count no more, and so    *)
(* does the removal of empty keys from the fallback: both are left out.      *)
(***************************************************************************)
EXTENDS Integers, FiniteSets

CONSTANTS
    Requests,       \* one model value per request of the behaviour
    Callers,        \* session cookies
    UserOf,         \* the user of a cookie, None for a visitor's
    Limit,          \* key type -> [soft, hard], 0 for no limit
    SoftWindow, HardWindow,     \* in ticks
    AuthLimit,      \* "login" and "register" -> [max, window]
    MaxClock,       \* bound on the clock
    MaxFaults,      \* bound on the calls Redis does not answer and the restarts
    None

Time == 0..MaxClock
Users == {UserOf[c] : c \in Callers} \ {None}
Keys == ({"session"} \X ({c \in Callers : UserOf[c] = None} \union {"unknown"})) \union
        ({"user"} \X Users) \union {<<"ip", "address">>}
AuthEndpoints == DOMAIN AuthLimit

\* A limit is a count, and the soft window is the shorter (1 s in 3600 s).
ASSUME RateAssumption ==
    /\ IsFiniteSet(Requests)
    /\ SoftWindow \in Nat /\ HardWindow \in Nat /\ SoftWindow < HardWindow
    /\ Limit \in [{"session", "user", "ip"} -> [soft : Nat, hard : Nat]]
    /\ \A n \in AuthEndpoints : AuthLimit[n] \in [max : Nat, window : Nat]
    /\ AuthEndpoints # {} /\ "tool" \notin AuthEndpoints
    /\ MaxClock \in Nat /\ MaxFaults \in Nat
    /\ None \notin Keys

Entry == [id : Requests, at : Time]
Charge == [key : Keys \union {<<"auth", "address">>}, at : Time, store : {"redis", "memory"},
           life : 1..MaxFaults + 1, late : BOOLEAN]

VARIABLES
    clock,
    life,           \* how many times the backend has been started
    faults,         \* calls Redis has not answered, and restarts
    zset,           \* Redis: the sorted set of each key
    memory,         \* _db_fallback
    auth,           \* _auth_counters["ip:address"]
    newest,         \* ghost: the latest stamp a key's script has seen
    req             \* the request as its coroutine sees it, and (ghost) its charges

vars == <<clock, life, faults, zset, memory, auth, newest, req>>

Idle == [pc |-> "idle", endpoint |-> "tool", user |-> None,
         key |-> None, at |-> 0, charged |-> {}]

TypeOK ==
    /\ clock \in Time /\ life \in 1..MaxFaults + 1 /\ faults \in 0..MaxFaults
    /\ zset \in [Keys -> SUBSET Entry]
    /\ memory \in [Keys -> SUBSET Entry]
    /\ auth \in SUBSET Entry
    /\ newest \in [Keys -> Time]
    /\ req \in [Requests ->
         [pc : {"idle", "sent", "raised", "address", "passed", "ungated", "refused", "lost"},
          endpoint : {"tool"} \union AuthEndpoints,
          user : Users \union {None},
          key : Keys \union {None}, at : Time, charged : SUBSET Charge]]

Init ==
    /\ clock = 0 /\ life = 1 /\ faults = 0
    /\ zset = [k \in Keys |-> {}]
    /\ memory = [k \in Keys |-> {}]
    /\ auth = {}
    /\ newest = [k \in Keys |-> 0]
    /\ req = [r \in Requests |-> Idle]

(***************************************************************************)
(* A request arrives: its caller is identified, the limits are read, and     *)
(* check() takes the time before it awaits Redis.  Each query may fail.      *)
(* RateLimitMiddleware runs outside SessionMiddleware, finds nothing on      *)
(* request.state and looks a signed-in user up itself; a request it cannot   *)
(* look up is a visitor's, one whose limits it cannot read passes.           *)
(* tool_stream closes the socket when any of its queries fails.  Either      *)
(* way such a request has nothing to do with the limiter ("ungated").        *)
(***************************************************************************)
Identified(r, user, key) ==
    req' = [req EXCEPT ![r] = [@ EXCEPT !.pc = "sent", !.user = user, !.key = key,
                                        !.at = clock]]

IdentifyHttp(r, c) ==
    \E user \in {UserOf[c], None} :
      Identified(r, user, IF user = None THEN <<"session", "unknown">> ELSE <<"user", user>>)

IdentifyWs(r, c) ==
    Identified(r, UserOf[c], IF UserOf[c] = None THEN <<"session", c>> ELSE <<"user", UserOf[c]>>)

Unreadable(r) == req' = [req EXCEPT ![r].pc = "ungated"]

Arrive(r, c) ==
    /\ req[r].pc = "idle"
    /\ IdentifyHttp(r, c) \/ IdentifyWs(r, c) \/ Unreadable(r)
    /\ UNCHANGED <<clock, life, faults, zset, memory, auth, newest>>

\* A visitor's session was allowed: the address is next, under its own limits
\* (or their defaults: a failure to read them is swallowed).
CheckAddress(r) ==
    /\ req[r].pc = "address"
    /\ req' = [req EXCEPT ![r] = [@ EXCEPT !.pc = "sent", !.key = <<"ip", "address">>,
                                           !.at = clock]]
    /\ UNCHANGED <<clock, life, faults, zset, memory, auth, newest>>

(***************************************************************************)
(* One check against one store                                              *)
(***************************************************************************)
\* mutant: the request about to be recorded is counted
FullEarly(count, limit) == limit > 0 /\ count + 1 >= limit

Full(count, limit) == limit > 0 /\ count >= limit

Exceeds(k, soft, hard) == Full(soft, Limit[k[1]].soft) \/ Full(hard, Limit[k[1]].hard)

\* mutant: a visitor's address is not checked
AfterSession(r, allowed) == IF allowed THEN "passed" ELSE "refused"

\* What follows an allowed or a refused check.
After(r, allowed) ==
    IF ~allowed THEN "refused"
    ELSE IF req[r].key[1] = "session" THEN "address" ELSE "passed"

\* LUA_RATE_LIMIT: prune, count, record unless a limit is reached.
Kept(k, at) == {e \in zset[k] : e.at > at - HardWindow}

\* mutant: the cutoff of the short window itself is left out
SoftCountOpen(k, at) == Cardinality({e \in Kept(k, at) : e.at > at - SoftWindow})

SoftCount(k, at) == Cardinality({e \in Kept(k, at) : e.at >= at - SoftWindow})
ScriptAllows(k, at) == ~Exceeds(k, SoftCount(k, at), Cardinality(Kept(k, at)))

Script(r, k, at) ==
    /\ zset' = [zset EXCEPT ![k] =
                  Kept(k, at) \union IF ScriptAllows(k, at) THEN {[id |-> r, at |-> at]} ELSE {}]
    /\ newest' = [newest EXCEPT ![k] = IF at > @ THEN at ELSE @]

RedisCharge(r) ==
    IF ScriptAllows(req[r].key, req[r].at)
    THEN {[key |-> req[r].key, at |-> req[r].at, store |-> "redis", life |-> life,
           late |-> req[r].at < newest[req[r].key]]}
    ELSE {}

Evaluate(r) ==
    /\ req[r].pc = "sent"
    /\ Script(r, req[r].key, req[r].at)
    /\ req' = [req EXCEPT ![r].pc = After(r, ScriptAllows(req[r].key, req[r].at)),
                          ![r].charged = @ \union RedisCharge(r)]
    /\ UNCHANGED <<clock, life, faults, memory, auth>>

\* Redis runs the script and the answer is lost: the caller sees an exception.
LoseReply(r) ==
    /\ req[r].pc = "sent" /\ faults < MaxFaults
    /\ Script(r, req[r].key, req[r].at)
    /\ req' = [req EXCEPT ![r].pc = "raised", ![r].charged = @ \union RedisCharge(r)]
    /\ faults' = faults + 1
    /\ UNCHANGED <<clock, life, memory, auth>>

\* _check_db: when Redis was not reached or its answer was lost.  No await inside,
\* and a time stamp of its own.
InMemory(k) == {e \in memory[k] : e.at > clock - HardWindow}
MemoryAllows(k) ==
    ~Exceeds(k, Cardinality({e \in InMemory(k) : e.at > clock - SoftWindow}),
             Cardinality(InMemory(k)))

\* mutant: a refused request is recorded
RecordedAlways(r, k) == {[id |-> r, at |-> clock]}

Recorded(r, k) == {e \in {[id |-> r, at |-> clock]} : MemoryAllows(k)}

Fallback(r) ==
    LET k == req[r].key IN
    /\ \/ req[r].pc = "raised" /\ UNCHANGED faults
       \/ req[r].pc = "sent" /\ faults < MaxFaults /\ faults' = faults + 1
    /\ memory' = [memory EXCEPT ![k] = InMemory(k) \union Recorded(r, k)]
    /\ req' = [req EXCEPT ![r].pc = After(r, MemoryAllows(k)),
                          ![r].at = clock,
                          ![r].charged = @ \union
                             {[key |-> k, at |-> clock, store |-> "memory", life |-> life,
                               late |-> FALSE] : e \in Recorded(r, k)}]
    /\ UNCHANGED <<clock, life, zset, auth, newest>>

(***************************************************************************)
(* POST /auth/login and /auth/register: one list of time stamps per          *)
(* address, pruned with the window of whichever endpoint is called.          *)
(***************************************************************************)
PrunedAuth(name) == {e \in auth : e.at > clock - AuthLimit[name].window}

EnforceAuthLimit(r, name) ==
    /\ req[r].pc = "idle"
    /\ IF Cardinality(PrunedAuth(name)) < AuthLimit[name].max
       THEN /\ auth' = PrunedAuth(name) \union {[id |-> r, at |-> clock]}
            /\ req' = [req EXCEPT ![r] =
                         [@ EXCEPT !.pc = "passed", !.endpoint = name,
                                   !.charged = {[key |-> <<"auth", "address">>, at |-> clock, store |-> "memory",
                                                 life |-> life, late |-> FALSE]}]]
       ELSE /\ auth' = PrunedAuth(name)
            /\ req' = [req EXCEPT ![r] = [@ EXCEPT !.pc = "refused", !.endpoint = name]]
    /\ UNCHANGED <<clock, life, faults, zset, memory, newest>>

(***************************************************************************)
(* The environment                                                          *)
(***************************************************************************)
Tick ==
    /\ clock < MaxClock
    /\ clock' = clock + 1
    /\ UNCHANGED <<life, faults, zset, memory, auth, newest, req>>

\* The backend is restarted: what it kept in memory and its requests are gone.
Restart ==
    /\ faults < MaxFaults /\ faults' = faults + 1
    /\ life' = life + 1
    /\ memory' = [k \in Keys |-> {}]
    /\ auth' = {}
    /\ req' = [r \in Requests |-> IF req[r].pc \in {"sent", "raised", "address"}
                                  THEN [req[r] EXCEPT !.pc = "lost"] ELSE req[r]]
    /\ UNCHANGED <<clock, zset, newest>>

Next ==
    \/ \E r \in Requests :
         \/ \E c \in Callers : Arrive(r, c)
         \/ CheckAddress(r) \/ Evaluate(r) \/ LoseReply(r) \/ Fallback(r)
         \/ \E name \in AuthEndpoints : EnforceAuthLimit(r, name)
    \/ Tick \/ Restart

Spec == Init /\ [][Next]_vars

(***************************************************************************)
(* Properties                                                               *)
(***************************************************************************)
Charges == UNION {{[id |-> r, charge |-> c] : c \in req[r].charged} : r \in Requests}

Between(C, first, last) == Cardinality({g \in C : first <= g.charge.at /\ g.charge.at <= last})

Over(count, limit) == limit > 0 /\ count > limit

\* Up to each charge of C no more of its key than its limits, within the last `soft`
\* and the last `hard` ticks.
WithinLimits(C, soft, hard) ==
    \A g \in C :
      LET same == {h \in C : h.charge.key = g.charge.key}
          last(width) == Between(same, g.charge.at - width, g.charge.at)
          limit == Limit[g.charge.key[1]] IN
      ~Over(last(soft), limit.soft) /\ ~Over(last(hard), limit.hard)

\* Redis never records more than the limit in a window, however requests
\* interleave, but for requests whose script runs after that of a later stamp:
\* the later one has pruned entries which the earlier one should have counted.
RedisWindow ==
    WithinLimits({g \in Charges : g.charge.store = "redis" /\ ~g.charge.late},
                 SoftWindow, HardWindow - 1)

\* The fallback is exact, but only for as long as the process lives: each
\* life, and Redis beside it, gives a caller a window of its own.
MemoryWindow ==
    \A l \in 1..life :
      WithinLimits({g \in Charges : /\ g.charge.store = "memory" /\ g.charge.life = l
                                    /\ g.charge.key \in Keys},
                   SoftWindow - 1, HardWindow - 1)

\* A tool request that passed through the limiter is charged in every scope it
\* has: a signed-in user's to the user, a visitor's to a session and the address.
PassedIsCharged ==
    \A r \in Requests :
      req[r].pc = "passed" /\ req[r].endpoint = "tool" =>
        (IF req[r].user = None THEN {"session", "ip"} ELSE {"user"})
          \subseteq {c.key[1] : c \in req[r].charged}

\* Nobody is refused who is below the limits: when a check refuses, one of the
\* stores holds enough charges of other requests in the window before it.
RefusedForCause ==
    \A r \in Requests :
      req[r].pc = "refused" /\ req[r].key # None =>
        \E store \in {"redis", "memory"} :
          LET C == {g \in Charges : /\ g.charge.key = req[r].key
                                    /\ g.charge.store = store /\ g.id # r}
              limit == Limit[req[r].key[1]] IN
          \/ limit.hard \in 1..Between(C, req[r].at - HardWindow + 1, MaxClock)
          \/ limit.soft \in 1..Between(C, req[r].at - SoftWindow, MaxClock)

\* A refusal costs nothing in the store that refuses.  What a refused request has
\* been charged is the session of a visitor whose address was then full, and in
\* Redis the key whose answer was lost before the fallback refused.
RefusedKeepsQuota ==
    \A r \in Requests :
      req[r].pc = "refused" =>
        \A c \in req[r].charged :
          \/ c.key[1] = "session" /\ req[r].key[1] = "ip"
          \/ c.key = req[r].key /\ c.store = "redis"

ShortestWindow == CHOOSE w \in {AuthLimit[n].window : n \in AuthEndpoints} :
                    \A n \in AuthEndpoints : w <= AuthLimit[n].window

\* Those of the same endpoint and life that passed shortly before r, and r.
AuthPassesUpTo(r) ==
    {q \in Requests :
       /\ req[q].pc = "passed" /\ req[q].endpoint = req[r].endpoint
       /\ \E c \in req[r].charged, d \in req[q].charged :
            c.life = d.life /\ d.at \in (c.at - ShortestWindow + 1)..c.at}

\* Both endpoints keep their maximum within the shorter of the two windows; not
\* within their own, since a login prunes the registrations of its address.
AuthBurst ==
    \A r \in Requests :
      req[r].pc = "passed" /\ req[r].endpoint \in AuthEndpoints =>
        Cardinality(AuthPassesUpTo(r)) <= AuthLimit[req[r].endpoint].max

\* No counter lets more than its limit pass in a window, whatever the order in which
\* requests, answers, failures and restarts come.
WindowsHold == RedisWindow /\ MemoryWindow /\ AuthBurst
=============================================================================
