----------------------------- MODULE ToolConfig -----------------------------
(***************************************************************************)
(* The configuration tables: tool modules, role permissions, rate-limit      *)
(* rows, settings and preferences; the administrator's edits of them, the    *)
(* seeding at start-up, and what reads them: the effective limits and the    *)
(* access check of a tool request, which inserts a permission it misses.     *)
(*                                                                          *)
(* Every handler selects rows in one step and commits in a later one, at     *)
(* READ COMMITTED: it updates the row it saw, when the new value differs,    *)
(* and inserts one when it saw none.  A key stands for a row of one table;   *)
(* rows of a key are numbered in the order of their insertion and are never  *)
(* deleted here.  Soft and hard limits are treated alike: one number.        *)
(***************************************************************************)
EXTENDS Integers, Sequences, FiniteSets

CONSTANTS
    Requests,       \* requests that may be in progress at once
    MaxOps,         \* bound on the requests begun
    MaxLimit,       \* bound on limits
    Batches,        \* the batches of limits sent in this instance
    MaxItems,       \* bound on the items of a batch that name one key
    MaxStarts       \* bound on the starts of the backend

\* One row of each table; the two limits are those of one role, for all tools and
\* for the one tool.  Only some tables have a unique constraint.
Keys == {"module", "permission", "global", "perTool", "setting", "preference"}
Unique == {"module", "permission", "setting"}
Limits == {"global", "perTool"}

\* What is seeded.
Default == [module |-> 1, permission |-> 1, global |-> 1]

Value == 0..MaxLimit

\* An item may leave the limit out.
Omitted == -1

\* What the items of one key give, in the order of the batch; a key may be named twice.
Items == UNION {[1..n -> Value \cup {Omitted}] : n \in 1..MaxItems}

ASSUME ConfigAssumption ==
    /\ IsFiniteSet(Requests) /\ Requests # {}
    /\ MaxLimit \in Nat \ {0} /\ MaxOps \in Nat /\ MaxStarts \in Nat \ {0}
    /\ MaxItems \in Nat \ {0}
    /\ Batches \subseteq UNION {[dom -> Items] : dom \in SUBSET Limits}

\* What a request writes, the items of each key it names, and what it has selected: the
\* row of each key, or none.
Change == UNION {[dom -> Items] : dom \in SUBSET Keys}
Selection == UNION {[dom -> {<<>>} \union [1..1 -> [id : Nat, value : Value]]] : dom \in SUBSET Keys}

VARIABLES
    rows,           \* the committed rows of each key, oldest first
    req,            \* the requests in progress
    ops, starts,    \* requests begun, starts of the backend
    witness         \* ghost: what a request has found in force since it began

vars == <<rows, req, ops, starts, witness>>

Idle == [pc |-> "idle", op |-> "select", new |-> <<>>, seen |-> <<>>]

TypeOK ==
    /\ rows \in [Keys -> Seq(Value)]
    /\ req \in [Requests -> [pc : {"idle", "read", "write", "insert", "holds", "run"},
                             op : {"limits", "select", "execute"},
                             new : Change, seen : Selection]]
    /\ ops \in 0..MaxOps /\ starts \in 1..MaxStarts
    /\ witness \in [Requests -> SUBSET {"module", "permission"}]

\* A former start may have failed to seed rows that are selected later on.
Init ==
    /\ \E missing \in SUBSET {"permission", "global"} :
         rows = [k \in Keys |-> IF k \in DOMAIN Default \ missing THEN <<Default[k]>> ELSE <<>>]
    /\ req = [r \in Requests |-> Idle]
    /\ ops = 0 /\ starts = 1
    /\ witness = [r \in Requests |-> {}]

\* Whatever a step does to the rows, the requests in progress have met them.
Witness ==
    witness' = [r \in Requests |->
                  IF req'[r].pc = "idle" THEN {}
                  ELSE witness[r] \union {k \in {"module", "permission"} : rows'[k] = <<1>>}]

Begin(r, op, new) ==
    /\ req[r].pc = "idle" /\ ops < MaxOps
    /\ ops' = ops + 1
    /\ req' = [req EXCEPT ![r] = [pc |-> "read", op |-> op, new |-> new, seen |-> <<>>]]
    /\ UNCHANGED <<rows, starts>> /\ Witness

Goto(r, pc, seen) ==
    /\ req' = [req EXCEPT ![r].pc = pc, ![r].seen = seen]
    /\ UNCHANGED <<rows, ops, starts>> /\ Witness

End(r) ==
    /\ req' = [req EXCEPT ![r] = Idle]
    /\ UNCHANGED <<rows, ops, starts>> /\ Witness

(***************************************************************************)
(* The requests: a matrix of limits; a preference, a module setting; a       *)
(* module switched on or off, a permission granted or taken; an execution.   *)
(***************************************************************************)
UpdateRateLimits(r) == \E new \in Batches : Begin(r, "limits", new)

\* One item, of one key.
OneItem(key, v) == [k \in {key} |-> <<v>>]

SetPreferences(r) == \E v \in {0, 1} : Begin(r, "select", OneItem("preference", v))

\* Two endpoints each: that of the settings takes those of a module too, and a
\* module is switched as a tool or as a module.
UpdateSettings(r) == \E v \in {0, 1} : Begin(r, "select", OneItem("setting", v))
UpdateModuleSettings(r) == UpdateSettings(r)
UpdateTool(r) == \E v \in {0, 1} : Begin(r, "select", OneItem("module", v))
UpdateModule(r) == UpdateTool(r)

UpdateRolePermissions(r) == \E v \in {0, 1} : Begin(r, "select", OneItem("permission", v))
ExecuteTool(r) == Begin(r, "execute", OneItem("permission", 1))

\* The last row of a key, as in existing_map, or none.
Last(k) ==
    IF rows[k] = <<>> THEN <<>>
    ELSE <<[id |-> Len(rows[k]), value |-> rows[k][Len(rows[k])]]>>

(***************************************************************************)
(* PUT /admin/rate-limits: the last item of a tool is compared with the last *)
(* global one of the batch or, when the batch has none, with the stored      *)
(* limit; a limit left out counts as 0.  A global limit is compared with     *)
(* nothing.                                                                  *)
(***************************************************************************)
Above(limit, bound) == bound > 0 /\ limit > bound

OrZero(v) == IF v = Omitted THEN 0 ELSE v

\* What the comparison takes for the limit of a key.
Compared(items) == OrZero(items[Len(items)])

\* mutant: the stored limit is not looked at
AcceptableInBatch(new) ==
    DOMAIN new = Limits => ~Above(Compared(new["perTool"]), Compared(new["global"]))

Acceptable(new) ==
    "perTool" \in DOMAIN new =>
      IF "global" \in DOMAIN new THEN ~Above(Compared(new["perTool"]), Compared(new["global"]))
      ELSE Last("global") # <<>> => ~Above(Compared(new["perTool"]), Last("global")[1].value)

ReadLimits(r) ==
    /\ req[r].pc = "read" /\ req[r].op = "limits"
    /\ IF Acceptable(req[r].new) THEN Goto(r, "write", [k \in Limits |-> Last(k)]) ELSE End(r)

(***************************************************************************)
(* The others select one row: two raise; a permission or a module that is    *)
(* not there is passed over, a preference or a setting inserted.             *)
(***************************************************************************)
SelectRow(r) ==
    LET k == CHOOSE x \in DOMAIN req[r].new : TRUE IN
    /\ req[r].pc = "read" /\ req[r].op = "select"
    /\ IF Len(rows[k]) > 1 \/ (rows[k] = <<>> /\ k \in {"module", "permission"})
       THEN End(r) ELSE Goto(r, "write", [x \in {k} |-> Last(k)])

\* The last item that gives a limit, if there is one.
LastGiven(items) ==
    {i \in DOMAIN items : items[i] # Omitted /\ \A j \in DOMAIN items : j > i => items[j] = Omitted}

Changes(items, v) == LastGiven(items) # {} /\ \E i \in DOMAIN items : items[i] \notin {Omitted, v}

\* mutant: the handler inserts whatever it saw
Appended(k, seen, items) == rows[k] \o [i \in DOMAIN items |-> OrZero(items[i])]

\* The rows of k when a handler that saw `seen` writes its items one after another: none
\* of them finds what the others insert.
Written(k, seen, items) ==
    IF seen = <<>> THEN rows[k] \o [i \in DOMAIN items |-> OrZero(items[i])]
    ELSE IF Changes(items, seen[1].value)
         THEN [rows[k] EXCEPT ![seen[1].id] = items[CHOOSE i \in LastGiven(items) : TRUE]]
         ELSE rows[k]

\* An INSERT meets a row of a unique key that was committed since the SELECT.
Conflict(q) ==
    \E k \in DOMAIN q.new \intersect Unique : q.seen[k] = <<>> /\ rows[k] # <<>>

Commit(r) ==
    LET q == req[r] IN
    /\ q.pc = "write" /\ ~Conflict(q)
    /\ rows' = [k \in Keys |-> IF k \in DOMAIN q.new THEN Written(k, q.seen[k], q.new[k])
                               ELSE rows[k]]
    /\ req' = [req EXCEPT ![r] = Idle]
    /\ UNCHANGED <<ops, starts>> /\ Witness

Refused(r) == req[r].pc = "write" /\ Conflict(req[r]) /\ End(r)

(***************************************************************************)
(* _check_tool_access and the execution it admits.  A missing permission is  *)
(* inserted as allowed and committed when the request ends, that is after    *)
(* the tool has run; until then another INSERT of it waits.  The two selects *)
(* are one step.                                                             *)
(***************************************************************************)
\* mutant: the module may be off
DeniedToRole == rows["permission"] = <<0>>

Denied == rows["module"] # <<1>> \/ rows["permission"] = <<0>>

CheckToolAccess(r) ==
    /\ req[r].pc = "read" /\ req[r].op = "execute"
    /\ IF Denied THEN End(r)
       ELSE Goto(r, IF rows["permission"] = <<>> THEN "insert" ELSE "run", <<>>)

InsertPermission(r) ==
    /\ req[r].pc = "insert" /\ rows["permission"] = <<>>
    /\ ~\E q \in Requests : req[q].pc = "holds"
    /\ Goto(r, "holds", <<>>)

\* mutant: the insert is tried again
InsertedAgain(r) == Goto(r, "insert", <<>>)

\* The insert fails on the constraint: rolled back, and the row is selected again.
Reselected(r) == IF rows["permission"] = <<1>> THEN Goto(r, "run", <<>>) ELSE End(r)

InsertFails(r) == req[r].pc = "insert" /\ rows["permission"] # <<>> /\ Reselected(r)

Finish(r) ==
    /\ req[r].pc \in {"run", "holds"}
    /\ rows' = IF req[r].pc = "holds" THEN [rows EXCEPT !["permission"] = Append(@, 1)] ELSE rows
    /\ req' = [req EXCEPT ![r] = Idle]
    /\ UNCHANGED <<ops, starts>> /\ Witness

\* A statement, the tool or the commit fails: everything is rolled back.
Abort(r) == req[r].pc # "idle" /\ End(r)

(***************************************************************************)
(* The start of the backend inserts what is missing, all or nothing; two     *)
(* global rows of a role make it give up.                                    *)
(***************************************************************************)
\* mutant: the defaults are written over what is there
SeededAnew(k) == IF k \in DOMAIN Default THEN <<Default[k]>> ELSE rows[k]

Seeded(k) == IF k \in DOMAIN Default /\ rows[k] = <<>> THEN <<Default[k]>> ELSE rows[k]

Restart ==
    /\ starts < MaxStarts
    /\ starts' = starts + 1
    /\ req' = [r \in Requests |-> Idle]
    /\ \/ rows' = rows
       \/ Len(rows["global"]) <= 1 /\ rows' = [k \in Keys |-> Seeded(k)]
    /\ UNCHANGED ops /\ Witness

Progress(r) ==
    \/ ReadLimits(r) \/ SelectRow(r) \/ Commit(r) \/ Refused(r)
    \/ CheckToolAccess(r) \/ InsertPermission(r) \/ InsertFails(r) \/ Finish(r)

Next ==
    \/ \E r \in Requests :
         \/ UpdateRateLimits(r) \/ SetPreferences(r)
         \/ UpdateSettings(r) \/ UpdateModuleSettings(r)
         \/ UpdateTool(r) \/ UpdateModule(r) \/ UpdateRolePermissions(r) \/ ExecuteTool(r)
         \/ Progress(r) \/ Abort(r)
    \/ Restart

\* A request goes on: the database answers, and a tool has a time limit.
Spec == Init /\ [][Next]_vars /\ \A r \in Requests : WF_vars(Progress(r))

(***************************************************************************)
(* What the limits mean                                                     *)
(***************************************************************************)
\* mutant: 0 is a limit like any other
Smaller(a, b) == IF a <= b THEN a ELSE b

Effective(a, b) == IF a = 0 THEN b ELSE IF b = 0 THEN a ELSE IF a <= b THEN a ELSE b

\* get_effective_limits raises on two rows of a kind.
Readable == \A k \in Limits : Len(rows[k]) <= 1

\* Without a global row the role's entry of DEFAULT_LIMITS counts, which is what is seeded.
GlobalLimit == IF rows["global"] = <<>> THEN Default["global"] ELSE rows["global"][1]
PerToolLimit == IF rows["perTool"] = <<>> THEN 0 ELSE rows["perTool"][1]

EffectiveLimit == Effective(GlobalLimit, PerToolLimit)

(***************************************************************************)
(* Properties                                                               *)
(***************************************************************************)
\* A key with a constraint has one row.  One without has a row for each item of the
\* requests that overlapped the first insert, and never more: later ones find a row.
RowsBounded ==
    \A k \in Keys :
      Len(rows[k]) <= IF k \in Unique THEN 1
                      ELSE IF k \in Limits THEN MaxItems * Cardinality(Requests)
                      ELSE Cardinality(Requests)

\* A limit that is set, or is the default of a missing global row, is in force: the
\* effective limit is no looser than either of the two.
LimitInForce ==
    Readable => \A limit \in {GlobalLimit, PerToolLimit} : limit > 0 => EffectiveLimit \in 1..limit

Committing(r) == req[r].pc = "write" /\ req'[r].pc = "idle"

\* What limit is in force is changed by a batch of limits only: neither an execution
\* nor another edit touches it, nor does the start that inserts a missing global row.
ForceChangedByBatch ==
    [][Readable /\ Readable' /\ EffectiveLimit' # EffectiveLimit =>
         \E r \in Requests : Committing(r) /\ req[r].op = "limits"]_vars

\* A tool runs only for a request that has found its module on and its permission
\* granted, at the check or at the second look after a lost insert; the winner
\* of the insert grants the permission itself.
RunsPermitted ==
    \A r \in Requests :
      /\ req[r].pc = "run" => witness[r] = {"module", "permission"}
      /\ req[r].pc = "holds" => "module" \in witness[r]

\* What an administrator has switched off is switched on by an administrator only:
\* not by the self-healing insert, not by the seeding at the next start.
OffStaysOff ==
    [][\A k \in {"module", "permission"} :
         rows[k] = <<0>> /\ rows'[k] # <<0>> =>
           \E r \in Requests : Committing(r) /\ req[r].new = OneItem(k, 1)]_vars

Exceeds == Readable /\ Above(PerToolLimit, GlobalLimit)

\* The comparison keeps a per-tool limit from coming above the global one but in these
\* cases: the batch has a global limit only, which it lowers; an item it compared leaves
\* its limit out; a row has changed since it was compared; no global row is stored.
ExceedsUncompared ==
    [][~Exceeds /\ Exceeds' =>
         \E r \in Requests :
           LET q == req[r] IN
           /\ Committing(r) /\ q.op = "limits"
           /\ \/ "perTool" \notin DOMAIN q.new
              \/ \E k \in DOMAIN q.new : q.new[k][Len(q.new[k])] = Omitted
              \/ \E k \in Limits : q.seen[k] # Last(k)
              \/ "global" \notin DOMAIN q.new /\ rows["global"] = <<>>]_vars

\* Every request ends, those too that wait for another's insert to be committed.
RequestsEnd == \A r \in Requests : req[r].pc # "idle" ~> req[r].pc = "idle"
=============================================================================
