---------------------------- MODULE ToolConfigProofs ----------------------------
(***************************************************************************)
(* Proofs about ToolConfig, for any number of requests and any limits.       *)
(*                                                                          *)
(* IInv says what a request knows while others commit: what it selected is    *)
(* still there, since rows only grow (Grown); a switch it will change was a  *)
(* row; a batch of limits was compared with what it selected (Checked); a    *)
(* tool that runs has found what it needs (Admitted).  One request at most   *)
(* holds the insert of a permission, and nobody else can write it meanwhile. *)
(* Room counts the rows of a key and those about to insert one.              *)
(***************************************************************************)
EXTENDS ToolConfig, FiniteSetTheorems, SequenceTheorems, TLAPS

Switches == {"module", "permission"}

\* A table with a constraint has at most one row of a key, and it is a switch.
Single == \A k \in Unique : rows[k] \in {<<>>, << 0 >>, << 1 >>}

\* What is asked for: limits, or one switch.
Wish(q) ==
    /\ q.op = "limits" => DOMAIN q.new \subseteq Limits
    /\ q.op = "select" => \E k \in Keys \ Limits, v \in {0, 1} : q.new = OneItem(k, v)

Checked(q) ==
    "perTool" \in DOMAIN q.new =>
      IF "global" \in DOMAIN q.new THEN ~Above(Compared(q.new["perTool"]), Compared(q.new["global"]))
      ELSE q.seen["global"] # <<>> => ~Above(Compared(q.new["perTool"]), q.seen["global"][1].value)

\* What was selected is still there, and a switch is only changed where it was.
Met(q) ==
    /\ q.op # "execute" /\ DOMAIN q.new \subseteq DOMAIN q.seen
    /\ \A k \in DOMAIN q.seen : q.seen[k] # <<>> => q.seen[k][1].id \in 1..Len(rows[k])
    /\ \A k \in DOMAIN q.new \intersect Switches : q.seen[k] # <<>>
    /\ q.op = "limits" => DOMAIN q.seen = Limits /\ Checked(q)

Admitted(r) ==
    /\ req[r].pc \in {"insert", "holds"} => "module" \in witness[r]
    /\ req[r].pc = "run" => witness[r] = Switches
    /\ req[r].pc = "holds" => rows["permission"] = <<>>

Sound(r) ==
    /\ req[r].pc \in {"read", "write"} => Wish(req[r])
    /\ req[r].pc = "write" => Met(req[r])
    /\ Admitted(r)

OneHolder == \A r, q \in Requests : req[r].pc = "holds" /\ req[q].pc = "holds" => r = q

IInv == TypeOK /\ Single /\ OneHolder /\ \A r \in Requests : Sound(r)

-----------------------------------------------------------------------------
(* Rows written *)

LEMMA Names ==
    /\ Keys = {"module", "permission", "global", "perTool", "setting", "preference"}
    /\ Switches \subseteq Unique /\ Unique \subseteq Keys /\ Limits \subseteq Keys
    /\ Unique \intersect Limits = {}
    /\ {0, 1} \subseteq Value
BY ConfigAssumption DEF Keys, Switches, Unique, Limits, Value

LEMMA SeenRow ==
    ASSUME TypeOK, NEW r \in Requests, NEW k \in DOMAIN req[r].seen
    PROVE  req[r].seen[k] = <<>> \/ req[r].seen[k][1] \in [id : Nat, value : Value]
BY DEF TypeOK, Selection

LEMMA NewValue ==
    ASSUME TypeOK, NEW r \in Requests, NEW k \in DOMAIN req[r].new
    PROVE  k \in Keys /\ req[r].new[k] \in Items
BY DEF TypeOK, Change

\* The items of a key are a sequence, not empty and no longer than the bound.
LEMMA ItemsAre ==
    ASSUME NEW items \in Items
    PROVE  /\ items \in Seq(Value \cup {Omitted})
           /\ Len(items) \in 1..MaxItems /\ DOMAIN items = 1..Len(items)
           /\ \A i \in DOMAIN items : items[i] \in Value \/ items[i] = Omitted
<1>1. PICK n \in 1..MaxItems : items \in [1..n -> Value \cup {Omitted}]
  BY DEF Items
<1>2. items \in Seq(Value \cup {Omitted})
  BY <1>1, ConfigAssumption
<1>3. Len(items) = n
  BY <1>1, <1>2, ConfigAssumption
<1> QED
  BY <1>1, <1>2, <1>3

LEMMA OneItemIs ==
    ASSUME NEW k \in Keys, NEW v \in {0, 1}
    PROVE  /\ <<v>> \in Items /\ OneItem(k, v) \in Change
           /\ DOMAIN OneItem(k, v) = {k} /\ OneItem(k, v)[k] = <<v>>
<1>1. v \in Value /\ 1 \in 1..MaxItems
  BY Names, ConfigAssumption
<1>2. <<v>> \in [1..1 -> Value \cup {Omitted}]
  BY <1>1
<1>3. <<v>> \in Items
  BY <1>1, <1>2 DEF Items
<1>4. OneItem(k, v) \in [{k} -> Items] /\ {k} \in SUBSET Keys
  BY <1>3 DEF OneItem
<1> QED
  BY <1>3, <1>4 DEF Change, OneItem

LEMMA LastRow ==
    ASSUME TypeOK, NEW k \in Keys
    PROVE  /\ Last(k) \in {<<>>} \union [1..1 -> [id : Nat, value : Value]]
           /\ Last(k) = <<>> <=> rows[k] = <<>>
           /\ Last(k) # <<>> => /\ Last(k)[1].id = Len(rows[k]) /\ Len(rows[k]) \in Nat \ {0}
                                /\ Last(k)[1].value = rows[k][Len(rows[k])]
<1>1. rows[k] \in Seq(Value)
  BY DEF TypeOK
<1>2. CASE rows[k] = <<>>
  BY <1>2 DEF Last
<1>3. CASE rows[k] # <<>>
  <2>1. Len(rows[k]) \in Nat \ {0} /\ rows[k][Len(rows[k])] \in Value
    BY <1>1, <1>3, EmptySeq, ElementOfSeq
  <2> DEFINE row == [id |-> Len(rows[k]), value |-> rows[k][Len(rows[k])]]
  <2>2. Last(k) = <<row>> /\ row \in [id : Nat, value : Value]
    BY <1>3, <2>1 DEF Last
  <2>3. Last(k)[1] = row /\ Last(k) # <<>>
    BY <2>2
  <2> HIDE DEF row
  <2>4. Last(k) \in [1..1 -> [id : Nat, value : Value]]
    BY <2>2
  <2> QED
    BY <1>3, <2>1, <2>3, <2>4 DEF row
<1> QED
  BY <1>2, <1>3

LEMMA Inserted ==
    ASSUME NEW items \in Items
    PROVE  /\ [i \in DOMAIN items |-> OrZero(items[i])] \in Seq(Value)
           /\ Len([i \in DOMAIN items |-> OrZero(items[i])]) = Len(items)
<1> DEFINE s == [i \in DOMAIN items |-> OrZero(items[i])]
<1>1. Len(items) \in Nat /\ DOMAIN items = 1..Len(items)
  BY ItemsAre, ConfigAssumption
<1>2. \A i \in DOMAIN items : OrZero(items[i]) \in Value
  BY ItemsAre, Names DEF OrZero
<1>3. s \in [1..Len(items) -> Value]
  BY <1>1, <1>2
<1> HIDE DEF s
<1>4. s \in Seq(Value) /\ Len(s) = Len(items)
  BY <1>1, <1>3
<1> QED
  BY <1>4 DEF s

\* Arithmetic on plain numbers, for the lengths below.
LEMMA Sole == \A n \in Nat \ {0} : n <= 1 => n = 1
  OBVIOUS

LEMMA NoShorter == \A a, b \in Nat : \A c : c = a \/ c = a + b => c \in Nat /\ a <= c
  OBVIOUS

LEMMA InRange == \A m \in Nat \ {0} : \A n \in 1..m : n \in Nat /\ n <= m
  OBVIOUS

LEMMA RoomLeft ==
    ASSUME NEW len \in Nat, NEW added \in Nat, NEW copies \in Nat, added <= copies,
           NEW before \in Nat, NEW after \in Nat, NEW room \in Nat,
           after <= before - copies, len + before <= room
    PROVE  len + added + after <= room
  OBVIOUS

LEMMA WrittenRows ==
    ASSUME NEW k \in Keys, rows[k] \in Seq(Value), NEW items \in Items, NEW seen,
           seen = <<>> \/ (seen[1].id \in 1..Len(rows[k]) /\ seen # <<>>)
    PROVE  /\ Written(k, seen, items) \in Seq(Value)
           /\ seen # <<>> => Len(Written(k, seen, items)) = Len(rows[k])
           /\ seen = <<>> => Len(Written(k, seen, items)) = Len(rows[k]) + Len(items)
           /\ \A v \in {0, 1} :
                rows[k] \in {<<>>, << 0 >>, << 1 >>} /\ items = <<v>> /\ (seen = <<>> => rows[k] = <<>>) =>
                  Written(k, seen, items) \in {rows[k], <<v>>}
<1>1. CASE seen = <<>>
  <2> DEFINE s == [i \in DOMAIN items |-> OrZero(items[i])]
  <2>1. Written(k, seen, items) = rows[k] \o s
    BY <1>1 DEF Written
  <2>2. s \in Seq(Value) /\ Len(s) = Len(items)
    BY Inserted
  <2>3. ASSUME NEW v \in {0, 1}, items = <<v>>, rows[k] = <<>> PROVE Written(k, seen, items) = <<v>>
    <3>1. DOMAIN items = {1} /\ OrZero(v) = v /\ items[1] = v
      BY <2>3 DEF OrZero, Omitted
    <3>2. Len(s) = 1 /\ s[1] = v
      BY <2>2, <2>3, <3>1
    <3> HIDE DEF s
    <3>3. s = <<v>>
      BY <2>2, <3>2
    <3>4. rows[k] \o s = s
      BY <2>2, <2>3, ConcatEmptySeq
    <3> QED
      BY <2>1, <3>3, <3>4
  <2> HIDE DEF s
  <2>4. rows[k] \o s \in Seq(Value) /\ Len(rows[k] \o s) = Len(rows[k]) + Len(items)
    <3>1. /\ rows[k] \o s \in Seq(Value)
          /\ Len(rows[k] \o s) = Len(rows[k]) + Len(s)
      BY <2>2, ConcatProperties, Zenon
    <3> QED
      BY <2>2, <3>1
  <2> QED
    BY <1>1, <2>1, <2>3, <2>4
<1>2. CASE seen # <<>> /\ Changes(items, seen[1].value)
  <2> DEFINE i == CHOOSE j \in LastGiven(items) : TRUE
  <2>1. i \in LastGiven(items)
    BY <1>2 DEF Changes
  <2>2. i \in DOMAIN items /\ items[i] \in Value
    BY <2>1, ItemsAre DEF LastGiven
  <2>3. Written(k, seen, items) = [rows[k] EXCEPT ![seen[1].id] = items[i]]
    BY <1>2 DEF Written
  <2> HIDE DEF i
  <2>4. /\ Written(k, seen, items) \in Seq(Value)
        /\ Len(Written(k, seen, items)) = Len(rows[k])
    BY <1>2, <2>2, <2>3, ExceptSeq
  <2>5. ASSUME NEW a, rows[k] = <<a>>, NEW v \in {0, 1}, items = <<v>>
        PROVE  Written(k, seen, items) = <<v>>
    <3>1. seen[1].id = 1 /\ i = 1 /\ items[i] = v
      BY <1>2, <2>2, <2>5
    <3> QED
      BY <2>3, <2>5, <3>1
  <2>6. rows[k] # <<>>
    BY <1>2
  <2> QED
    BY <1>2, <2>4, <2>5, <2>6
<1>3. CASE seen # <<>> /\ ~Changes(items, seen[1].value)
  BY <1>3 DEF Written
<1> QED
  BY <1>1, <1>2, <1>3
-----------------------------------------------------------------------------
(* What a step leaves of the others *)

\* No row is taken away, and what a request has found in force is not forgotten.
Grown == \A k \in Keys : Len(rows[k]) \in Nat /\ Len(rows'[k]) \in Nat /\ Len(rows[k]) <= Len(rows'[k])

LEMMA OthersSound ==
    ASSUME TypeOK, TypeOK', NEW r \in Requests, Sound(r), req'[r] = req[r], Witness, Grown,
           req[r].pc = "holds" => rows'["permission"] = <<>>
    PROVE  Sound(r)'
<1>1. req[r].pc # "idle" => witness[r] \subseteq witness'[r] /\ witness'[r] \subseteq Switches
  BY DEF Witness, TypeOK, Switches
<1>2. Admitted(r)'
  BY <1>1 DEF Sound, Admitted, TypeOK
<1>3. req[r].pc = "write" => Met(req[r])'
  <2> SUFFICES ASSUME req[r].pc = "write" PROVE Met(req[r])'
    OBVIOUS
  <2>1. Met(req[r])
    BY DEF Sound
  <2>2. ASSUME NEW k \in DOMAIN req[r].seen, req[r].seen[k] # <<>>
        PROVE  req[r].seen[k][1].id \in 1..Len(rows'[k])
    <3>1. k \in Keys /\ req[r].seen[k][1].id \in 1..Len(rows[k])
      BY <2>1, <2>2 DEF Met, TypeOK, Selection
    <3> QED
      BY <3>1 DEF Grown
  <2> QED
    BY <2>1, <2>2 DEF Met, Checked
<1> QED
  BY <1>2, <1>3 DEF Sound, Wish

LEMMA SameRowsGrow == ASSUME TypeOK, UNCHANGED rows PROVE Grown
<1> SUFFICES ASSUME NEW k \in Keys PROVE Len(rows[k]) \in Nat
  BY DEF Grown
<1>1. rows[k] \in Seq(Value)
  BY DEF TypeOK
<1> QED
  BY <1>1, EmptySeq

LEMMA WitnessType == ASSUME TypeOK, Witness PROVE witness' \in [Requests -> SUBSET {"module", "permission"}]
BY DEF TypeOK, Witness

LEMMA EmptyTypes == <<>> \in Change /\ <<>> \in Selection
<1>1. <<>> \in [{} -> Items] /\ <<>> \in [{} -> {<<>>} \union [1..1 -> [id : Nat, value : Value]]]
  OBVIOUS
<1>2. {} \in SUBSET Keys
  OBVIOUS
<1> QED
  BY <1>1, <1>2 DEF Change, Selection

\* A request that leaves everything alone but itself.
LEMMA OwnStepKeeps ==
    ASSUME IInv, NEW r \in Requests, NEW q, req' = [req EXCEPT ![r] = q], TypeOK',
           UNCHANGED rows, Witness, Sound(r)',
           q.pc = "holds" => \A p \in Requests : req[p].pc # "holds"
    PROVE  IInv'
<1>1. Grown
  BY SameRowsGrow DEF IInv
<1>2. req'[r] = q /\ \A p \in Requests \ {r} : req'[p] = req[p]
  BY DEF IInv, TypeOK
<1>3. \A p \in Requests : Sound(p)'
  <2> SUFFICES ASSUME NEW p \in Requests \ {r} PROVE Sound(p)'
    OBVIOUS
  <2>1. req[p].pc = "holds" => rows'["permission"] = <<>>
    BY DEF IInv, Sound, Admitted
  <2> QED
    BY <1>1, <1>2, <2>1, OthersSound DEF IInv
<1>4. OneHolder'
  BY <1>2 DEF IInv, OneHolder
<1> QED
  BY <1>3, <1>4 DEF IInv, Single

LEMMA EndKeeps == ASSUME IInv, NEW r \in Requests, End(r) PROVE IInv'
<1>1. TypeOK'
  BY WitnessType, EmptyTypes DEF End, Idle, IInv, TypeOK
<1>2. req'[r] = Idle
  BY DEF End, IInv, TypeOK
<1>3. Sound(r)'
  BY <1>2 DEF Sound, Admitted, Idle
<1> QED
  BY <1>1, <1>3, OwnStepKeeps DEF End, Idle

LEMMA BeginKeeps ==
    ASSUME IInv, NEW r \in Requests, NEW op \in {"limits", "select", "execute"}, NEW new \in Change,
           Begin(r, op, new),
           Wish([pc |-> "read", op |-> op, new |-> new, seen |-> <<>>])
    PROVE  IInv'
<1> DEFINE q == [pc |-> "read", op |-> op, new |-> new, seen |-> <<>>]
<1>1. ops' \in 0..MaxOps
  BY ConfigAssumption DEF Begin, IInv, TypeOK
<1>2. TypeOK'
  BY <1>1, WitnessType, EmptyTypes DEF Begin, IInv, TypeOK
<1>3. req'[r] = q /\ q.pc = "read"
  BY DEF Begin, IInv, TypeOK
<1>4. Sound(r)'
  BY <1>3 DEF Sound, Admitted, Wish
<1> QED
  BY <1>2, <1>3, <1>4, OwnStepKeeps DEF Begin

LEMMA GotoKeeps ==
    ASSUME IInv, NEW r \in Requests, NEW pc \in {"write", "insert", "holds", "run"}, NEW seen \in Selection,
           Goto(r, pc, seen),
           pc = "write" => /\ Wish(req[r])
                           /\ Met([pc |-> pc, op |-> req[r].op, new |-> req[r].new, seen |-> seen]),
           pc \in {"insert", "holds"} => rows["module"] = << 1 >> \/ "module" \in witness[r],
           pc = "holds" => rows["permission"] = <<>> /\ \A p \in Requests : req[p].pc # "holds",
           pc = "run" => rows["permission"] = << 1 >> /\ (rows["module"] = << 1 >> \/ "module" \in witness[r])
    PROVE  IInv'
<1> DEFINE q == [req[r] EXCEPT !.pc = pc, !.seen = seen]
<1>1. /\ q = [pc |-> pc, op |-> req[r].op, new |-> req[r].new, seen |-> seen]
      /\ req' = [req EXCEPT ![r] = q] /\ req'[r] = q
  <2>1. req[r] \in [pc : {"idle", "read", "write", "insert", "holds", "run"},
                   op : {"limits", "select", "execute"}, new : Change, seen : Selection]
    BY DEF IInv, TypeOK
  <2>2. q = [pc |-> pc, op |-> req[r].op, new |-> req[r].new, seen |-> seen]
    <3>1. q \in [pc : {pc}, op : {req[r].op}, new : {req[r].new}, seen : {seen}]
      BY <2>1
    <3> HIDE DEF q
    <3> QED
      BY <3>1
  <2>3. req' = [req EXCEPT ![r] = q]
    BY DEF Goto
  <2> HIDE DEF q
  <2>4. req'[r] = q
    BY <2>3 DEF IInv, TypeOK
  <2> QED
    BY <2>2, <2>3, <2>4
<1>2. TypeOK'
  <2>1. q \in [pc : {"idle", "read", "write", "insert", "holds", "run"},
               op : {"limits", "select", "execute"}, new : Change, seen : Selection]
    BY <1>1 DEF IInv, TypeOK
  <2> HIDE DEF q
  <2> QED
    BY <1>1, <2>1, WitnessType DEF Goto, IInv, TypeOK
<1>3. Sound(r)'
  <2>1. req'[r] = [pc |-> pc, op |-> req[r].op, new |-> req[r].new, seen |-> seen]
    BY <1>1
  <2>2. witness'[r] = witness[r] \union {k \in {"module", "permission"} : rows[k] = << 1 >>}
    BY <2>1 DEF Goto, Witness
  <2>3. Admitted(r)'
    BY <2>1, <2>2 DEF Admitted, Goto, Switches, IInv, TypeOK
  <2>4. pc = "write" => Wish(req[r])' /\ Met(req[r])'
    <3>1. /\ req'[r].op = req[r].op /\ req'[r].new = req[r].new /\ req'[r].seen = seen
          /\ UNCHANGED rows
      BY <2>1 DEF Goto
    <3>2. pc = "write" => Wish(req[r])'
      BY <3>1 DEF Wish
    <3>3. pc = "write" => Met(req[r])'
      BY <3>1 DEF Met, Checked
    <3> QED
      BY <3>2, <3>3
  <2> QED
    BY <2>1, <2>3, <2>4 DEF Sound
<1> QED
  BY <1>1, <1>2, <1>3, OwnStepKeeps DEF Goto

-----------------------------------------------------------------------------
(* The requests *)

LEMMA SwitchBegins ==
    ASSUME IInv, NEW r \in Requests, NEW k \in Keys \ Limits, NEW v \in {0, 1},
           Begin(r, "select", OneItem(k, v))
    PROVE  IInv'
<1>1. OneItem(k, v) \in Change
  BY OneItemIs
<1> QED
  BY <1>1, BeginKeeps DEF Wish

LEMMA RequestsBegin ==
    ASSUME IInv, NEW r \in Requests,
           \/ UpdateRateLimits(r) \/ SetPreferences(r)
           \/ UpdateSettings(r) \/ UpdateModuleSettings(r)
           \/ UpdateTool(r) \/ UpdateModule(r) \/ UpdateRolePermissions(r) \/ ExecuteTool(r)
    PROVE  IInv'
<1>1. {"module", "permission", "setting", "preference"} \subseteq Keys \ Limits
  BY DEF Keys, Limits
<1>2. CASE UpdateRateLimits(r)
  <2>1. PICK new \in Batches : Begin(r, "limits", new)
    BY <1>2 DEF UpdateRateLimits
  <2>2. PICK dom \in SUBSET Limits : new \in [dom -> Items]
    BY <2>1, ConfigAssumption
  <2>3. new \in Change /\ DOMAIN new \subseteq Limits
    BY <2>2, Names DEF Change
  <2> QED
    BY <2>1, <2>3, BeginKeeps DEF Wish
<1>3. CASE SetPreferences(r)
  BY <1>1, <1>3, SwitchBegins DEF SetPreferences
<1>4. CASE UpdateSettings(r) \/ UpdateModuleSettings(r)
  BY <1>1, <1>4, SwitchBegins DEF UpdateSettings, UpdateModuleSettings
<1>5. CASE UpdateTool(r) \/ UpdateModule(r)
  BY <1>1, <1>5, SwitchBegins DEF UpdateTool, UpdateModule
<1>6. CASE UpdateRolePermissions(r)
  BY <1>1, <1>6, SwitchBegins DEF UpdateRolePermissions
<1>7. CASE ExecuteTool(r)
  <2>1. OneItem("permission", 1) \in Change
    BY <1>1, OneItemIs
  <2> QED
    BY <1>7, <2>1, BeginKeeps DEF ExecuteTool, Wish
<1> QED
  BY <1>2, <1>3, <1>4, <1>5, <1>6, <1>7

LEMMA Selected ==
    ASSUME TypeOK, NEW dom \in SUBSET Keys
    PROVE  [k \in dom |-> Last(k)] \in Selection
<1>1. \A k \in dom : Last(k) \in {<<>>} \union [1..1 -> [id : Nat, value : Value]]
  BY LastRow
<1>2. [k \in dom |-> Last(k)] \in [dom -> {<<>>} \union [1..1 -> [id : Nat, value : Value]]]
  BY <1>1
<1> QED
  BY <1>2 DEF Selection

LEMMA ReadLimitsKeeps == ASSUME IInv, NEW r \in Requests, ReadLimits(r) PROVE IInv'
<1>1. CASE ~Acceptable(req[r].new)
  BY <1>1, EndKeeps DEF ReadLimits
<1>2. CASE Acceptable(req[r].new)
  <2> DEFINE seen == [k \in Limits |-> Last(k)]
             q == [pc |-> "write", op |-> req[r].op, new |-> req[r].new, seen |-> seen]
  <2>1. Goto(r, "write", seen) /\ req[r].op = "limits" /\ req[r].pc = "read"
    BY <1>2 DEF ReadLimits
  <2>2. seen \in Selection
    BY Selected, Names DEF IInv
  <2>3. Wish(req[r]) /\ DOMAIN req[r].new \subseteq Limits
    BY <2>1 DEF IInv, Sound, Wish
  <2>4. \A k \in Limits : k \in Keys /\ (Last(k) # <<>> => Last(k)[1].id \in 1..Len(rows[k]))
    BY LastRow, Names DEF IInv
  <2>5. "global" \in Limits /\ Limits \intersect Switches = {}
    BY DEF Limits, Switches
  <2>6. Checked(q)
    <3>1. q.new = req[r].new /\ q.seen["global"] = Last("global")
      BY <2>5
    <3> QED
      BY <1>2, <3>1 DEF Checked, Acceptable
  <2>7. Met(q)
    BY <2>1, <2>3, <2>4, <2>5, <2>6 DEF Met
  <2> QED
    BY <2>1, <2>2, <2>3, <2>7, GotoKeeps
<1> QED
  BY <1>1, <1>2

LEMMA SelectRowKeeps == ASSUME IInv, NEW r \in Requests, SelectRow(r) PROVE IInv'
<1>1. req[r].pc = "read" /\ req[r].op = "select"
  BY DEF SelectRow
<1>2. PICK k \in Keys \ Limits : DOMAIN req[r].new = {k}
  <2>1. PICK k \in Keys \ Limits, v \in {0, 1} : req[r].new = OneItem(k, v)
    BY <1>1 DEF IInv, Sound, Wish
  <2>2. DOMAIN req[r].new = {k}
    BY <2>1, OneItemIs
  <2> QED
    BY <2>2
<1>3. (CHOOSE x \in DOMAIN req[r].new : TRUE) = k
  BY <1>2
<1>4. CASE Len(rows[k]) > 1 \/ (rows[k] = <<>> /\ k \in {"module", "permission"})
  BY <1>3, <1>4, EndKeeps DEF SelectRow
<1>5. CASE ~(Len(rows[k]) > 1 \/ (rows[k] = <<>> /\ k \in {"module", "permission"}))
  <2> DEFINE seen == [x \in {k} |-> Last(x)]
             q == [pc |-> "write", op |-> req[r].op, new |-> req[r].new, seen |-> seen]
  <2>1. Goto(r, "write", [x \in {k} |-> Last(k)])
    <3> DEFINE c == CHOOSE x \in DOMAIN req[r].new : TRUE
    <3>1. IF Len(rows[c]) > 1 \/ (rows[c] = <<>> /\ c \in {"module", "permission"})
          THEN End(r) ELSE Goto(r, "write", [x \in {c} |-> Last(c)])
      BY DEF SelectRow
    <3>2. c = k
      BY <1>3
    <3> HIDE DEF c
    <3> QED
      BY <1>5, <3>1, <3>2
  <2>2. [x \in {k} |-> Last(k)] = seen
    OBVIOUS
  <2>3. seen \in Selection
    BY Selected DEF IInv
  <2>4. Wish(req[r])
    BY <1>1 DEF IInv, Sound
  <2>5. Last(k) # <<>> => Last(k)[1].id \in 1..Len(rows[k])
    BY LastRow DEF IInv
  <2>6. k \in Switches => Last(k) # <<>>
    BY <1>5, LastRow DEF IInv, Switches
  <2>7. Met(q)
    BY <1>1, <1>2, <2>5, <2>6 DEF Met
  <2> HIDE DEF seen
  <2> QED
    BY <2>1, <2>2, <2>3, <2>4, <2>7, GotoKeeps
<1> QED
  BY <1>4, <1>5

LEMMA AccessKeeps ==
    ASSUME IInv, NEW r \in Requests, CheckToolAccess(r) \/ InsertPermission(r) \/ InsertFails(r)
    PROVE  IInv'
<1>1. rows["permission"] \in {<<>>, << 0 >>, << 1 >>}
  BY DEF IInv, Single, Unique
<1>2. CASE CheckToolAccess(r)
  <2>1. CASE Denied
    BY <1>2, <2>1, EndKeeps DEF CheckToolAccess
  <2>2. CASE ~Denied /\ rows["permission"] = <<>>
    <3>1. Goto(r, "insert", <<>>) /\ rows["module"] = << 1 >>
      BY <1>2, <2>2 DEF CheckToolAccess, Denied
    <3> QED
      BY <3>1, GotoKeeps, EmptyTypes
  <2>3. CASE ~Denied /\ rows["permission"] # <<>>
    <3>1. Goto(r, "run", <<>>) /\ rows["module"] = << 1 >> /\ rows["permission"] = << 1 >>
      BY <1>1, <1>2, <2>3 DEF CheckToolAccess, Denied
    <3> QED
      BY <3>1, GotoKeeps, EmptyTypes
  <2> QED
    BY <2>1, <2>2, <2>3
<1>3. CASE InsertPermission(r)
  <2>1. "module" \in witness[r]
    BY <1>3 DEF InsertPermission, IInv, Sound, Admitted
  <2> QED
    BY <1>3, <2>1, GotoKeeps, EmptyTypes DEF InsertPermission
<1>4. CASE InsertFails(r)
  <2>1. "module" \in witness[r]
    BY <1>4 DEF InsertFails, IInv, Sound, Admitted
  <2> QED
    BY <1>4, <2>1, GotoKeeps, EndKeeps, EmptyTypes DEF InsertFails, Reselected
<1> QED
  BY <1>2, <1>3, <1>4

-----------------------------------------------------------------------------
(* Commits and starts *)

\* Rows grow, types are kept, and one request ends.
LEMMA WriteKeeps ==
    ASSUME IInv, NEW r \in Requests, req[r].pc # "idle", req' = [req EXCEPT ![r] = Idle],
           rows' \in [Keys -> Seq(Value)], Grown, Single', UNCHANGED <<ops, starts>>, Witness,
           \A p \in Requests \ {r} : req[p].pc = "holds" => rows'["permission"] = <<>>
    PROVE  IInv'
<1>1. TypeOK'
  BY WitnessType, EmptyTypes DEF Idle, IInv, TypeOK
<1>2. req'[r] = Idle /\ \A p \in Requests \ {r} : req'[p] = req[p]
  BY DEF IInv, TypeOK
<1>3. Sound(r)'
  BY <1>2 DEF Sound, Admitted, Idle
<1>4. \A p \in Requests \ {r} : Sound(p)'
  BY <1>1, <1>2, OthersSound DEF IInv
<1>5. OneHolder'
  BY <1>2 DEF IInv, OneHolder, Idle
<1> QED
  BY <1>1, <1>3, <1>4, <1>5 DEF IInv

\* What a commit writes of one key.
LEMMA CommitRows ==
    ASSUME IInv, NEW r \in Requests, Commit(r), NEW k \in DOMAIN req[r].new
    PROVE  /\ k \in Keys /\ k \in DOMAIN req[r].seen /\ req[r].new[k] \in Items
           /\ rows'[k] = Written(k, req[r].seen[k], req[r].new[k])
           /\ rows'[k] \in Seq(Value)
           /\ req[r].seen[k] # <<>> => Len(rows'[k]) = Len(rows[k])
           /\ req[r].seen[k] = <<>> => Len(rows'[k]) = Len(rows[k]) + Len(req[r].new[k])
           /\ k \notin Limits => Len(req[r].new[k]) = 1
           /\ k \in Unique => \E v \in {0, 1} : req[r].new = OneItem(k, v) /\ rows'[k] \in {rows[k], <<v>>}
           /\ k \in Switches => rows[k] # <<>>
<1> DEFINE items == req[r].new[k]
           seen == req[r].seen[k]
<1>1. Met(req[r]) /\ Wish(req[r]) /\ req[r].op \in {"limits", "select"}
  BY DEF Commit, IInv, Sound, Met, TypeOK
<1>2. k \in Keys /\ items \in Items /\ rows[k] \in Seq(Value) /\ k \in DOMAIN req[r].seen
  BY <1>1, NewValue DEF IInv, TypeOK, Met
<1>3. rows'[k] = Written(k, seen, items)
  BY <1>2 DEF Commit
<1>4. seen = <<>> \/ (seen[1].id \in 1..Len(rows[k]) /\ seen # <<>>)
  BY <1>1, <1>2 DEF Met
<1>5. k \notin Limits => \E v \in {0, 1} : req[r].new = OneItem(k, v) /\ items = <<v>>
  <2> SUFFICES ASSUME k \notin Limits PROVE \E v \in {0, 1} : req[r].new = OneItem(k, v) /\ items = <<v>>
    OBVIOUS
  <2>1. req[r].op = "select"
    BY <1>1 DEF Wish
  <2>2. PICK j \in Keys \ Limits, w \in {0, 1} : req[r].new = OneItem(j, w)
    BY <1>1, <2>1 DEF Wish
  <2>3. j = k /\ items = <<w>>
    BY <2>2, OneItemIs
  <2> QED
    BY <2>2, <2>3
<1>6. k \in Unique /\ seen = <<>> => rows[k] = <<>>
  BY DEF Commit, Conflict
<1>7. k \in Unique => rows[k] \in {<<>>, << 0 >>, << 1 >>}
  BY DEF IInv, Single
<1> HIDE DEF items, seen
<1>8. /\ Written(k, seen, items) \in Seq(Value)
      /\ seen # <<>> => Len(Written(k, seen, items)) = Len(rows[k])
      /\ seen = <<>> => Len(Written(k, seen, items)) = Len(rows[k]) + Len(items)
  BY <1>2, <1>4, WrittenRows
<1>10. k \in Unique => \E v \in {0, 1} : req[r].new = OneItem(k, v) /\ Written(k, seen, items) \in {rows[k], <<v>>}
  <2> SUFFICES ASSUME k \in Unique
               PROVE  \E v \in {0, 1} : req[r].new = OneItem(k, v) /\ Written(k, seen, items) \in {rows[k], <<v>>}
    OBVIOUS
  <2>1. k \notin Limits
    BY Names
  <2>2. PICK v \in {0, 1} : req[r].new = OneItem(k, v) /\ items = <<v>>
    BY <1>5, <2>1
  <2>3. Written(k, seen, items) \in {rows[k], <<v>>}
    BY <1>2, <1>4, <1>6, <1>7, <2>2, WrittenRows
  <2> QED
    BY <2>2, <2>3
<1>11. k \notin Limits => Len(items) = 1
  <2>1. \A v : Len(<<v>>) = 1
    OBVIOUS
  <2> QED
    BY <1>5, <2>1
<1>9. k \in Switches => rows[k] # <<>>
  <2>1. k \in Switches => seen # <<>>
    BY <1>1 DEF Met, seen
  <2>2. rows[k] = <<>> => Len(rows[k]) = 0
    OBVIOUS
  <2> QED
    BY <1>4, <2>1, <2>2
<1> QED
  BY <1>2, <1>3, <1>8, <1>9, <1>10, <1>11 DEF items, seen

LEMMA CommitKeeps == ASSUME IInv, NEW r \in Requests, Commit(r) PROVE IInv'
<1>1. \A k \in Keys \ DOMAIN req[r].new : rows'[k] = rows[k]
  BY DEF Commit
<1>2. DOMAIN rows' = Keys /\ rows' = [k \in Keys |-> rows'[k]]
  BY DEF Commit
<1>3. rows' \in [Keys -> Seq(Value)]
  <2>1. \A k \in Keys : rows'[k] \in Seq(Value)
    BY <1>1, CommitRows DEF IInv, TypeOK
  <2> QED
    BY <1>2, <2>1
<1>4. Grown
  <2> SUFFICES ASSUME NEW k \in Keys
               PROVE  Len(rows[k]) \in Nat /\ Len(rows'[k]) \in Nat /\ Len(rows[k]) <= Len(rows'[k])
    BY DEF Grown
  <2>1. rows[k] \in Seq(Value) /\ Len(rows[k]) \in Nat
    BY LenProperties DEF IInv, TypeOK
  <2>2. CASE k \notin DOMAIN req[r].new
    BY <1>1, <2>1, <2>2
  <2>3. CASE k \in DOMAIN req[r].new
    <3>1. Len(rows'[k]) = Len(rows[k]) \/ Len(rows'[k]) = Len(rows[k]) + Len(req[r].new[k])
      BY <2>3, CommitRows
    <3>2. Len(req[r].new[k]) \in Nat
      <4>1. req[r].new[k] \in Items
        BY <2>3, CommitRows
      <4>2. Len(req[r].new[k]) \in 1..MaxItems
        BY <4>1, ItemsAre
      <4> QED
        BY <4>2, ConfigAssumption
    <3> QED
      BY <2>1, <3>1, <3>2, NoShorter, Zenon
  <2> QED
    BY <2>2, <2>3
<1>5. Single'
  <2> SUFFICES ASSUME NEW k \in Unique PROVE rows'[k] \in {<<>>, << 0 >>, << 1 >>}
    BY DEF Single
  <2>1. k \in Keys /\ rows[k] \in {<<>>, << 0 >>, << 1 >>}
    BY Names DEF IInv, Single
  <2>2. CASE k \notin DOMAIN req[r].new
    BY <1>1, <2>1, <2>2
  <2>3. CASE k \in DOMAIN req[r].new
    <3>1. \E v \in {0, 1} : rows'[k] \in {rows[k], <<v>>}
      BY <2>3, CommitRows
    <3> QED
      BY <2>1, <3>1
  <2> QED
    BY <2>2, <2>3
<1>6. ASSUME NEW p \in Requests \ {r}, req[p].pc = "holds" PROVE rows'["permission"] = <<>>
  <2>1. rows["permission"] = <<>> /\ "permission" \in Keys \intersect Switches
    BY <1>6 DEF IInv, Sound, Admitted, Keys, Switches
  <2>2. "permission" \notin DOMAIN req[r].new
    BY <2>1, CommitRows
  <2> QED
    BY <1>1, <2>1, <2>2
<1> QED
  BY <1>3, <1>4, <1>5, <1>6, WriteKeeps DEF Commit

LEMMA FinishKeeps == ASSUME IInv, NEW r \in Requests, Finish(r) PROVE IInv'
<1>1. CASE req[r].pc # "holds"
  <2>1. UNCHANGED rows
    BY <1>1 DEF Finish
  <2> QED
    BY <2>1, EndKeeps DEF Finish, End
<1>2. CASE req[r].pc = "holds"
  <2>1. rows["permission"] = <<>> /\ "permission" \in Keys
    BY <1>2 DEF IInv, Sound, Admitted, Keys
  <2>2. rows' = [rows EXCEPT !["permission"] = << 1 >>]
    BY <1>2, <2>1 DEF Finish
  <2>3. << 1 >> \in Seq(Value) /\ Len(<< 1 >>) = 1
    BY Names
  <2>4. rows' \in [Keys -> Seq(Value)]
    BY <2>2, <2>3 DEF IInv, TypeOK
  <2>5. Grown
    <3> SUFFICES ASSUME NEW k \in Keys
                 PROVE  Len(rows[k]) \in Nat /\ Len(rows'[k]) \in Nat /\ Len(rows[k]) <= Len(rows'[k])
      BY DEF Grown
    <3>1. Len(rows[k]) \in Nat
      BY LenProperties DEF IInv, TypeOK
    <3>2. CASE k # "permission"
      BY <2>2, <3>1, <3>2 DEF IInv, TypeOK
    <3>3. CASE k = "permission"
      <4>1. Len(rows[k]) = 0
        BY <2>1, <3>3
      <4>2. Len(rows'[k]) = 1
        BY <2>1, <2>2, <2>3, <3>3 DEF IInv, TypeOK
      <4> QED
        BY <4>1, <4>2
    <3> QED
      BY <3>2, <3>3
  <2>6. Single'
    BY <2>2, Names DEF IInv, Single, TypeOK
  <2>7. \A p \in Requests \ {r} : req[p].pc # "holds"
    BY <1>2 DEF IInv, OneHolder
  <2> QED
    BY <1>2, <2>4, <2>5, <2>6, <2>7, WriteKeeps DEF Finish
<1> QED
  BY <1>1, <1>2

LEMMA SeededRows ==
    ASSUME IInv, NEW k \in Keys
    PROVE  /\ Seeded(k) \in Seq(Value)
           /\ Seeded(k) = rows[k] \/ (rows[k] = <<>> /\ Seeded(k) = << 1 >>)
<1>1. rows[k] \in Seq(Value) /\ << 1 >> \in Seq(Value)
  BY Names DEF IInv, TypeOK
<1>2. k \in DOMAIN Default => Default[k] = 1
  BY DEF Default
<1> QED
  BY <1>1, <1>2 DEF Seeded

LEMMA RestartKeeps == ASSUME IInv, Restart PROVE IInv'
<1>1. \A r \in Requests : req'[r] = Idle
  BY DEF Restart
<1>2. /\ rows' \in [Keys -> Seq(Value)]
      /\ \A k \in Keys : rows'[k] = rows[k] \/ rows'[k] = << 1 >>
  <2>1. CASE UNCHANGED rows
    BY <2>1 DEF IInv, TypeOK
  <2>2. CASE rows' = [k \in Keys |-> Seeded(k)]
    BY <2>2, SeededRows
  <2> QED
    BY <2>1, <2>2 DEF Restart
<1>3. starts' \in 1..MaxStarts
  BY ConfigAssumption DEF Restart, IInv, TypeOK
<1>4. TypeOK'
  <2>1. req' \in [Requests -> [pc : {"idle", "read", "write", "insert", "holds", "run"},
                               op : {"limits", "select", "execute"},
                               new : Change, seen : Selection]]
    BY EmptyTypes DEF Restart, Idle
  <2> QED
    BY <1>2, <1>3, <2>1, WitnessType DEF Restart, IInv, TypeOK
<1>5. Single'
  BY <1>2, Names DEF IInv, Single
<1>6. \A r \in Requests : Sound(r)'
  BY <1>1 DEF Sound, Admitted, Idle
<1>7. OneHolder'
  BY <1>1 DEF OneHolder, Idle
<1> QED
  BY <1>4, <1>5, <1>6, <1>7 DEF IInv

LEMMA InitInv == Init => IInv
<1> SUFFICES ASSUME Init PROVE IInv
  OBVIOUS
<1>1. \A r \in Requests : req[r] = Idle
  BY DEF Init
<1>2. /\ rows \in [Keys -> Seq(Value)]
      /\ \A k \in Keys : rows[k] \in {<<>>, << 1 >>}
  <2>1. PICK missing \in SUBSET {"permission", "global"} :
          rows = [k \in Keys |-> IF k \in DOMAIN Default \ missing THEN <<Default[k]>> ELSE <<>>]
    BY DEF Init
  <2>2. \A k \in DOMAIN Default : Default[k] = 1
    BY DEF Default
  <2>3. << 1 >> \in Seq(Value) /\ <<>> \in Seq(Value)
    BY Names
  <2> QED
    BY <2>1, <2>2, <2>3
<1>3. TypeOK
  <2>1. req \in [Requests -> [pc : {"idle", "read", "write", "insert", "holds", "run"},
                              op : {"limits", "select", "execute"},
                              new : Change, seen : Selection]]
    BY EmptyTypes DEF Init, Idle
  <2> QED
    BY <1>2, <2>1, ConfigAssumption DEF Init, TypeOK
<1>4. Single
  BY <1>2, Names DEF Single
<1>5. \A r \in Requests : Sound(r)
  BY <1>1 DEF Sound, Admitted, Idle
<1>6. OneHolder
  BY <1>1 DEF OneHolder, Idle
<1> QED
  BY <1>3, <1>4, <1>5, <1>6 DEF IInv

LEMMA StutterKeeps == ASSUME IInv, UNCHANGED vars PROVE IInv'
<1>1. TypeOK' /\ Single' /\ OneHolder'
  BY DEF vars, IInv, TypeOK, Single, OneHolder
<1>2. ASSUME NEW r \in Requests PROVE Sound(r)'
  <2>1. Sound(r) /\ UNCHANGED <<rows, witness>> /\ req'[r] = req[r]
    BY DEF IInv, vars
  <2>2. (Wish(req[r]))' <=> Wish(req[r])
    BY <2>1 DEF Wish
  <2>3. (Met(req[r]))' <=> Met(req[r])
    BY <2>1 DEF Met, Checked
  <2>4. Admitted(r)' <=> Admitted(r)
    BY <2>1 DEF Admitted
  <2> QED
    BY <2>1, <2>2, <2>3, <2>4 DEF Sound
<1> QED
  BY <1>1, <1>2 DEF IInv

LEMMA NextInv == IInv /\ [Next]_vars => IInv'
<1> SUFFICES ASSUME IInv, [Next]_vars PROVE IInv'
  OBVIOUS
<1>1. ASSUME NEW r \in Requests,
             \/ UpdateRateLimits(r) \/ SetPreferences(r)
             \/ UpdateSettings(r) \/ UpdateModuleSettings(r)
             \/ UpdateTool(r) \/ UpdateModule(r) \/ UpdateRolePermissions(r) \/ ExecuteTool(r)
      PROVE  IInv'
  BY <1>1, RequestsBegin
<1>2. ASSUME NEW r \in Requests, ReadLimits(r) \/ SelectRow(r) PROVE IInv'
  BY <1>2, ReadLimitsKeeps, SelectRowKeeps
<1>3. ASSUME NEW r \in Requests, CheckToolAccess(r) \/ InsertPermission(r) \/ InsertFails(r) PROVE IInv'
  BY <1>3, AccessKeeps
<1>4. ASSUME NEW r \in Requests, Commit(r) \/ Finish(r) PROVE IInv'
  BY <1>4, CommitKeeps, FinishKeeps
<1>5. ASSUME NEW r \in Requests, Refused(r) \/ Abort(r) PROVE IInv'
  BY <1>5, EndKeeps DEF Refused, Abort
<1>6. CASE Restart
  BY <1>6, RestartKeeps
<1>7. CASE UNCHANGED vars
  BY <1>7, StutterKeeps
<1> QED
  BY <1>1, <1>2, <1>3, <1>4, <1>5, <1>6, <1>7 DEF Next, Progress

LEMMA Inductive == Spec => []IInv
BY InitInv, NextInv, PTL DEF Spec

-----------------------------------------------------------------------------
(* What follows *)

\* The tables and the requests are what they are meant to be.
THEOREM TypeCorrect == Spec => []TypeOK
<1>1. IInv => TypeOK
  BY DEF IInv
<1> QED
  BY <1>1, Inductive, PTL

\* No tool runs that was not found switched on and granted to the role.
THEOREM RunsArePermitted == Spec => []RunsPermitted
<1>1. IInv => RunsPermitted
  BY DEF IInv, Sound, Admitted, RunsPermitted, Switches
<1> QED
  BY <1>1, Inductive, PTL

LEMMA StoredLimits == ASSUME TypeOK PROVE GlobalLimit \in Nat /\ PerToolLimit \in Nat
<1>1. /\ rows["global"] \in Seq(Value) /\ rows["perTool"] \in Seq(Value)
      /\ Value \subseteq Nat /\ Default["global"] = 1
  BY ConfigAssumption DEF TypeOK, Keys, Value, Default
<1>2. ASSUME NEW s \in Seq(Value), s # <<>> PROVE s[1] \in Nat
  <2>1. Len(s) \in Nat /\ Len(s) # 0
    BY <1>2, EmptySeq, LenProperties
  <2>2. s[1] \in Value
    BY <1>2, <2>1, ElementOfSeq
  <2> QED
    BY <1>1, <2>2
<1> QED
  BY <1>1, <1>2 DEF GlobalLimit, PerToolLimit

\* Whatever rows are stored, the limit in force is no looser than any that is set.
THEOREM LimitsAreInForce == Spec => []LimitInForce
<1>1. TypeOK => LimitInForce
  BY StoredLimits DEF LimitInForce, EffectiveLimit, Effective
<1> QED
  BY <1>1, TypeCorrect, PTL

-----------------------------------------------------------------------------
(* Who changes rows *)

LEMMA RowWriters ==
    ASSUME [Next]_vars, ~UNCHANGED rows
    PROVE  \/ \E r \in Requests : Commit(r)
           \/ \E r \in Requests : Finish(r) /\ req[r].pc = "holds"
           \/ Restart
<1>1. ASSUME NEW r \in Requests, NEW op, NEW new, Begin(r, op, new) PROVE FALSE
  BY <1>1 DEF Begin
<1>2. ASSUME NEW r \in Requests,
             \/ UpdateRateLimits(r) \/ SetPreferences(r)
             \/ UpdateSettings(r) \/ UpdateModuleSettings(r)
             \/ UpdateTool(r) \/ UpdateModule(r) \/ UpdateRolePermissions(r) \/ ExecuteTool(r)
      PROVE  FALSE
  BY <1>1, <1>2 DEF UpdateRateLimits, SetPreferences, UpdateSettings, UpdateModuleSettings, UpdateTool,
                    UpdateModule, UpdateRolePermissions, ExecuteTool
<1>3. ASSUME NEW r \in Requests, ReadLimits(r) \/ SelectRow(r) \/ Refused(r) PROVE FALSE
  BY <1>3 DEF ReadLimits, SelectRow, Refused, Goto, End
<1>4. ASSUME NEW r \in Requests,
             CheckToolAccess(r) \/ InsertPermission(r) \/ InsertFails(r) \/ Abort(r)
      PROVE  FALSE
  BY <1>4 DEF CheckToolAccess, InsertPermission, InsertFails, Reselected, Abort, Goto, End
<1>5. ASSUME NEW r \in Requests, Finish(r) PROVE req[r].pc = "holds"
  BY <1>5 DEF Finish
<1> QED
  BY <1>2, <1>3, <1>4, <1>5 DEF Next, Progress, vars

\* A commit ends the request that was at "write".
LEMMA CommitEnds == ASSUME TypeOK, NEW r \in Requests, Commit(r) PROVE Committing(r)
BY DEF Commit, Committing, TypeOK, Idle

\* Neither the self-healing insert nor a start of the backend switches on what an
\* administrator has switched off.
THEOREM OffIsFinal == Spec => OffStaysOff
<1>1. ASSUME IInv, [Next]_vars, NEW k \in Switches, rows[k] = << 0 >>, rows'[k] # << 0 >>
      PROVE  \E r \in Requests : Committing(r) /\ req[r].new = OneItem(k, 1)
  <2>1. k \in Keys /\ k \in Unique
    BY Names
  <2>2. CASE \E r \in Requests : Commit(r)
    <3>1. PICK r \in Requests : Commit(r)
      BY <2>2
    <3>2. k \in DOMAIN req[r].new
      BY <1>1, <2>1, <3>1 DEF Commit
    <3>3. PICK v \in {0, 1} : req[r].new = OneItem(k, v) /\ rows'[k] \in {rows[k], <<v>>}
      BY <1>1, <2>1, <3>1, <3>2, CommitRows
    <3>4. v = 1
      BY <1>1, <3>3
    <3> QED
      BY <1>1, <3>1, <3>3, <3>4, CommitEnds DEF IInv
  <2>3. CASE \E r \in Requests : Finish(r) /\ req[r].pc = "holds"
    <3>1. rows["permission"] = <<>> /\ \E v : rows' = [rows EXCEPT !["permission"] = v]
      BY <1>1, <2>3 DEF Finish, IInv, Sound, Admitted
    <3>2. k # "permission"
      BY <1>1, <3>1
    <3> QED
      BY <1>1, <2>1, <3>1, <3>2 DEF IInv, TypeOK
  <2>4. CASE Restart
    BY <1>1, <2>1, <2>4, SeededRows DEF Restart
  <2> QED
    BY <1>1, <2>2, <2>3, <2>4, RowWriters
<1>2. IInv /\ [Next]_vars =>
        [\A k \in {"module", "permission"} :
           rows[k] = << 0 >> /\ rows'[k] # << 0 >> =>
             \E r \in Requests : Committing(r) /\ req[r].new = OneItem(k, 1)]_vars
  BY <1>1 DEF Switches
<1> QED
  BY <1>2, Inductive, PTL DEF Spec, OffStaysOff

-----------------------------------------------------------------------------
(* Limits *)

\* The last item of a key that is compared is the limit that is stored.
LEMMA WrittenOverLast ==
    ASSUME TypeOK, NEW k \in Keys, NEW items \in Items, items[Len(items)] # Omitted,
           Len(Written(k, Last(k), items)) <= 1
    PROVE  Written(k, Last(k), items) # <<>> /\ Written(k, Last(k), items)[1] = Compared(items)
<1>1. rows[k] \in Seq(Value)
  BY DEF TypeOK
<1>2. /\ Len(items) \in Nat \ {0} /\ DOMAIN items = 1..Len(items)
      /\ Compared(items) = items[Len(items)]
  BY ItemsAre, ConfigAssumption DEF Compared, OrZero
<1>3. CASE rows[k] = <<>>
  <2> DEFINE s == [i \in DOMAIN items |-> OrZero(items[i])]
  <2>1. Written(k, Last(k), items) = rows[k] \o s /\ s \in Seq(Value) /\ Len(s) = Len(items)
    BY <1>3, LastRow, Inserted DEF Written
  <2>2. 1 \in DOMAIN items /\ s[1] = OrZero(items[1])
    BY <1>2
  <2> HIDE DEF s
  <2>3. Written(k, Last(k), items) = s
    BY <1>3, <2>1, ConcatEmptySeq
  <2>4. Len(items) = 1
    BY <1>2, <2>1, <2>3
  <2>5. s # <<>>
    <3>1. Len(s) = 1 /\ Len(<<>>) = 0
      BY <2>1, <2>4
    <3> QED
      BY <3>1
  <2> QED
    BY <2>2, <2>3, <2>4, <2>5 DEF Compared
<1>4. CASE rows[k] # <<>>
  <2>1. /\ Last(k) # <<>> /\ Last(k)[1].id = Len(rows[k]) /\ Len(rows[k]) \in Nat \ {0}
        /\ Last(k)[1].value = rows[k][Len(rows[k])]
    BY <1>4, LastRow
  <2>2. Len(rows[k]) = 1
    <3>1. Last(k) = <<>> \/ (Last(k)[1].id \in 1..Len(rows[k]) /\ Last(k) # <<>>)
      BY <2>1
    <3>2. Len(Written(k, Last(k), items)) = Len(rows[k])
      <4> DEFINE seen == Last(k)
      <4>1. seen # <<>> /\ (seen = <<>> \/ (seen[1].id \in 1..Len(rows[k]) /\ seen # <<>>))
        BY <2>1, <3>1
      <4> HIDE DEF seen
      <4>2. Len(Written(k, seen, items)) = Len(rows[k])
        BY <1>1, <4>1, WrittenRows
      <4> QED
        BY <4>2 DEF seen
    <3> QED
      BY <1>2, <2>1, <3>2, Sole, Zenon
  <2>3. Len(items) \in LastGiven(items)
    BY <1>2 DEF LastGiven
  <2>4. CASE Changes(items, Last(k)[1].value)
    <3> DEFINE i == CHOOSE j \in LastGiven(items) : TRUE
    <3>1. i \in LastGiven(items)
      BY <2>3
    <3>2. Written(k, Last(k), items) = [rows[k] EXCEPT ![1] = items[i]]
      BY <2>1, <2>2, <2>4 DEF Written
    <3> HIDE DEF i
    <3>3. i = Len(items)
      BY <1>2, <3>1 DEF LastGiven
    <3>4. [rows[k] EXCEPT ![1] = items[i]][1] = items[i] /\ DOMAIN rows[k] = {1}
      BY <1>1, <2>2
    <3>5. [rows[k] EXCEPT ![1] = items[i]] # <<>>
      BY <3>4
    <3> QED
      BY <1>2, <3>2, <3>3, <3>4, <3>5
  <2>5. CASE ~Changes(items, Last(k)[1].value)
    <3>1. Written(k, Last(k), items) = rows[k]
      BY <2>1, <2>5 DEF Written
    <3>2. items[Len(items)] = Last(k)[1].value
      BY <1>2, <2>3, <2>5 DEF Changes
    <3> QED
      BY <1>2, <1>4, <2>1, <2>2, <3>1, <3>2
  <2> QED
    BY <2>4, <2>5
<1> QED
  BY <1>3, <1>4

\* Whatever is no batch of limits leaves the limits alone, but for a start that inserts
\* a global row equal to the default.
LEMMA LimitWriters ==
    ASSUME IInv, [Next]_vars
    PROVE  \/ \E r \in Requests : Commit(r) /\ Committing(r) /\ req[r].op = "limits"
           \/ /\ rows'["perTool"] = rows["perTool"]
              /\ rows'["global"] = rows["global"] \/ (rows["global"] = <<>> /\ rows'["global"] = << 1 >>)
<1>1. "global" \in Keys /\ "perTool" \in Keys /\ Limits = {"global", "perTool"}
  BY DEF Keys, Limits
<1>2. ASSUME NEW r \in Requests, Commit(r), req[r].op # "limits"
      PROVE  UNCHANGED <<rows["perTool"], rows["global"]>>
  <2>1. Wish(req[r]) /\ req[r].op = "select"
    BY <1>2 DEF Commit, IInv, Sound, Met, TypeOK
  <2>2. PICK j \in Keys \ Limits, w \in {0, 1} : req[r].new = OneItem(j, w)
    BY <2>1 DEF Wish
  <2>3. DOMAIN req[r].new = {j}
    BY <2>2, OneItemIs
  <2> QED
    BY <1>1, <1>2, <2>3 DEF Commit
<1>3. ASSUME NEW r \in Requests, Finish(r), req[r].pc = "holds"
      PROVE  UNCHANGED <<rows["perTool"], rows["global"]>>
  <2>1. \E v : rows' = [rows EXCEPT !["permission"] = v]
    BY <1>3 DEF Finish
  <2> QED
    BY <1>1, <2>1 DEF IInv, TypeOK
<1>4. CASE Restart
  <2>1. CASE UNCHANGED rows
    BY <2>1
  <2>2. CASE rows' = [k \in Keys |-> Seeded(k)]
    <3>1. Seeded("perTool") = rows["perTool"]
      BY DEF Seeded, Default
    <3> QED
      BY <1>1, <2>2, <3>1, SeededRows
  <2> QED
    BY <1>4, <2>1, <2>2 DEF Restart
<1> QED
  BY <1>2, <1>3, <1>4, RowWriters, CommitEnds DEF IInv

\* Only a batch of limits changes what limit is in force; the start's default is the
\* one that was in force without it.
THEOREM ForceIsKept == Spec => ForceChangedByBatch
<1>1. ASSUME IInv, [Next]_vars, EffectiveLimit' # EffectiveLimit
      PROVE  \E r \in Requests : Committing(r) /\ req[r].op = "limits"
  <2>1. ASSUME rows'["perTool"] = rows["perTool"],
               rows'["global"] = rows["global"] \/ (rows["global"] = <<>> /\ rows'["global"] = << 1 >>)
        PROVE  FALSE
    <3>1. Default["global"] = 1 /\ << 1 >> # <<>>
      BY DEF Default
    <3> QED
      BY <1>1, <2>1, <3>1 DEF EffectiveLimit, GlobalLimit, PerToolLimit
  <2> QED
    BY <1>1, <2>1, LimitWriters
<1>2. IInv /\ [Next]_vars =>
        [Readable /\ Readable' /\ EffectiveLimit' # EffectiveLimit =>
           \E r \in Requests : Committing(r) /\ req[r].op = "limits"]_vars
  BY <1>1
<1> QED
  BY <1>2, Inductive, PTL DEF Spec, ForceChangedByBatch

\* A batch that gives each limit it names, and was checked against the rows it is
\* written over, leaves no limit per tool above the global one.
THEOREM LimitsStayOrdered == Spec => ExceedsUncompared
<1>1. ASSUME IInv, [Next]_vars, ~Exceeds, Exceeds'
      PROVE  \E r \in Requests :
               /\ Committing(r) /\ req[r].op = "limits"
               /\ \/ "perTool" \notin DOMAIN req[r].new
                  \/ \E k \in DOMAIN req[r].new : req[r].new[k][Len(req[r].new[k])] = Omitted
                  \/ \E k \in Limits : req[r].seen[k] # Last(k)
                  \/ "global" \notin DOMAIN req[r].new /\ rows["global"] = <<>>
  <2>1. "global" \in Keys /\ "perTool" \in Keys /\ Limits = {"global", "perTool"}
    BY DEF Keys, Limits
  <2>2. PICK r \in Requests : Commit(r) /\ Committing(r) /\ req[r].op = "limits"
    <3>1. ASSUME rows'["perTool"] = rows["perTool"],
                 rows'["global"] = rows["global"] \/ (rows["global"] = <<>> /\ rows'["global"] = << 1 >>)
          PROVE  FALSE
      <4>1. Default["global"] = 1 /\ << 1 >> # <<>> /\ Len(<<>>) = 0
        BY DEF Default
      <4>2. PerToolLimit' = PerToolLimit /\ GlobalLimit' = GlobalLimit
        BY <3>1, <4>1 DEF PerToolLimit, GlobalLimit
      <4>3. Readable
        <5>1. Readable'
          BY <1>1 DEF Exceeds
        <5>2. Len(rows["perTool"]) <= 1 /\ Len(rows["global"]) <= 1
          BY <2>1, <3>1, <4>1, <5>1 DEF Readable
        <5> QED
          BY <2>1, <5>2 DEF Readable
      <4> QED
        BY <1>1, <4>2, <4>3 DEF Exceeds, Above
    <3> QED
      BY <1>1, <3>1, LimitWriters
  <2>3. Met(req[r]) /\ DOMAIN req[r].new \subseteq Limits
    BY <1>1, <2>2 DEF Commit, IInv, Sound, Met, Wish
  <2>4. \A k \in Keys \ DOMAIN req[r].new : rows'[k] = rows[k]
    BY <2>2 DEF Commit
  <2>5. ASSUME "perTool" \in DOMAIN req[r].new,
               \A k \in DOMAIN req[r].new : req[r].new[k][Len(req[r].new[k])] # Omitted,
               \A k \in Limits : req[r].seen[k] = Last(k),
               "global" \in DOMAIN req[r].new \/ rows["global"] # <<>>
        PROVE  FALSE
    <3>1. Len(rows'["global"]) <= 1 /\ Len(rows'["perTool"]) <= 1
      BY <1>1, <2>1 DEF Exceeds, Readable
    <3>2. ASSUME NEW k \in DOMAIN req[r].new
          PROVE  rows'[k] # <<>> /\ rows'[k][1] = Compared(req[r].new[k])
      <4>1. /\ k \in Keys /\ k \in Limits /\ req[r].new[k] \in Items
            /\ rows'[k] = Written(k, Last(k), req[r].new[k])
        BY <1>1, <2>2, <2>3, <2>5, CommitRows
      <4>2. Len(Written(k, Last(k), req[r].new[k])) <= 1
        BY <2>1, <3>1, <4>1
      <4> QED
        BY <1>1, <2>5, <4>1, <4>2, WrittenOverLast DEF IInv
    <3>3. PerToolLimit' = Compared(req[r].new["perTool"])
      BY <2>5, <3>2 DEF PerToolLimit
    <3>4. Above(PerToolLimit', GlobalLimit')
      BY <1>1 DEF Exceeds, Above
    <3>5. CASE "global" \in DOMAIN req[r].new
      <4>1. ~Above(Compared(req[r].new["perTool"]), Compared(req[r].new["global"]))
        BY <2>2, <2>3, <2>5, <3>5 DEF Met, Checked
      <4>2. GlobalLimit' = Compared(req[r].new["global"])
        BY <3>2, <3>5 DEF GlobalLimit
      <4> QED
        BY <3>3, <3>4, <4>1, <4>2
    <3>6. CASE "global" \notin DOMAIN req[r].new
      <4>1. rows'["global"] = rows["global"] /\ rows["global"] # <<>>
        BY <2>1, <2>4, <2>5, <3>6
      <4>2. Last("global") # <<>> /\ Last("global")[1].value = GlobalLimit'
        <5>1. /\ Last("global") # <<>> /\ Len(rows["global"]) \in Nat \ {0}
              /\ Last("global")[1].value = rows["global"][Len(rows["global"])]
          BY <1>1, <2>1, <4>1, LastRow DEF IInv
        <5>2. Len(rows["global"]) = 1
          <6>1. Len(rows["global"]) <= 1
            BY <3>1, <4>1
          <6> QED
            BY <5>1, <6>1, Sole, Zenon
        <5> QED
          BY <4>1, <5>1, <5>2 DEF GlobalLimit
      <4>3. ~Above(Compared(req[r].new["perTool"]), Last("global")[1].value)
        BY <2>1, <2>2, <2>3, <2>5, <3>6, <4>2 DEF Met, Checked
      <4> QED
        BY <3>3, <3>4, <4>2, <4>3
    <3> QED
      BY <3>5, <3>6
  <2> QED
    BY <2>2, <2>5
<1>2. IInv /\ [Next]_vars =>
        [~Exceeds /\ Exceeds' =>
           \E r \in Requests :
             LET q == req[r] IN
             /\ Committing(r) /\ q.op = "limits"
             /\ \/ "perTool" \notin DOMAIN q.new
                \/ \E k \in DOMAIN q.new : q.new[k][Len(q.new[k])] = Omitted
                \/ \E k \in Limits : q.seen[k] # Last(k)
                \/ "global" \notin DOMAIN q.new /\ rows["global"] = <<>>]_vars
  BY <1>1
<1> QED
  BY <1>2, Inductive, PTL DEF Spec, ExceedsUncompared

-----------------------------------------------------------------------------
(* Rows without a constraint *)

\* Those about to insert a row of k, and room for theirs.
Inserters(k) ==
    {r \in Requests : req[r].pc = "write" /\ k \in DOMAIN req[r].new /\ req[r].seen[k] = <<>>}

\* The items a request may have of a key.
Copies(k) == IF k \in Limits THEN MaxItems ELSE 1

Room ==
    \A k \in Keys \ Unique :
      Len(rows[k]) + Copies(k) * Cardinality(Inserters(k)) <= Copies(k) * Cardinality(Requests)

LEMMA Products ==
    ASSUME NEW c \in Nat, NEW m \in Nat, NEW n \in Nat, m <= n
    PROVE  /\ c * m \in Nat /\ c * n \in Nat /\ c * m <= c * n
           /\ n # 0 => c <= c * n /\ c * (n - 1) = c * n - c
           /\ c * 0 = 0
BY Z3

LEMMA InsertersFinite ==
    ASSUME NEW S \in SUBSET Requests
    PROVE  /\ IsFiniteSet(S) /\ Cardinality(S) \in Nat
           /\ Cardinality(S) <= Cardinality(Requests) /\ Cardinality(Requests) \in Nat \ {0}
<1>1. Cardinality(Requests) \in Nat /\ Cardinality(Requests) # 0
  BY ConfigAssumption, FS_CardinalityType, FS_EmptySet
<1>2. IsFiniteSet(S) /\ Cardinality(S) <= Cardinality(Requests)
  BY ConfigAssumption, FS_Subset
<1> QED
  BY <1>1, <1>2, FS_CardinalityType

\* Whoever comes to insert a row has just found none.
LEMMA WriteEntered ==
    ASSUME IInv, [Next]_vars, NEW r \in Requests, req'[r] # req[r], req'[r].pc = "write"
    PROVE  UNCHANGED rows /\ \A k \in DOMAIN req'[r].seen : k \in Keys /\ req'[r].seen[k] = Last(k)
<1>1. ASSUME NEW q \in Requests, NEW op, NEW new, Begin(q, op, new) PROVE FALSE
  BY <1>1 DEF Begin, IInv, TypeOK
<1>2. ASSUME NEW q \in Requests,
             \/ UpdateRateLimits(q) \/ SetPreferences(q)
             \/ UpdateSettings(q) \/ UpdateModuleSettings(q)
             \/ UpdateTool(q) \/ UpdateModule(q) \/ UpdateRolePermissions(q) \/ ExecuteTool(q)
      PROVE  FALSE
  BY <1>1, <1>2 DEF UpdateRateLimits, SetPreferences, UpdateSettings, UpdateModuleSettings, UpdateTool,
                    UpdateModule, UpdateRolePermissions, ExecuteTool
<1>3. ASSUME NEW q \in Requests, req' = [req EXCEPT ![q] = Idle] PROVE FALSE
  BY <1>3 DEF Idle, IInv, TypeOK
<1>4. ASSUME NEW q \in Requests, NEW pc, NEW seen, Goto(q, pc, seen)
      PROVE  pc = "write" /\ req'[r].seen = seen /\ UNCHANGED rows
  BY <1>4 DEF Goto, IInv, TypeOK
<1>5. ASSUME NEW q \in Requests, ReadLimits(q)
      PROVE  UNCHANGED rows /\ \A k \in DOMAIN req'[r].seen : k \in Keys /\ req'[r].seen[k] = Last(k)
  <2>1. Goto(q, "write", [k \in Limits |-> Last(k)])
    BY <1>3, <1>5 DEF ReadLimits, End
  <2>2. req'[r].seen = [k \in Limits |-> Last(k)] /\ UNCHANGED rows
    BY <1>4, <2>1
  <2> QED
    BY <2>2, Names
<1>6. ASSUME NEW q \in Requests, SelectRow(q)
      PROVE  UNCHANGED rows /\ \A k \in DOMAIN req'[r].seen : k \in Keys /\ req'[r].seen[k] = Last(k)
  <2> DEFINE c == CHOOSE x \in DOMAIN req[q].new : TRUE
  <2>1. Goto(q, "write", [x \in {c} |-> Last(c)])
    BY <1>3, <1>6 DEF SelectRow, End
  <2>2. c \in Keys
    <3>1. PICK k \in Keys \ Limits, v \in {0, 1} : req[q].new = OneItem(k, v)
      BY <1>6 DEF SelectRow, IInv, Sound, Wish
    <3>2. DOMAIN req[q].new = {k}
      BY <3>1, OneItemIs
    <3> QED
      BY <3>2
  <2> HIDE DEF c
  <2>3. req'[r].seen = [x \in {c} |-> Last(c)] /\ UNCHANGED rows
    BY <1>4, <2>1
  <2> QED
    BY <2>2, <2>3
<1>7. ASSUME NEW q \in Requests, CheckToolAccess(q) \/ InsertPermission(q) \/ InsertFails(q) PROVE FALSE
  BY <1>3, <1>4, <1>7 DEF CheckToolAccess, InsertPermission, InsertFails, Reselected, End
<1>8. ASSUME NEW q \in Requests, Commit(q) \/ Refused(q) \/ Finish(q) \/ Abort(q) PROVE FALSE
  BY <1>3, <1>8 DEF Commit, Refused, Finish, Abort, End
<1>9. CASE Restart
  BY <1>9 DEF Restart, Idle
<1> QED
  BY <1>2, <1>5, <1>6, <1>7, <1>8, <1>9 DEF Next, Progress, vars

LEMMA RoomNext == IInv /\ Room /\ [Next]_vars => Room'
<1> SUFFICES ASSUME IInv, Room, [Next]_vars, NEW k \in Keys \ Unique
             PROVE  Len(rows'[k]) + Copies(k) * Cardinality(Inserters(k)') <= Copies(k) * Cardinality(Requests)
  BY DEF Room
<1>10. Copies(k) \in Nat \ {0}
  BY ConfigAssumption DEF Copies
<1>11. ASSUME NEW m \in Nat, NEW n \in Nat, m <= n
       PROVE  /\ Copies(k) * m \in Nat /\ Copies(k) * n \in Nat /\ Copies(k) * m <= Copies(k) * n
              /\ n # 0 => Copies(k) <= Copies(k) * n /\ Copies(k) * (n - 1) = Copies(k) * n - Copies(k)
              /\ Copies(k) * 0 = 0
  BY <1>10, <1>11, Products
<1> DEFINE I == Inserters(k)
           N == Inserters(k)'
<1>1. I \in SUBSET Requests /\ N \in SUBSET Requests
  BY DEF Inserters
<1>2. /\ IsFiniteSet(I) /\ Cardinality(I) \in Nat /\ Cardinality(N) \in Nat
      /\ Cardinality(N) <= Cardinality(Requests) /\ Cardinality(Requests) \in Nat \ {0}
  BY <1>1, InsertersFinite
<1>3. Len(rows[k]) \in Nat /\ Len(rows[k]) + Copies(k) * Cardinality(I) <= Copies(k) * Cardinality(Requests)
  <2>1. rows[k] \in Seq(Value)
    BY DEF IInv, TypeOK
  <2> QED
    BY <2>1, LenProperties DEF Room
<1>4. IInv'
  BY NextInv
<1>5. ASSUME NEW r \in N, r \notin I PROVE UNCHANGED rows /\ rows[k] = <<>>
  <2>1. r \in Requests /\ req'[r].pc = "write" /\ k \in DOMAIN req'[r].new /\ req'[r].seen[k] = <<>>
    BY <1>5 DEF Inserters
  <2>2. req'[r] # req[r]
    BY <1>5, <2>1 DEF Inserters
  <2>3. k \in DOMAIN req'[r].seen
    BY <1>4, <2>1 DEF IInv, Sound, Met
  <2>4. UNCHANGED rows /\ Last(k) = <<>>
    BY <2>1, <2>2, <2>3, WriteEntered
  <2> QED
    BY <2>4, LastRow DEF IInv
<1> HIDE DEF I, N
<1>6. CASE ~(N \subseteq I)
  <2>1. UNCHANGED rows /\ rows[k] = <<>>
    BY <1>5, <1>6
  <2>2. Len(rows'[k]) = 0
    BY <2>1
  <2>3. Copies(k) * Cardinality(N) <= Copies(k) * Cardinality(Requests) /\ Copies(k) * Cardinality(N) \in Nat
    BY <1>2, <1>11
  <2> QED
    BY <2>2, <2>3 DEF N
<1>7. CASE N \subseteq I /\ Len(rows'[k]) = Len(rows[k])
  <2>1. Cardinality(N) <= Cardinality(I)
    BY <1>2, <1>7, FS_Subset
  <2>2. /\ Copies(k) * Cardinality(N) <= Copies(k) * Cardinality(I)
        /\ Copies(k) * Cardinality(N) \in Nat /\ Copies(k) * Cardinality(I) \in Nat
    BY <1>2, <1>11, <2>1
  <2>3. Copies(k) * Cardinality(Requests) \in Nat
    BY <1>2, <1>11
  <2> QED
    BY <1>3, <1>7, <2>2, <2>3 DEF N
<1>8. CASE N \subseteq I /\ Len(rows'[k]) # Len(rows[k])
  <2>1. CASE \E r \in Requests : Commit(r)
    <3>1. PICK r \in Requests : Commit(r)
      BY <2>1
    <3>2. k \in DOMAIN req[r].new
      BY <1>8, <3>1 DEF Commit
    <3>3. /\ req[r].seen[k] = <<>> /\ Len(rows'[k]) = Len(rows[k]) + Len(req[r].new[k])
          /\ req[r].new[k] \in Items /\ (k \notin Limits => Len(req[r].new[k]) = 1)
      BY <1>8, <3>1, <3>2, CommitRows
    <3>8. Len(req[r].new[k]) \in Nat /\ Len(req[r].new[k]) <= Copies(k)
      <4>1. Len(req[r].new[k]) \in 1..MaxItems
        BY <3>3, ItemsAre
      <4>2. CASE k \in Limits
        <5>1. Copies(k) = MaxItems /\ MaxItems \in Nat \ {0}
          BY <4>2, ConfigAssumption DEF Copies
        <5> QED
          BY <4>1, <5>1, InRange, Zenon
      <4>3. CASE k \notin Limits
        <5>1. Copies(k) = 1 /\ 1 \in Nat /\ 1 <= 1
          BY <4>3 DEF Copies
        <5> QED
          BY <3>3, <4>3, <5>1, Zenon
      <4> QED
        BY <4>2, <4>3
    <3>4. r \in I /\ r \notin N
      BY <3>1, <3>2, <3>3 DEF I, N, Inserters, Commit, Idle, IInv, TypeOK
    <3>5. Cardinality(I \ {r}) = Cardinality(I) - 1 /\ IsFiniteSet(I \ {r})
      BY <1>2, <3>4, FS_RemoveElement
    <3>6. N \in SUBSET (I \ {r})
      BY <1>8, <3>4
    <3>7. Cardinality(N) <= Cardinality(I) - 1
      BY <3>5, <3>6, FS_Subset
    <3>9. Cardinality(I) # 0
      BY <1>2, <3>7
    <3>10. /\ Copies(k) * Cardinality(N) <= Copies(k) * (Cardinality(I) - 1)
           /\ Copies(k) * (Cardinality(I) - 1) = Copies(k) * Cardinality(I) - Copies(k)
           /\ Copies(k) * Cardinality(N) \in Nat /\ Copies(k) * Cardinality(I) \in Nat
      <4>1. Cardinality(I) - 1 \in Nat
        BY <1>2, <3>9
      <4> QED
        BY <1>2, <1>11, <3>7, <3>9, <4>1
    <3>11. Copies(k) * Cardinality(Requests) \in Nat
      BY <1>2, <1>11
    <3> DEFINE before == Copies(k) * Cardinality(I)
               after == Copies(k) * Cardinality(N)
               room == Copies(k) * Cardinality(Requests)
               len == Len(rows[k])
               added == Len(req[r].new[k])
    <3>12. /\ before \in Nat /\ after \in Nat /\ room \in Nat /\ len \in Nat /\ added \in Nat
           /\ Copies(k) \in Nat /\ added <= Copies(k) /\ len + before <= room
      BY <1>3, <1>10, <3>8, <3>10, <3>11
    <3>13. after <= before - Copies(k)
      BY <3>10
    <3>14. Len(rows'[k]) = len + added
      BY <3>3
    <3> HIDE DEF before, after, room, len, added
    <3>15. len + added + after <= room
      BY <3>12, <3>13, RoomLeft
    <3> QED
      BY <3>14, <3>15 DEF N, after, room
  <2>2. CASE \E r \in Requests : Finish(r) /\ req[r].pc = "holds"
    <3>1. \E v : rows' = [rows EXCEPT !["permission"] = v]
      BY <2>2 DEF Finish
    <3>2. k # "permission"
      BY Names DEF Switches
    <3> QED
      BY <1>8, <3>1, <3>2 DEF IInv, TypeOK
  <2>3. CASE Restart
    <3>1. N = {}
      BY <2>3 DEF N, Inserters, Restart, Idle
    <3>2. Cardinality(N) = 0
      BY <3>1, FS_EmptySet
    <3>3. rows[k] = <<>> /\ rows'[k] = << 1 >>
      BY <1>8, <2>3, SeededRows DEF Restart
    <3>4. Len(rows'[k]) = 1
      BY <3>3
    <3>5. Copies(k) * 0 = 0 /\ Copies(k) <= Copies(k) * Cardinality(Requests)
      BY <1>2, <1>11
    <3>6. Copies(k) * Cardinality(Requests) \in Nat
      BY <1>2, <1>11
    <3> QED
      BY <1>10, <3>2, <3>4, <3>5, <3>6 DEF N
  <2> QED
    BY <1>8, <2>1, <2>2, <2>3, RowWriters
<1> QED
  BY <1>6, <1>7, <1>8

LEMMA ShortRows ==
    ASSUME NEW s, s = <<>> \/ s = << 0 >> \/ s = << 1 >>
    PROVE  Len(s) \in Nat /\ Len(s) <= 1
<1>1. CASE s = <<>>
  <2>1. Len(s) = 0
    BY <1>1
  <2> QED
    BY <2>1
<1>2. CASE s = << 0 >>
  <2>1. Len(s) = 1
    BY <1>2
  <2> QED
    BY <2>1
<1>3. CASE s = << 1 >>
  <2>1. Len(s) = 1
    BY <1>3
  <2> QED
    BY <2>1
<1> QED
  BY <1>1, <1>2, <1>3

LEMMA InitRoom == Init => Room
<1> SUFFICES ASSUME Init, NEW k \in Keys \ Unique
             PROVE  Len(rows[k]) + Copies(k) * Cardinality(Inserters(k)) <= Copies(k) * Cardinality(Requests)
  BY DEF Room
<1>1. Inserters(k) = {}
  BY DEF Init, Inserters, Idle
<1>2. Cardinality(Inserters(k)) = 0
  BY <1>1, FS_EmptySet
<1>3. Len(rows[k]) \in Nat /\ Len(rows[k]) <= 1
  <2>1. \A j \in DOMAIN Default : Default[j] = 1
    BY DEF Default
  <2>2. rows[k] = <<>> \/ rows[k] = << 1 >>
    BY <2>1 DEF Init
  <2> QED
    BY <2>2, ShortRows
<1>4. Cardinality(Requests) \in Nat \ {0}
  BY InsertersFinite
<1>5. Copies(k) \in Nat \ {0}
  BY ConfigAssumption DEF Copies
<1>6. Copies(k) * 0 = 0 /\ Copies(k) <= Copies(k) * Cardinality(Requests) /\ Copies(k) * Cardinality(Requests) \in Nat
  BY <1>4, <1>5, Products
<1> QED
  BY <1>2, <1>3, <1>5, <1>6

\* A key has one row where the table says so, and elsewhere no more than the items
\* requests that may overlap can have for it.
THEOREM RowsAreBounded == Spec => []RowsBounded
<1>1. Init => IInv /\ Room
  BY InitInv, InitRoom
<1>2. (IInv /\ Room) /\ [Next]_vars => (IInv /\ Room)'
  BY NextInv, RoomNext
<1>3. IInv /\ Room => RowsBounded
  <2> SUFFICES ASSUME IInv, Room, NEW k \in Keys
               PROVE  Len(rows[k]) <= IF k \in Unique THEN 1 ELSE Copies(k) * Cardinality(Requests)
    <3>1. Cardinality(Requests) \in Nat
      BY InsertersFinite
    <3> QED
      BY <3>1 DEF RowsBounded, Copies
  <2>1. CASE k \in Unique
    <3>1. rows[k] \in {<<>>, << 0 >>, << 1 >>}
      BY <2>1 DEF IInv, Single
    <3>2. Len(rows[k]) \in Nat /\ Len(rows[k]) <= 1
      BY <3>1, ShortRows
    <3> QED
      BY <2>1, <3>2
  <2>2. CASE k \notin Unique
    <3>1. Len(rows[k]) + Copies(k) * Cardinality(Inserters(k)) <= Copies(k) * Cardinality(Requests)
      BY <2>2 DEF Room
    <3>5. Copies(k) \in Nat
      BY ConfigAssumption DEF Copies
    <3>2. Cardinality(Inserters(k)) \in Nat /\ Cardinality(Requests) \in Nat
      BY InsertersFinite DEF Inserters
    <3>3. rows[k] \in Seq(Value)
      BY DEF IInv, TypeOK
    <3>4. Len(rows[k]) \in Nat
      BY <3>3, LenProperties
    <3>6. Copies(k) * Cardinality(Inserters(k)) \in Nat /\ Copies(k) * Cardinality(Requests) \in Nat
      BY <3>2, <3>5, Products
    <3> QED
      BY <2>2, <3>1, <3>4, <3>6
  <2> QED
    BY <2>1, <2>2
<1> QED
  BY <1>1, <1>2, <1>3, PTL DEF Spec
=============================================================================
